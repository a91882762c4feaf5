---------------------------- MODULE ChunkingLemmas ----------------------------
(* How Chunking cuts the text of a document: what its operators on tokens, lines, rows,   *)
(* units and candidates return for every block and every size policy. Whatever is cut is  *)
(* short enough, names the blocks of its words and keeps the words in their order. The    *)
(* folds of the specification are taken step by step, by induction over sets of numbers.  *)
EXTENDS Chunking, WellFoundedInduction, SequenceTheorems, TLAPS

(***************************************************************************)
(* Numbers                                                                 *)
(***************************************************************************)
\* A set of numbers that is not empty has a least one.
LEMMA Least ==
  ASSUME NEW T \in SUBSET Nat, T # {}
  PROVE  \E x \in T : \A y \in T : x <= y
<1>1. PICK x \in T : \A y \in T : ~ (<<y, x>> \in OpToRel(<, Nat))
  BY NatLessThanWellFounded, WFMin
<1>2. \A y \in T : ~ (y < x)
  BY <1>1 DEF OpToRel
<1>3. QED BY <1>2

\* A set with 0 that holds the successor of each of its numbers below n holds n.
LEMMA Induction ==
  ASSUME NEW n \in Nat, NEW T, 0 \in T, \A k \in 0..(n - 1) : k \in T => k + 1 \in T
  PROVE  n \in T
<1>1. SUFFICES ASSUME 0..n \ T # {} PROVE FALSE
  OBVIOUS
<1>2. PICK x \in 0..n \ T : \A y \in 0..n \ T : x <= y
  <2>1. 0..n \ T \in SUBSET Nat OBVIOUS
  <2>2. QED BY <1>1, <2>1, Least
<1>3. x # 0
  BY <1>2
<1>4. x - 1 \in 0..(n - 1) /\ x - 1 \in T
  BY <1>2, <1>3
<1>5. QED BY <1>2, <1>4

\* A set of numbers up to n has a least and a greatest one.
LEMMA MinMax ==
  ASSUME NEW n \in Nat, NEW S \in SUBSET (1..n), S # {}
  PROVE  /\ Seqs!Min(S) \in S /\ \A y \in S : Seqs!Min(S) <= y
         /\ Seqs!Max(S) \in S /\ \A y \in S : y <= Seqs!Max(S)
<1>1. \E x \in S : \A y \in S : x <= y
  BY Least
<1>2. \E x \in S : \A y \in S : x >= y
  <2> DEFINE U == {n - y : y \in S}
  <2>1. PICK u \in U : \A v \in U : u <= v
    <3>1. \A y \in S : y \in 1..n /\ n - y \in Nat
      OBVIOUS
    <3>2. U \in SUBSET Nat /\ U # {}
      <4>1. U \in SUBSET Nat BY <3>1
      <4>2. U # {} OBVIOUS
      <4>3. QED BY <4>1, <4>2
    <3>3. QED BY <3>2, Least
  <2>2. PICK x \in S : u = n - x OBVIOUS
  <2>3. \A y \in S : n - y \in U OBVIOUS
  <2>4. \A y \in S : n - x <= n - y BY <2>1, <2>2, <2>3
  <2>5. \A y \in S : x >= y BY <2>4
  <2>6. QED BY <2>5
<1>3. QED BY <1>1, <1>2 DEF Seqs!Min, Seqs!Max

(***************************************************************************)
(* Folds                                                                   *)
(***************************************************************************)
\* What a step does to a value, for each of n steps, and the values from a first one on.
StepsOn(V, n) == [V \X (1..n) -> V]
Traces(V, n, base, h) ==
  {g \in [0..n -> V] : g[0] = base /\ \A k \in 1..n : g[k] = h[<<g[k - 1], k>>]}

\* Steps that stay in V have a trace.
LEMMA StepsExist ==
  ASSUME NEW n \in Nat, NEW V, NEW base \in V, NEW h \in StepsOn(V, n)
  PROVE  \E g : g \in Traces(V, n, base, h)
<1> USE DEF StepsOn
<1> DEFINE Good(m) == \E g \in [0..m -> V] : g[0] = base /\ \A k \in 1..m : g[k] = h[<<g[k - 1], k>>]
           T == {m \in 0..n : Good(m)}
<1>1. 0 \in T
  <2> DEFINE e == [k \in 0..0 |-> base]
  <2>1. e \in [0..0 -> V] /\ e[0] = base /\ 1..0 = {}
    OBVIOUS
  <2>2. Good(0)
    <3> HIDE DEF e
    <3>1. QED BY <2>1
  <2>3. QED BY <2>2
<1>2. ASSUME NEW m \in 0..(n - 1), m \in T PROVE m + 1 \in T
  <2>1. PICK g \in [0..m -> V] : g[0] = base /\ \A k \in 1..m : g[k] = h[<<g[k - 1], k>>]
    BY <1>2
  <2> DEFINE e == [k \in 0..(m + 1) |-> IF k = m + 1 THEN h[<<g[m], m + 1>>] ELSE g[k]]
  <2>2. e \in [0..(m + 1) -> V]
    <3>1. m \in 0..m /\ m + 1 \in 1..n OBVIOUS
    <3>2. <<g[m], m + 1>> \in V \X (1..n) BY <3>1
    <3>3. \A k \in 0..(m + 1) : k # m + 1 => k \in 0..m OBVIOUS
    <3>4. QED BY <3>2, <3>3
  <2>3. e[0] = base
    <3>1. 0 \in 0..(m + 1) /\ 0 # m + 1 OBVIOUS
    <3>2. QED BY <2>1, <3>1
  <2>4. ASSUME NEW k \in 1..(m + 1) PROVE e[k] = h[<<e[k - 1], k>>]
    <3>1. k \in 0..(m + 1) /\ k - 1 \in 0..(m + 1) /\ k - 1 # m + 1 OBVIOUS
    <3>2. e[k - 1] = g[k - 1] BY <3>1
    <3>3. CASE k = m + 1
      <4>1. k - 1 = m BY <3>3
      <4>2. QED BY <3>1, <3>2, <3>3, <4>1
    <3>4. CASE k # m + 1
      <4>1. k \in 1..m BY <3>4
      <4>2. QED BY <2>1, <3>1, <3>2, <3>4, <4>1
    <3>5. QED BY <3>3, <3>4
  <2>5. Good(m + 1)
    <3> HIDE DEF e
    <3>1. QED BY <2>2, <2>3, <2>4
  <2>6. QED BY <2>5
<1>3. n \in T
  <2> HIDE DEF T
  <2>1. QED BY <1>1, <1>2, Induction
<1>4. QED BY <1>3 DEF Traces

\* What holds of the empty set and passes from a set without its greatest number to the set
\* holds of every set of numbers up to n.
LEMMA SubsetInduction ==
  ASSUME NEW n \in Nat, NEW T, {} \in T,
         \A s \in SUBSET (1..n) : s # {} /\ s \ {Seqs!Max(s)} \in T => s \in T
  PROVE  \A s \in SUBSET (1..n) : s \in T
<1> DEFINE U == {k \in 0..n : SUBSET (1..k) \subseteq T}
<1>1. 0 \in U
  <2>1. 1..0 = {} OBVIOUS
  <2>2. SUBSET (1..0) \subseteq T
    <3>1. \A s \in SUBSET (1..0) : s = {} BY <2>1
    <3>2. QED BY <3>1
  <2>3. 0 \in 0..n OBVIOUS
  <2>4. QED BY <2>2, <2>3, Zenon
<1>2. ASSUME NEW k \in 0..(n - 1), k \in U PROVE k + 1 \in U
  <2>1. ASSUME NEW s \in SUBSET (1..(k + 1)) PROVE s \in T
    <3>1. CASE k + 1 \notin s
      <4>1. \A x \in s : x \in 1..k BY <3>1
      <4>2. QED BY <4>1, <1>2
    <3>2. CASE k + 1 \in s
      <4>1. Seqs!Max(s) \in s /\ k + 1 <= Seqs!Max(s)
        <5>1. k + 1 \in Nat /\ s # {} BY <3>2
        <5>2. Seqs!Max(s) \in s /\ \A y \in s : y <= Seqs!Max(s) BY <5>1, MinMax
        <5>3. QED BY <3>2, <5>2, Zenon
      <4>2. Seqs!Max(s) = k + 1
        <5>1. Seqs!Max(s) \in 1..(k + 1) BY <4>1
        <5>2. QED BY <4>1, <5>1
      <4>3. \A x \in s \ {k + 1} : x \in 1..k OBVIOUS
      <4>4. s \ {Seqs!Max(s)} \in T BY <4>2, <4>3, <1>2
      <4>5. s \in SUBSET (1..n) OBVIOUS
      <4>6. QED BY <4>4, <4>5, <3>2
    <3>3. QED BY <3>1, <3>2
  <2>2. QED BY <2>1
<1>3. n \in U
  <2> HIDE DEF U
  <2>1. QED BY <1>1, <1>2, Induction
<1>4. QED BY <1>3

\* The functions a fold computes over the sets of numbers up to n.
FoldsOver(V, n, base, h) ==
  {f \in [SUBSET (1..n) -> V] :
     /\ f[{}] = base
     /\ \A s \in SUBSET (1..n) :
          s # {} => /\ Seqs!Max(s) \in 1..n
                    /\ s \ {Seqs!Max(s)} \in SUBSET (1..n)
                    /\ f[s] = h[<<f[s \ {Seqs!Max(s)}], Seqs!Max(s)>>]
     /\ \A k \in 1..n : f[1..k] = h[<<f[1..(k - 1)], k>>]}

\* A fold over 1..n whose steps stay in V takes its values from a function on the subsets.
LEMMA FoldSteps ==
  ASSUME NEW n \in Nat, NEW V, NEW base \in V, NEW h \in StepsOn(V, n)
  PROVE  \E f : f \in FoldsOver(V, n, base, h)
<1> USE DEF StepsOn
<1>0. \A s \in SUBSET (1..n) : s # {} => Seqs!Max(s) \in 1..n /\ s \ {Seqs!Max(s)} \in SUBSET (1..n)
  BY MinMax
<1> DEFINE Steps(m, f) == \A s \in SUBSET (1..m) :
             f[s] = IF s = {} THEN base ELSE h[<<f[s \ {Seqs!Max(s)}], Seqs!Max(s)>>]
           T == {m \in 0..n : \E f \in [SUBSET (1..m) -> V] : Steps(m, f)}
<1>1. 0 \in T
  <2> DEFINE e == [s \in SUBSET (1..0) |-> base]
  <2>1. \A s \in SUBSET (1..0) : s = {}
    <3>1. 1..0 = {} OBVIOUS
    <3>2. QED BY <3>1
  <2>2. e \in [SUBSET (1..0) -> V] /\ \A s \in SUBSET (1..0) : e[s] = base OBVIOUS
  <2>3. Steps(0, e)
    <3> HIDE DEF e
    <3>1. QED BY <2>1, <2>2
  <2> HIDE DEF e, Steps
  <2>4. QED BY <2>2, <2>3
<1>2. ASSUME NEW m \in 0..(n - 1), m \in T PROVE m + 1 \in T
  <2>1. PICK f \in [SUBSET (1..m) -> V] : Steps(m, f)
    BY <1>2
  <2> DEFINE e == [s \in SUBSET (1..(m + 1)) |->
                     IF m + 1 \in s THEN h[<<f[s \ {m + 1}], m + 1>>] ELSE f[s]]
  <2>2. \A s \in SUBSET (1..(m + 1)) : s \ {m + 1} \in SUBSET (1..m)
    <3>1. \A x \in 1..(m + 1) : x # m + 1 => x \in 1..m OBVIOUS
    <3>2. QED BY <3>1
  <2>3. e \in [SUBSET (1..(m + 1)) -> V]
    <3>1. ASSUME NEW s \in SUBSET (1..(m + 1)), m + 1 \in s
          PROVE  h[<<f[s \ {m + 1}], m + 1>>] \in V
      <4>1. f[s \ {m + 1}] \in V BY <2>2
      <4>2. m + 1 \in 1..n OBVIOUS
      <4>3. QED BY <4>1, <4>2
    <3>2. ASSUME NEW s \in SUBSET (1..(m + 1)), m + 1 \notin s
          PROVE  f[s] \in V
      <4>1. s \ {m + 1} = s BY <3>2
      <4>2. QED BY <4>1, <2>2
    <3>3. QED BY <3>1, <3>2
  <2>4. ASSUME NEW s \in SUBSET (1..(m + 1))
        PROVE  e[s] = IF s = {} THEN base ELSE h[<<e[s \ {Seqs!Max(s)}], Seqs!Max(s)>>]
    <3>1. CASE m + 1 \in s
      <4>1. Seqs!Max(s) \in s /\ m + 1 <= Seqs!Max(s)
        <5>1. m + 1 \in Nat /\ s # {} BY <3>1
        <5>2. Seqs!Max(s) \in s /\ \A y \in s : y <= Seqs!Max(s) BY <5>1, MinMax
        <5>3. QED BY <3>1, <5>2, Zenon
      <4>2. Seqs!Max(s) = m + 1
        <5>1. Seqs!Max(s) \in 1..(m + 1) BY <4>1
        <5>2. QED BY <4>1, <5>1
      <4>3. s \ {m + 1} \in SUBSET (1..(m + 1)) OBVIOUS
      <4>4. e[s \ {m + 1}] = f[s \ {m + 1}] BY <4>3
      <4>5. QED BY <3>1, <4>2, <4>4
    <3>2. CASE m + 1 \notin s
      <4>1. s \in SUBSET (1..m)
        <5>1. s \ {m + 1} = s BY <3>2
        <5>2. QED BY <5>1, <2>2
      <4>2. e[s] = f[s] BY <3>2
      <4>3. CASE s = {} BY <4>1, <4>2, <4>3, <2>1
      <4>4. CASE s # {}
        <5>1. s \ {Seqs!Max(s)} \in SUBSET (1..(m + 1)) /\ m + 1 \notin s \ {Seqs!Max(s)}
          BY <3>2
        <5>2. e[s \ {Seqs!Max(s)}] = f[s \ {Seqs!Max(s)}] BY <5>1
        <5>3. QED BY <4>1, <4>2, <4>4, <5>2, <2>1
      <4>5. QED BY <4>3, <4>4
    <3>3. QED BY <3>1, <3>2
  <2>5. Steps(m + 1, e) BY <2>4
  <2> HIDE DEF e, Steps
  <2>6. QED BY <2>3, <2>5
<1>3. n \in T
  <2> HIDE DEF T
  <2>1. QED BY <1>1, <1>2, Induction
<1>4. PICK f \in [SUBSET (1..n) -> V] : Steps(n, f)
  BY <1>3
<1>5. ASSUME NEW k \in 1..n PROVE f[1..k] = h[<<f[1..(k - 1)], k>>]
  <2>1. k \in 1..k /\ 1..k \in SUBSET (1..n) OBVIOUS
  <2>2. Seqs!Max(1..k) \in 1..k /\ k <= Seqs!Max(1..k)
    <3>1. k \in Nat /\ 1..k # {} OBVIOUS
    <3>2. QED BY <2>1, <3>1, MinMax
  <2>3. Seqs!Max(1..k) = k BY <2>2
  <2>4. (1..k) \ {k} = 1..(k - 1) OBVIOUS
  <2>5. QED BY <1>4, <2>1, <2>3, <2>4
<1>6. f[{}] = base BY <1>4
<1>7. \A s \in SUBSET (1..n) : s # {} => f[s] = h[<<f[s \ {Seqs!Max(s)}], Seqs!Max(s)>>]
  BY <1>4
<1>8. f \in FoldsOver(V, n, base, h) BY <1>0, <1>5, <1>6, <1>7 DEF FoldsOver
<1>9. QED BY <1>8

(***************************************************************************)
(* Sequences of sequences                                                  *)
(***************************************************************************)
\* A set with the empty sequence that is closed under Append holds every sequence.
LEMMA SeqInduction ==
  ASSUME NEW S, NEW T, <<>> \in T, \A t \in T, x \in S : t \in Seq(S) => Append(t, x) \in T
  PROVE  Seq(S) \subseteq T
<1>1. SUFFICES ASSUME NEW s \in Seq(S) PROVE s \in T
  OBVIOUS
<1> DEFINE n == Len(s)
           U == {k \in 0..n : SubSeq(s, 1, k) \in T}
<1>2. 0 \in U
  <2>1. SubSeq(s, 1, 0) = <<>> OBVIOUS
  <2>2. 0 \in 0..n OBVIOUS
  <2>3. QED BY <2>1, <2>2
<1>3. ASSUME NEW k \in 0..(n - 1), k \in U PROVE k + 1 \in U
  <2>1. s[k + 1] \in S OBVIOUS
  <2>2. SubSeq(s, 1, k) \in Seq(S) OBVIOUS
  <2>3. Append(SubSeq(s, 1, k), s[k + 1]) \in T BY <1>3, <2>1, <2>2
  <2>4. Append(SubSeq(s, 1, k), s[k + 1]) = SubSeq(s, 1, k + 1)
    <3>1. k + 1 \in 1..Len(s) /\ 1 \in 1..Len(s) /\ (k + 1) - 1 = k OBVIOUS
    <3>2. SubSeq(s, 1, k + 1) = SubSeq(s, 1, k) \o <<s[k + 1]>>
      BY <3>1, SubSeqRecursiveSecond
    <3>3. QED BY <2>1, <2>2, <3>2, AppendIsConcat
  <2>5. k + 1 \in 0..n OBVIOUS
  <2>6. QED BY <2>3, <2>4, <2>5
<1>4. n \in U
  <2>1. n \in Nat OBVIOUS
  <2> HIDE DEF U, n
  <2>2. QED BY <1>2, <1>3, <2>1, Induction
<1>5. SubSeq(s, 1, Len(s)) = s OBVIOUS
<1>6. QED BY <1>4, <1>5

\* Append as the function it is.
LEMMA AppendFunction ==
  ASSUME NEW S, NEW s \in Seq(S), NEW e \in S
  PROVE  Append(s, e) = [i \in 1..(Len(s) + 1) |-> IF i = Len(s) + 1 THEN e ELSE s[i]]
<1> DEFINE f == [i \in 1..(Len(s) + 1) |-> IF i = Len(s) + 1 THEN e ELSE s[i]]
<1>1. Len(s) \in Nat /\ \A i \in 1..(Len(s) + 1) : i # Len(s) + 1 => i \in 1..Len(s) OBVIOUS
<1>2. f \in Seq(S) /\ Len(f) = Len(s) + 1 BY <1>1
<1>3. Append(s, e) \in Seq(S) /\ Len(Append(s, e)) = Len(s) + 1 OBVIOUS
<1>4. \A i \in 1..Len(f) : f[i] = Append(s, e)[i] BY <1>1, <1>2, AppendProperties
<1>5. QED
  <2> HIDE DEF f
  <2>1. f = Append(s, e) BY <1>2, <1>3, <1>4, SeqEqual
  <2>2. QED BY <2>1 DEF f

\* FlattenSeq appends one sequence after the other.
LEMMA FlattenSteps ==
  ASSUME NEW X, NEW ss \in Seq(Seq(X))
  PROVE  \E g \in [0..Len(ss) -> Seq(X)] :
           /\ g[0] = <<>> /\ \A k \in 1..Len(ss) : g[k] = g[k - 1] \o ss[k]
           /\ Seqs!FlattenSeq(ss) = g[Len(ss)]
<1> DEFINE n == Len(ss)
           V == Seq(X)
           h == [p \in V \X (1..n) |-> p[1] \o ss[p[2]]]
<1>1. n \in Nat OBVIOUS
<1>2. h \in StepsOn(V, n)
  <2>1. ASSUME NEW p \in V \X (1..n) PROVE p[1] \o ss[p[2]] \in Seq(X)
    <3>1. p[1] \in Seq(X) /\ p[2] \in 1..Len(ss) OBVIOUS
    <3>2. ss[p[2]] \in Seq(X) BY <3>1
    <3>3. QED BY <3>1, <3>2
  <2>2. QED BY <2>1 DEF StepsOn
<1>3. PICK g : g \in Traces(V, n, <<>>, h)
  <2>1. <<>> \in V OBVIOUS
  <2> HIDE DEF n, h, V
  <2>2. QED BY <1>1, <1>2, <2>1, StepsExist
<1>3a. g \in [0..n -> Seq(X)] /\ g[0] = <<>> /\ \A k \in 1..n : g[k] = h[<<g[k - 1], k>>]
  BY <1>3 DEF Traces
<1>4. ASSUME NEW k \in 1..n PROVE g[k] = g[k - 1] \o ss[k]
  <2>0. k - 1 \in 0..n OBVIOUS
  <2>1. g[k - 1] \in Seq(X) BY <1>3a, <2>0
  <2>2. <<g[k - 1], k>> \in Seq(X) \X (1..n) BY <2>1
  <2>3. QED BY <1>3a, <2>2
<1>5. Seqs!FlattenSeq(ss) = g[n]
  <2>1. CASE n = 0
    <3>1. ss = <<>> BY <2>1
    <3>2. QED BY <1>3a, <2>1, <3>1 DEF Seqs!FlattenSeq
  <2>2. CASE n # 0
    <3> DEFINE Eq(f) == f = [i \in 1..n |-> IF i = 1 THEN ss[i] ELSE f[i - 1] \o ss[i]]
               c == CHOOSE f : Eq(f)
    <3>1. Eq([i \in 1..n |-> g[i]])
      <4> DEFINE f == [i \in 1..n |-> g[i]]
      <4>1. ASSUME NEW i \in 1..n PROVE g[i] = IF i = 1 THEN ss[i] ELSE f[i - 1] \o ss[i]
        <5>1. CASE i = 1
          <6>1. g[1] = g[0] \o ss[1]
            <7>1. 1 \in 1..n /\ 1 - 1 = 0 BY <5>1
            <7>2. g[1] = g[1 - 1] \o ss[1] BY <7>1, <1>4
            <7>3. QED BY <7>1, <7>2
          <6>2. ss[1] \in Seq(X) BY <5>1
          <6>3. <<>> \o ss[1] = ss[1] BY <6>2
          <6>4. QED BY <5>1, <6>1, <6>3, <1>3a
        <5>2. CASE i # 1
          <6>1. i - 1 \in 1..n BY <5>2
          <6>2. f[i - 1] = g[i - 1] BY <6>1
          <6>3. QED BY <5>2, <6>2, <1>4
        <5>3. QED BY <5>1, <5>2
      <4>2. f = [i \in 1..n |-> IF i = 1 THEN ss[i] ELSE f[i - 1] \o ss[i]]
        BY <4>1
      <4>3. QED BY <4>2
    <3>2. Eq(c)
      <4> HIDE DEF Eq
      <4>1. QED BY <3>1
    <3>3. \A i \in 1..n : c[i] = IF i = 1 THEN ss[i] ELSE c[i - 1] \o ss[i]
      <4> HIDE DEF c
      <4>1. QED BY <3>2
    <3> DEFINE T == {k \in 0..n : k = 0 \/ c[k] = g[k]}
    <3>4. 0 \in T OBVIOUS
    <3>5. ASSUME NEW k \in 0..(n - 1), k \in T PROVE k + 1 \in T
      <4> HIDE DEF c
      <4>1. CASE k = 0
        <5>1. c[1] = ss[1] /\ g[1] = g[0] \o ss[1]
          <6>1. 1 \in 1..n /\ 1 - 1 = 0 BY <2>2
          <6>2. g[1] = g[1 - 1] \o ss[1] BY <6>1, <1>4
          <6>3. c[1] = ss[1] BY <6>1, <3>3
          <6>4. QED BY <6>1, <6>2, <6>3
        <5>2. ss[1] \in Seq(X) BY <2>2
        <5>3. <<>> \o ss[1] = ss[1] BY <5>2
        <5>4. QED BY <5>1, <5>3, <4>1, <1>3a, <2>2
      <4>2. CASE k # 0
        <5>1. k + 1 \in 1..n /\ k + 1 # 1 /\ (k + 1) - 1 = k BY <4>2
        <5>2. c[k + 1] = c[k] \o ss[k + 1] BY <5>1, <3>3
        <5>3. g[k + 1] = g[k] \o ss[k + 1] BY <5>1, <1>4
        <5>4. c[k] = g[k] BY <3>5, <4>2
        <5>5. k + 1 \in 0..n OBVIOUS
        <5>6. QED BY <5>1, <5>2, <5>3, <5>4, <5>5
      <4>3. QED BY <4>1, <4>2
    <3>6. n \in T
      <4> HIDE DEF T, n
      <4>1. QED BY <3>4, <3>5, <1>1, Induction
    <3>7. c[n] = g[n] BY <3>6, <2>2
    <3>8. Seqs!FlattenSeq(ss) = c[n] BY <2>2 DEF Seqs!FlattenSeq
    <3>9. QED BY <3>7, <3>8
  <2>3. QED BY <2>1, <2>2
<1>6. QED BY <1>3a, <1>4, <1>5

\* What is flattened keeps its type.
LEMMA FlattenType ==
  ASSUME NEW X, NEW ss \in Seq(Seq(X))
  PROVE  Seqs!FlattenSeq(ss) \in Seq(X)
<1>1. PICK g \in [0..Len(ss) -> Seq(X)] : Seqs!FlattenSeq(ss) = g[Len(ss)]
  BY FlattenSteps
<1>2. Len(ss) \in 0..Len(ss) OBVIOUS
<1>3. QED BY <1>1, <1>2

\* Nothing flattened is nothing.
LEMMA FlattenEmpty == Seqs!FlattenSeq(<<>>) = <<>>
  BY DEF Seqs!FlattenSeq

\* The last sequence ends what is flattened.
LEMMA FlattenAppend ==
  ASSUME NEW X, NEW ss \in Seq(Seq(X)), NEW s \in Seq(X)
  PROVE  Seqs!FlattenSeq(Append(ss, s)) = Seqs!FlattenSeq(ss) \o s
<1> DEFINE n == Len(ss)
           l == Append(ss, s)
<1>1. l \in Seq(Seq(X)) /\ Len(l) = n + 1 /\ l[n + 1] = s /\ \A k \in 1..n : l[k] = ss[k]
  OBVIOUS
<1>2. n \in Nat OBVIOUS
<1> HIDE DEF n, l
<1>3. PICK g \in [0..n -> Seq(X)] : /\ g[0] = <<>> /\ \A k \in 1..n : g[k] = g[k - 1] \o ss[k]
                                    /\ Seqs!FlattenSeq(ss) = g[n]
  BY FlattenSteps DEF n
<1>4. PICK e \in [0..(n + 1) -> Seq(X)] : /\ e[0] = <<>> /\ \A k \in 1..(n + 1) : e[k] = e[k - 1] \o l[k]
                                          /\ Seqs!FlattenSeq(l) = e[n + 1]
  <2>1. \E e \in [0..Len(l) -> Seq(X)] : /\ e[0] = <<>> /\ \A k \in 1..Len(l) : e[k] = e[k - 1] \o l[k]
                                         /\ Seqs!FlattenSeq(l) = e[Len(l)]
    BY <1>1, FlattenSteps
  <2>2. QED BY <1>1, <2>1
<1> DEFINE T == {k \in 0..n : g[k] = e[k]}
<1>5. 0 \in T BY <1>2, <1>3, <1>4
<1>6. ASSUME NEW k \in 0..(n - 1), k \in T PROVE k + 1 \in T
  <2>1. k + 1 \in 1..n /\ k + 1 \in 1..(n + 1) /\ (k + 1) - 1 = k BY <1>2
  <2>2. g[k + 1] = g[k] \o ss[k + 1] BY <1>3, <2>1
  <2>3. e[k + 1] = e[k] \o ss[k + 1] BY <1>1, <1>4, <2>1
  <2>4. k + 1 \in 0..n BY <1>2
  <2>5. QED BY <1>6, <2>1, <2>2, <2>3, <2>4
<1>7. n \in T
  <2> HIDE DEF T
  <2>1. QED BY <1>2, <1>5, <1>6, Induction
<1>8. e[n + 1] = e[n] \o s
  <2>1. n + 1 \in 1..(n + 1) /\ (n + 1) - 1 = n BY <1>2
  <2>2. QED BY <1>1, <1>4, <2>1
<1>9. QED BY <1>3, <1>4, <1>7, <1>8 DEF l

\* One sequence flattened is itself.
LEMMA FlattenOne ==
  ASSUME NEW X, NEW s \in Seq(X)
  PROVE  Seqs!FlattenSeq(<<s>>) = s
<1>1. <<s>> = Append(<<>>, s) OBVIOUS
<1>2. Seqs!FlattenSeq(Append(<<>>, s)) = Seqs!FlattenSeq(<<>>) \o s
  <2>1. <<>> \in Seq(Seq(X)) OBVIOUS
  <2>2. QED BY <2>1, FlattenAppend
<1>3. <<>> \o s = s OBVIOUS
<1>4. QED BY <1>1, <1>2, <1>3, FlattenEmpty

\* Two parts are flattened one after the other.
LEMMA FlattenConcat ==
  ASSUME NEW X, NEW a \in Seq(Seq(X)), NEW b \in Seq(Seq(X))
  PROVE  Seqs!FlattenSeq(a \o b) = Seqs!FlattenSeq(a) \o Seqs!FlattenSeq(b)
<1> DEFINE T == {c \in Seq(Seq(X)) : Seqs!FlattenSeq(a \o c) = Seqs!FlattenSeq(a) \o Seqs!FlattenSeq(c)}
<1>1. <<>> \in T
  <2>1. Seqs!FlattenSeq(a) \in Seq(X) BY FlattenType
  <2>2. a \o <<>> = a /\ Seqs!FlattenSeq(a) \o <<>> = Seqs!FlattenSeq(a) BY <2>1
  <2>3. <<>> \in Seq(Seq(X)) OBVIOUS
  <2>4. QED BY <2>2, <2>3, FlattenEmpty
<1>2. ASSUME NEW c \in T, NEW s \in Seq(X) PROVE Append(c, s) \in T
  <2>1. c \in Seq(Seq(X)) /\ a \o c \in Seq(Seq(X)) OBVIOUS
  <2>2. a \o Append(c, s) = Append(a \o c, s) BY <2>1, SMTT(60)
  <2>3. Seqs!FlattenSeq(a) \in Seq(X) /\ Seqs!FlattenSeq(c) \in Seq(X) BY <2>1, FlattenType
  <2>4. (Seqs!FlattenSeq(a) \o Seqs!FlattenSeq(c)) \o s = Seqs!FlattenSeq(a) \o (Seqs!FlattenSeq(c) \o s)
    <3> HIDE DEF T
    <3>1. QED BY <2>3, ConcatAssociative, SMTT(60)
  <2>5. Seqs!FlattenSeq(Append(a \o c, s)) = Seqs!FlattenSeq(a \o c) \o s BY <2>1, FlattenAppend
  <2>6. Seqs!FlattenSeq(Append(c, s)) = Seqs!FlattenSeq(c) \o s BY <2>1, FlattenAppend
  <2>7. Append(c, s) \in Seq(Seq(X)) BY <2>1
  <2>8. QED BY <1>2, <2>2, <2>4, <2>5, <2>6, <2>7
<1>3. Seq(Seq(X)) \subseteq T
  <2> HIDE DEF T
  <2>1. QED BY <1>1, <1>2, SeqInduction
<1>4. QED BY <1>3

(***************************************************************************)
(* Texts and their words                                                   *)
(***************************************************************************)
Token == Nat \X Nat
Text  == Seq(Token)
WordToken   == {a \in Token : IsWord(a)}
LayoutToken == {a \in Token : ~IsWord(a)}

Marked(t) == [i \in DOMAIN t |-> IF IsWord(t[i]) THEN <<t[i]>> ELSE <<>>]

\* The words of a text are tokens of it.
LEMMA BodyType ==
  ASSUME NEW t \in Text
  PROVE  /\ Body(t) \in Seq({t[i] : i \in {j \in DOMAIN t : IsWord(t[j])}})
         /\ Body(t) \in Text
         /\ Marked(t) \in Seq(Text)
         /\ Body(t) = Seqs!FlattenSeq(Marked(t))
<1> DEFINE X == {t[i] : i \in {j \in DOMAIN t : IsWord(t[j])}}
<1>1. \A i \in DOMAIN t : t[i] \in Token BY DEF Text
<1>2. X \in SUBSET Token BY <1>1
<1>3. Marked(t) \in Seq(Seq(X))
  <2>1. ASSUME NEW i \in DOMAIN t PROVE (IF IsWord(t[i]) THEN <<t[i]>> ELSE <<>>) \in Seq(X)
    <3>1. CASE IsWord(t[i])
      <4>1. t[i] \in X BY <3>1
      <4> HIDE DEF X
      <4>2. QED BY <3>1, <4>1
    <3>2. CASE ~IsWord(t[i]) BY <3>2
    <3>3. QED BY <3>1, <3>2
  <2>2. DOMAIN t = 1..Len(t) /\ Len(t) \in Nat BY DEF Text
  <2> HIDE DEF X
  <2>3. QED BY <2>1, <2>2 DEF Marked
<1>4. Seqs!FlattenSeq(Marked(t)) \in Seq(X)
  <2> HIDE DEF X
  <2>1. QED BY <1>3, FlattenType
<1>5. Body(t) = Seqs!FlattenSeq(Marked(t)) BY DEF Body, Marked
<1>6. Seq(X) \subseteq Seq(Token)
  <2> HIDE DEF X
  <2>1. QED BY <1>2, SeqMonotonic
<1>7. Marked(t) \in Seq(Seq(Token))
  <2> HIDE DEF X
  <2>1. QED BY <1>3, <1>6, SeqMonotonic
<1>8. QED BY <1>4, <1>5, <1>6, <1>7 DEF Text

\* Nothing has no words.
LEMMA BodyEmpty == Body(<<>>) = <<>>
<1>1. [i \in DOMAIN <<>> |-> IF IsWord((<<>>)[i]) THEN << (<<>>)[i] >> ELSE <<>>] = <<>> OBVIOUS
<1>2. QED BY <1>1, FlattenEmpty DEF Body

\* A token at the end adds itself, if it is a word.
LEMMA BodyAppend ==
  ASSUME NEW t \in Text, NEW a \in Token
  PROVE  Body(Append(t, a)) = Body(t) \o (IF IsWord(a) THEN <<a>> ELSE <<>>)
<1> DEFINE e == IF IsWord(a) THEN <<a>> ELSE <<>>
           l == Append(t, a)
<1>1. l \in Text BY DEF Text
<1>2. Marked(l) = Append(Marked(t), e)
  <2>1. Len(t) \in Nat /\ DOMAIN t = 1..Len(t) /\ DOMAIN l = 1..(Len(t) + 1)
        /\ l[Len(t) + 1] = a /\ \A i \in 1..Len(t) : l[i] = t[i]
    BY DEF Text
  <2> DEFINE m == Marked(t)
             n == Len(t)
  <2>2. Len(m) = n /\ m \in Seq(Text) /\ \A i \in 1..n : m[i] = IF IsWord(t[i]) THEN <<t[i]>> ELSE <<>>
    <3>1. m \in Seq(Text) BY BodyType
    <3>2. DOMAIN m = 1..n BY <2>1 DEF Marked
    <3>3. \A i \in 1..n : m[i] = IF IsWord(t[i]) THEN <<t[i]>> ELSE <<>> BY <2>1 DEF Marked
    <3>4. QED BY <2>1, <3>1, <3>2, <3>3
  <2>3. Append(m, e) = [i \in 1..(n + 1) |-> IF i = n + 1 THEN e ELSE m[i]]
    <3>1. e \in Text BY DEF Text
    <3> HIDE DEF m, e
    <3>2. QED BY <2>2, <3>1, AppendFunction
  <2>4. Marked(l) = [i \in 1..(n + 1) |-> IF IsWord(l[i]) THEN <<l[i]>> ELSE <<>>]
    BY <2>1 DEF Marked
  <2>5. ASSUME NEW i \in 1..(n + 1)
        PROVE  (IF IsWord(l[i]) THEN <<l[i]>> ELSE <<>>) = (IF i = n + 1 THEN e ELSE m[i])
    <3>1. CASE i = n + 1 BY <3>1, <2>1
    <3>2. CASE i # n + 1
      <4>1. i \in 1..n BY <3>2, <2>1
      <4>2. QED BY <4>1, <3>2, <2>1, <2>2
    <3>3. QED BY <3>1, <3>2
  <2> HIDE DEF m, e, l, n
  <2>6. Marked(l) = Append(m, e) BY <2>3, <2>4, <2>5
  <2>7. QED BY <2>6 DEF m
<1>3. e \in Text BY DEF Text
<1>4. Marked(t) \in Seq(Text) /\ Body(t) = Seqs!FlattenSeq(Marked(t)) BY BodyType
<1>5. Body(l) = Seqs!FlattenSeq(Marked(l)) BY <1>1, BodyType
<1>6. Seqs!FlattenSeq(Append(Marked(t), e)) = Seqs!FlattenSeq(Marked(t)) \o e
  <2> HIDE DEF e
  <2>1. QED BY <1>3, <1>4, FlattenAppend DEF Text
<1>7. QED BY <1>2, <1>4, <1>5, <1>6

\* The words of two texts follow each other.
LEMMA BodyConcat ==
  ASSUME NEW s \in Text, NEW t \in Text
  PROVE  Body(s \o t) = Body(s) \o Body(t) /\ s \o t \in Text
<1> DEFINE T == {u \in Text : Body(s \o u) = Body(s) \o Body(u)}
<1>1. <<>> \in T
  <2>1. Body(s) \in Text BY BodyType
  <2>2. s \o <<>> = s /\ Body(s) \o <<>> = Body(s) BY <2>1 DEF Text
  <2>3. <<>> \in Text BY DEF Text
  <2>4. QED BY <2>2, <2>3, BodyEmpty
<1>2. ASSUME NEW u \in T, NEW a \in Token PROVE Append(u, a) \in T
  <2> DEFINE e == IF IsWord(a) THEN <<a>> ELSE <<>>
  <2>1. u \in Text /\ s \o u \in Text /\ Append(u, a) \in Text BY DEF Text
  <2>2. s \o Append(u, a) = Append(s \o u, a) BY <2>1 DEF Text
  <2>3. Body(s) \in Text /\ Body(u) \in Text /\ e \in Text
    <3>1. e \in Text BY DEF Text
    <3>2. QED BY <2>1, <3>1, BodyType
  <2>4. Body(Append(s \o u, a)) = Body(s \o u) \o e BY <2>1, BodyAppend
  <2>5. Body(Append(u, a)) = Body(u) \o e BY <2>1, BodyAppend
  <2>6. Body(s \o u) = Body(s) \o Body(u) BY <1>2
  <2>7. (Body(s) \o Body(u)) \o e = Body(s) \o (Body(u) \o e)
    <3> HIDE DEF e, T
    <3>1. QED BY <2>3, ConcatAssociative DEF Text
  <2>8. QED BY <2>1, <2>2, <2>4, <2>5, <2>6, <2>7
<1>3. Seq(Token) \subseteq T
  <2> HIDE DEF T
  <2>1. QED BY <1>1, <1>2, SeqInduction
<1>4. QED BY <1>3 DEF Text

\* Layout has no words.
LEMMA BodyOfLayout ==
  ASSUME NEW t \in Seq(LayoutToken)
  PROVE  t \in Text /\ Body(t) = <<>>
<1> DEFINE T == {u \in Text : Body(u) = <<>>}
<1>1. <<>> \in T BY BodyEmpty DEF Text
<1>2. ASSUME NEW u \in T, NEW a \in LayoutToken PROVE Append(u, a) \in T
  <2>1. a \in Token /\ ~IsWord(a) BY DEF LayoutToken
  <2>2. Body(Append(u, a)) = <<>> \o <<>> BY <1>2, <2>1, BodyAppend
  <2>3. <<>> \o <<>> = <<>> OBVIOUS
  <2>4. QED BY <2>1, <2>2, <2>3 DEF Text
<1>3. Seq(LayoutToken) \subseteq T
  <2> HIDE DEF T
  <2>1. QED BY <1>1, <1>2, SeqInduction
<1>4. QED BY <1>3

\* Words alone are their own body.
LEMMA BodyOfWords ==
  ASSUME NEW t \in Seq(WordToken)
  PROVE  t \in Text /\ Body(t) = t
<1> DEFINE T == {u \in Text : Body(u) = u}
<1>1. <<>> \in T BY BodyEmpty DEF Text
<1>2. ASSUME NEW u \in T, NEW a \in WordToken PROVE Append(u, a) \in T
  <2>1. a \in Token /\ IsWord(a) BY DEF WordToken
  <2>2. Body(Append(u, a)) = u \o <<a>> BY <1>2, <2>1, BodyAppend
  <2>3. u \o <<a>> = Append(u, a) BY <1>2, <2>1, AppendIsConcat DEF Text
  <2>4. QED BY <2>1, <2>2, <2>3 DEF Text
<1>3. Seq(WordToken) \subseteq T
  <2> HIDE DEF T
  <2>1. QED BY <1>1, <1>2, SeqInduction
<1>4. QED BY <1>3

(***************************************************************************)
(* Joined texts                                                            *)
(***************************************************************************)
\* A text that is not made of empty lines and starts with at most one.
Clean(t) == \E i \in DOMAIN t : i <= 2 /\ t[i] # Break

Inked(t) == {i \in DOMAIN t : t[i] # Break}
First(t) == Seqs!Min(Inked(t))
Final(t) == Seqs!Max(Inked(t))
Spaced(l, r) == l \o <<Break>> \o r

\* The length of a text.
LEMMA TextLen ==
  ASSUME NEW t \in Text
  PROVE  /\ Len(t) \in Nat /\ DOMAIN t = 1..Len(t)
         /\ \A i \in 1..Len(t) : t[i] \in Token
  BY DEF Text

\* The empty line is layout.
LEMMA BreakToken == Break \in Token /\ ~IsWord(Break) /\ <<Break>> \in Text /\ Body(<<Break>>) = <<>>
<1>1. Break \in Token /\ ~IsWord(Break) BY DEF Break, Token, IsWord
<1>2. <<Break>> \in Seq(LayoutToken) BY <1>1 DEF LayoutToken
<1>3. QED BY <1>1, <1>2, BodyOfLayout

\* The first and the last token of a text that are not empty lines.
LEMMA Ends ==
  ASSUME NEW t \in Text, Inked(t) # {}
  PROVE  /\ First(t) \in 1..Len(t) /\ t[First(t)] # Break
         /\ Final(t) \in 1..Len(t) /\ t[Final(t)] # Break
         /\ First(t) <= Final(t)
         /\ \A i \in 1..Len(t) : t[i] # Break => First(t) <= i /\ i <= Final(t)
<1>1. Len(t) \in Nat /\ DOMAIN t = 1..Len(t) BY TextLen
<1>2. Inked(t) \in SUBSET (1..Len(t)) BY <1>1 DEF Inked
<1>3. /\ First(t) \in Inked(t) /\ \A y \in Inked(t) : First(t) <= y
      /\ Final(t) \in Inked(t) /\ \A y \in Inked(t) : y <= Final(t)
  BY <1>1, <1>2, MinMax DEF First, Final
<1>4. QED BY <1>1, <1>3 DEF Inked

\* They are the only such bounds of it.
LEMMA EndsUnique ==
  ASSUME NEW t \in Text, NEW f \in 1..Len(t), NEW z \in 1..Len(t), t[f] # Break, t[z] # Break,
         \A i \in 1..Len(t) : t[i] # Break => f <= i /\ i <= z
  PROVE  Inked(t) # {} /\ First(t) = f /\ Final(t) = z
<1>1. Inked(t) # {} BY TextLen DEF Inked
<1>2. First(t) \in 1..Len(t) /\ Final(t) \in 1..Len(t) /\ t[First(t)] # Break /\ t[Final(t)] # Break
      /\ First(t) <= f /\ z <= Final(t)
  BY <1>1, Ends
<1>3. f <= First(t) /\ Final(t) <= z BY <1>2
<1>4. QED BY <1>1, <1>2, <1>3, TextLen

\* Strip removes empty lines at both ends, and no word.
LEMMA StripText ==
  ASSUME NEW t \in Text, Inked(t) # {}
  PROVE  /\ Strip(t) \in Text /\ Body(Strip(t)) = Body(t)
         /\ Len(Strip(t)) = Final(t) - First(t) + 1
         /\ Strip(t)[1] # Break /\ Strip(t)[Len(Strip(t))] # Break
<1> DEFINE f == First(t)
           z == Final(t)
           n == Len(t)
<1>1. /\ f \in 1..n /\ t[f] # Break /\ z \in 1..n /\ t[z] # Break /\ f <= z
      /\ \A i \in 1..n : t[i] # Break => f <= i /\ i <= z
  BY Ends
<1>2. n \in Nat /\ t \in Seq(Token) /\ \A i \in 1..n : t[i] \in Token BY TextLen DEF Text
<1>3. Strip(t) = SubSeq(t, f, z) BY DEF Strip, Inked, First, Final
<1> HIDE DEF f, z, n
<1>4. /\ SubSeq(t, f, z) \in Seq(Token) /\ Len(SubSeq(t, f, z)) = z - f + 1
      /\ \A i \in 1..(z - f + 1) : SubSeq(t, f, z)[i] = t[f + i - 1]
  <2>1. f \in Int /\ z \in Int /\ \A i \in f..z : t[i] \in Token BY <1>1, <1>2
  <2>2. QED BY <1>1, <2>1, SubSeqProperties
<1>5. ASSUME NEW a \in Int, NEW b \in Int, \A i \in a..b : i \in 1..n /\ t[i] = Break
      PROVE  SubSeq(t, a, b) \in Text /\ Body(SubSeq(t, a, b)) = <<>>
  <2>1. \A i \in a..b : t[i] \in LayoutToken BY <1>5, BreakToken DEF LayoutToken
  <2>2. SubSeq(t, a, b) \in Seq(LayoutToken) BY <2>1, SubSeqProperties
  <2>3. QED BY <2>2, BodyOfLayout
<1> DEFINE before == SubSeq(t, 1, f - 1)
           strip  == SubSeq(t, f, z)
           after  == SubSeq(t, z + 1, n)
<1>6. before \in Text /\ Body(before) = <<>>
  <2>1. \A i \in 1..(f - 1) : i \in 1..n /\ t[i] = Break BY <1>1, <1>2
  <2>2. 1 \in Int /\ f - 1 \in Int BY <1>1
  <2>3. QED BY <1>5, <2>1, <2>2
<1>7. after \in Text /\ Body(after) = <<>>
  <2>1. \A i \in (z + 1)..n : i \in 1..n /\ t[i] = Break BY <1>1, <1>2
  <2>2. z + 1 \in Int /\ n \in Int BY <1>1, <1>2
  <2>3. QED BY <1>5, <2>1, <2>2
<1>8. t = before \o (strip \o after)
  <2>1. strip \o after = SubSeq(t, f, n)
    <3>1. f \in 1..(n + 1) /\ z \in (f - 1)..n /\ n \in z..n BY <1>1, <1>2
    <3>2. QED BY <1>2, <3>1, ConcatAdjacentSubSeq DEF n
  <2>2. before \o SubSeq(t, (f - 1) + 1, n) = SubSeq(t, 1, n)
    <3>1. 1 \in 1..(n + 1) /\ f - 1 \in 0..n /\ 1 - 1 = 0 /\ n \in (f - 1)..n BY <1>1, <1>2
    <3>2. f - 1 \in (1 - 1)..n BY <3>1
    <3>3. QED BY <1>2, <3>1, <3>2, ConcatAdjacentSubSeq DEF n
  <2>3. (f - 1) + 1 = f BY <1>1
  <2>4. SubSeq(t, 1, n) = t BY <1>2, SubSeqFull DEF n
  <2>5. QED BY <2>1, <2>2, <2>3, <2>4
<1>9. Body(t) = Body(strip)
  <2>1. strip \in Text BY <1>4 DEF Text
  <2> HIDE DEF before, strip, after
  <2>2. Body(strip \o after) = Body(strip) \o <<>> /\ strip \o after \in Text BY <1>7, <2>1, BodyConcat
  <2>3. Body(t) = <<>> \o (Body(strip) \o <<>>) BY <1>6, <1>8, <2>2, BodyConcat
  <2>4. Body(strip) \in Seq(Token) BY <2>1, BodyType DEF Text
  <2>5. <<>> \o (Body(strip) \o <<>>) = Body(strip) BY <2>4, ConcatEmptySeq
  <2>6. QED BY <2>3, <2>5
<1>10. strip[1] # Break /\ strip[z - f + 1] # Break
  <2>1. 1 \in 1..(z - f + 1) /\ z - f + 1 \in 1..(z - f + 1) /\ f + 1 - 1 = f /\ f + (z - f + 1) - 1 = z
    BY <1>1
  <2>2. QED BY <1>1, <1>4, <2>1
<1>11. QED BY <1>3, <1>4, <1>9, <1>10 DEF Text, f, z

\* Two texts with an empty line between them have the words of both.
LEMMA SpacedText ==
  ASSUME NEW l \in Text, NEW r \in Text
  PROVE  /\ Spaced(l, r) \in Text /\ Len(Spaced(l, r)) = Len(l) + 1 + Len(r)
         /\ Body(Spaced(l, r)) = Body(l) \o Body(r)
         /\ \A i \in 1..Len(l) : Spaced(l, r)[i] = l[i]
         /\ Spaced(l, r)[Len(l) + 1] = Break
         /\ \A i \in 1..Len(r) : Spaced(l, r)[Len(l) + 1 + i] = r[i]
<1>1. l \in Seq(Token) /\ r \in Seq(Token) /\ <<Break>> \in Seq(Token) /\ Len(l) \in Nat /\ Len(r) \in Nat
  BY BreakToken, TextLen DEF Text
<1> DEFINE s == l \o <<Break>>
           w == s \o r
<1>2. s \in Seq(Token) /\ Len(s) = Len(l) + 1 /\ (\A i \in 1..Len(l) : s[i] = l[i]) /\ s[Len(l) + 1] = Break
  <2>1. s = Append(l, Break) BY <1>1, BreakToken, AppendIsConcat
  <2>2. QED BY <1>1, <2>1, BreakToken, AppendProperties
<1>3. /\ w \in Seq(Token) /\ Len(w) = Len(l) + 1 + Len(r)
      /\ \A i \in 1..(Len(s) + Len(r)) : w[i] = IF i <= Len(s) THEN s[i] ELSE r[i - Len(s)]
  <2> HIDE DEF s
  <2>1. QED BY <1>1, <1>2, ConcatProperties
<1>4. ASSUME NEW i \in 1..(Len(l) + 1) PROVE w[i] = s[i]
  <2> HIDE DEF w, s
  <2>1. QED BY <1>1, <1>2, <1>3
<1>5. ASSUME NEW i \in 1..Len(r) PROVE w[Len(l) + 1 + i] = r[i]
  <2> HIDE DEF w, s
  <2>1. Len(l) + 1 + i \in 1..(Len(s) + Len(r)) /\ ~ (Len(l) + 1 + i <= Len(s)) /\ (Len(l) + 1 + i) - Len(s) = i
    BY <1>1, <1>2
  <2>2. QED BY <1>3, <2>1
<1>6. Body(w) = Body(l) \o Body(r)
  <2>1. Body(s) = Body(l) \o <<>> BY BreakToken, BodyConcat
  <2>2. Body(l) \in Seq(Token) BY BodyType DEF Text
  <2>3. Body(s) = Body(l) BY <2>1, <2>2, ConcatEmptySeq
  <2>4. s \in Text BY <1>2 DEF Text
  <2> HIDE DEF s
  <2>5. QED BY <2>3, <2>4, BodyConcat
<1>7. Spaced(l, r) = w BY DEF Spaced
<1>8. \A i \in 1..Len(l) : i \in 1..(Len(l) + 1) BY <1>1
<1>9. Len(l) + 1 \in 1..(Len(l) + 1) BY <1>1
<1> HIDE DEF s, w
<1>10. QED BY <1>2, <1>3, <1>4, <1>5, <1>6, <1>7, <1>8, <1>9 DEF Text

\* They begin where the first and end where the second does.
LEMMA EndsOfSpaced ==
  ASSUME NEW l \in Text, NEW r \in Text, Inked(l) # {}, Inked(r) # {}
  PROVE  /\ Inked(Spaced(l, r)) # {}
         /\ First(Spaced(l, r)) = First(l)
         /\ Final(Spaced(l, r)) = Len(l) + 1 + Final(r)
<1> DEFINE w == Spaced(l, r)
           f == First(l)
           z == Len(l) + 1 + Final(r)
<1>1. /\ w \in Text /\ Len(w) = Len(l) + 1 + Len(r)
      /\ \A i \in 1..Len(l) : w[i] = l[i]
      /\ w[Len(l) + 1] = Break
      /\ \A i \in 1..Len(r) : w[Len(l) + 1 + i] = r[i]
  BY SpacedText
<1>2. Len(l) \in Nat /\ Len(r) \in Nat BY TextLen
<1>3. /\ f \in 1..Len(l) /\ l[f] # Break /\ First(r) \in 1..Len(r)
      /\ \A i \in 1..Len(l) : l[i] # Break => f <= i
      /\ Final(r) \in 1..Len(r) /\ r[Final(r)] # Break
      /\ \A i \in 1..Len(r) : r[i] # Break => i <= Final(r)
  BY Ends
<1> HIDE DEF w, f
<1>4. f \in 1..Len(w) /\ z \in 1..Len(w) /\ w[f] # Break /\ w[z] # Break
  BY <1>1, <1>2, <1>3
<1>5. ASSUME NEW i \in 1..Len(w), w[i] # Break PROVE f <= i /\ i <= z
  <2>1. CASE i <= Len(l)
    <3>1. i \in 1..Len(l) BY <2>1, <1>2
    <3>2. QED BY <3>1, <1>1, <1>2, <1>3, <1>5, SMTT(60)
  <2>2. CASE i > Len(l) + 1
    <3>1. i - (Len(l) + 1) \in 1..Len(r) /\ Len(l) + 1 + (i - (Len(l) + 1)) = i BY <2>2, <1>1, <1>2
    <3>2. r[i - (Len(l) + 1)] # Break BY <3>1, <1>1, <1>5
    <3>3. i - (Len(l) + 1) <= Final(r) BY <3>1, <3>2, <1>3
    <3>4. QED BY <3>3, <2>2, <1>2, <1>3
  <2>3. i # Len(l) + 1 BY <1>1, <1>5
  <2>4. QED BY <2>1, <2>2, <2>3, <1>2
<1> HIDE DEF z
<1>6. Inked(w) # {} /\ First(w) = f /\ Final(w) = z BY <1>1, <1>4, <1>5, EndsUnique
<1>7. QED BY <1>6 DEF w, f, z

\* A clean text has a token that is no empty line near its start.
LEMMA CleanInked ==
  ASSUME NEW t \in Text, Clean(t)
  PROVE  Inked(t) # {} /\ First(t) <= 2
<1>1. PICK i \in 1..Len(t) : i <= 2 /\ t[i] # Break BY TextLen DEF Clean
<1>2. Inked(t) # {} BY <1>1, TextLen DEF Inked
<1>3. QED BY <1>1, <1>2, Ends, TextLen

\* Two clean texts are joined to a clean one that has the words of both.
LEMMA JoinedText ==
  ASSUME NEW l \in Text, NEW r \in Text, Clean(l), Clean(r)
  PROVE  LET j == Strip(Spaced(l, r))
         IN /\ j \in Text /\ Clean(j) /\ Body(j) = Body(l) \o Body(r)
            /\ Len(j) = Len(l) + 1 + Final(r) - First(l) + 1
            /\ First(j) = 1 /\ Final(j) = Len(j)
<1> DEFINE w == Spaced(l, r)
           j == Strip(w)
<1>1. /\ Inked(l) # {} /\ Inked(r) # {} BY CleanInked
<1>2. /\ Inked(w) # {} /\ First(w) = First(l) /\ Final(w) = Len(l) + 1 + Final(r) BY <1>1, EndsOfSpaced
<1>3. w \in Text /\ Body(w) = Body(l) \o Body(r) BY SpacedText
<1> HIDE DEF w
<1>4. /\ j \in Text /\ Body(j) = Body(w) /\ Len(j) = Final(w) - First(w) + 1
      /\ j[1] # Break /\ j[Len(j)] # Break
  BY <1>2, <1>3, StripText
<1>5. First(w) \in 1..Len(w) /\ Final(w) \in 1..Len(w) /\ First(w) <= Final(w) BY <1>2, <1>3, Ends
<1>6. Len(j) \in Nat /\ Len(j) >= 1 /\ DOMAIN j = 1..Len(j) BY <1>3, <1>4, <1>5, TextLen
<1> HIDE DEF j
<1>7. First(j) = 1 /\ Final(j) = Len(j)
  <2>1. 1 \in 1..Len(j) /\ Len(j) \in 1..Len(j) /\ \A i \in 1..Len(j) : 1 <= i /\ i <= Len(j) BY <1>6
  <2>2. QED BY <2>1, <1>4, EndsUnique
<1>8. Clean(j) BY <1>4, <1>6 DEF Clean
<1>9. /\ j \in Text /\ Clean(j) /\ Body(j) = Body(l) \o Body(r)
      /\ Len(j) = Len(l) + 1 + Final(r) - First(l) + 1
      /\ First(j) = 1 /\ Final(j) = Len(j)
  <2>1. Len(j) = Len(l) + 1 + Final(r) - First(l) + 1
    <3>1. First(w) \in Int /\ Final(w) \in Int /\ Len(j) \in Int BY <1>5, <1>6
    <3>2. First(l) \in Nat /\ Final(r) \in Nat /\ Len(l) \in Nat BY <1>1, Ends, TextLen
    <3>3. Len(j) = Final(w) - First(w) + 1 BY <1>4
    <3>4. First(w) = First(l) /\ Final(w) = Len(l) + 1 + Final(r) BY <1>2
    <3>5. QED BY <3>1, <3>2, <3>3, <3>4
  <2>2. QED BY <2>1, <1>3, <1>4, <1>7, <1>8, Zenon
<1>10. QED BY <1>9 DEF j, w

\* A text does not become shorter when what is joined to it was joined before.
LEMMA JoinedLonger ==
  ASSUME NEW l \in Text, NEW m \in Text, NEW r \in Text, Clean(l), Clean(m), Clean(r)
  PROVE  Len(Strip(Spaced(l, m))) <= Len(Strip(Spaced(l, Strip(Spaced(m, r)))))
<1> DEFINE j == Strip(Spaced(m, r))
<1>1. j \in Text /\ Clean(j) /\ Len(j) = Len(m) + 1 + Final(r) - First(m) + 1 /\ Final(j) = Len(j)
  BY JoinedText
<1> HIDE DEF j
<1>2. Len(Strip(Spaced(l, m))) = Len(l) + 1 + Final(m) - First(l) + 1 BY JoinedText
<1>3. Len(Strip(Spaced(l, j))) = Len(l) + 1 + Final(j) - First(l) + 1 BY <1>1, JoinedText
<1>4. Final(m) \in 1..Len(m) /\ Final(r) \in 1..Len(r) /\ First(l) \in 1..Len(l) /\ First(m) \in 1..Len(m) /\ First(m) <= 2
  BY CleanInked, Ends
<1>5. Len(l) \in Nat /\ Len(m) \in Nat /\ Len(r) \in Nat BY TextLen
<1>6. Final(m) <= Final(j) BY <1>1, <1>4, <1>5
<1>7. Len(Strip(Spaced(l, m))) <= Len(Strip(Spaced(l, j)))
  <2>1. First(l) \in Nat /\ Final(m) \in Nat /\ Final(j) \in Nat BY <1>1, <1>4, <1>5, TextLen
  <2>2. Len(l) + 1 + Final(m) - First(l) + 1 <= Len(l) + 1 + Final(j) - First(l) + 1
    BY <2>1, <1>5, <1>6
  <2>3. QED BY <2>2, <1>2, <1>3
<1>8. QED BY <1>7 DEF j

(***************************************************************************)
(* Chunks and their words                                                  *)
(***************************************************************************)
Kinds == {"code", "table", "paragraph", "list_item"}
AnyChunk == [kind: Kinds, text: Text, sources: SUBSET Nat]
\* The tokens a chunk may have that names the blocks B.
TokenOf(B) == {a \in Token : IsWord(a) => a[1] \in B}

\* What the cuts and the joins return for a region whose blocks are R.
Sound(c) ==
  /\ ~Over(c)
  /\ c.text \in Seq(TokenOf(c.sources))
  /\ c.kind \notin {"code", "table"} => Clean(c.text)
SoundChunks(R)  == {c \in AnyChunk : c.sources \subseteq R /\ Sound(c)}
SoundEntries(R) == [chunk: SoundChunks(R), before: 0..Unscored, after: 0..Unscored]

Bodies(cs) == [k \in DOMAIN cs |-> Body(cs[k].text)]
ChunksOf(es) == [k \in DOMAIN es |-> es[k].chunk]

\* The words of a sequence of chunks are a text.
LEMMA GistType ==
  ASSUME NEW cs \in Seq(AnyChunk)
  PROVE  Bodies(cs) \in Seq(Text) /\ Len(Bodies(cs)) = Len(cs) /\ Gist(cs) = Seqs!FlattenSeq(Bodies(cs)) /\ Gist(cs) \in Text
<1>1. \A k \in 1..Len(cs) : Body(cs[k].text) \in Text
  <2>0. \A k \in 1..Len(cs) : cs[k] \in AnyChunk OBVIOUS
  <2>1. \A k \in 1..Len(cs) : cs[k].text \in Text BY <2>0 DEF AnyChunk
  <2>2. QED BY <2>1, BodyType
<1>2. Bodies(cs) = [k \in 1..Len(cs) |-> Body(cs[k].text)] /\ Len(cs) \in Nat BY DEF Bodies
<1>3. Bodies(cs) \in Seq(Text) /\ Len(Bodies(cs)) = Len(cs) BY <1>1, <1>2
<1>4. Gist(cs) = Seqs!FlattenSeq(Bodies(cs)) BY DEF Gist, Bodies
<1>5. QED BY <1>3, <1>4, FlattenType DEF Text

\* No chunks have no words.
LEMMA GistEmpty == Gist(<<>>) = <<>>
<1>1. Bodies(<<>>) = <<>> BY DEF Bodies
<1>2. QED BY <1>1, FlattenEmpty DEF Gist, Bodies

\* The words of two sequences of chunks follow each other.
LEMMA GistConcat ==
  ASSUME NEW a \in Seq(AnyChunk), NEW b \in Seq(AnyChunk)
  PROVE  Gist(a \o b) = Gist(a) \o Gist(b)
<1>1. /\ Bodies(a) \in Seq(Text) /\ Gist(a) = Seqs!FlattenSeq(Bodies(a)) /\ Len(Bodies(a)) = Len(a)
      /\ Bodies(b) \in Seq(Text) /\ Gist(b) = Seqs!FlattenSeq(Bodies(b)) /\ Len(Bodies(b)) = Len(b)
  BY GistType
<1>2. a \o b \in Seq(AnyChunk) BY ConcatProperties
<1>3. Gist(a \o b) = Seqs!FlattenSeq(Bodies(a \o b)) /\ Bodies(a \o b) \in Seq(Text) /\ Len(Bodies(a \o b)) = Len(a \o b)
  BY <1>2, GistType
<1>4. Bodies(a \o b) = Bodies(a) \o Bodies(b)
  <2>1. /\ Bodies(a) \o Bodies(b) \in Seq(Text) /\ Len(Bodies(a) \o Bodies(b)) = Len(a) + Len(b)
        /\ \A i \in 1..(Len(a) + Len(b)) :
             (Bodies(a) \o Bodies(b))[i] = IF i <= Len(a) THEN Bodies(a)[i] ELSE Bodies(b)[i - Len(a)]
    <3> DEFINE p == Bodies(a)
               q == Bodies(b)
    <3>1. p \in Seq(Text) /\ Len(p) = Len(a) /\ q \in Seq(Text) /\ Len(q) = Len(b) BY <1>1
    <3> HIDE DEF p, q
    <3>2. /\ p \o q \in Seq(Text) /\ Len(p \o q) = Len(p) + Len(q)
          /\ \A i \in 1..(Len(p) + Len(q)) : (p \o q)[i] = IF i <= Len(p) THEN p[i] ELSE q[i - Len(p)]
      BY <3>1, ConcatProperties
    <3>3. QED BY <3>1, <3>2 DEF p, q
  <2>2. /\ Len(a \o b) = Len(a) + Len(b) /\ Len(a) \in Nat /\ Len(b) \in Nat
        /\ DOMAIN a = 1..Len(a) /\ DOMAIN b = 1..Len(b) /\ DOMAIN (a \o b) = 1..(Len(a) + Len(b))
        /\ \A i \in 1..(Len(a) + Len(b)) : (a \o b)[i] = IF i <= Len(a) THEN a[i] ELSE b[i - Len(a)]
    <3>1. Len(a) \in Nat /\ Len(b) \in Nat /\ DOMAIN a = 1..Len(a) /\ DOMAIN b = 1..Len(b) OBVIOUS
    <3>2. QED BY <3>1, <1>2, ConcatProperties
  <2>3. ASSUME NEW i \in 1..(Len(a) + Len(b)) PROVE Bodies(a \o b)[i] = (Bodies(a) \o Bodies(b))[i]
    <3>1. Bodies(a \o b)[i] = Body((a \o b)[i].text) BY <2>2 DEF Bodies
    <3>2. CASE i <= Len(a)
      <4>1. (a \o b)[i] = a[i] /\ (Bodies(a) \o Bodies(b))[i] = Bodies(a)[i] BY <2>1, <2>2, <3>2
      <4>2. i \in DOMAIN a BY <3>2, <2>2
      <4>3. Bodies(a)[i] = Body(a[i].text) BY <4>2 DEF Bodies
      <4>4. QED BY <3>1, <4>1, <4>3
    <3>3. CASE ~ (i <= Len(a))
      <4>1. (a \o b)[i] = b[i - Len(a)] /\ (Bodies(a) \o Bodies(b))[i] = Bodies(b)[i - Len(a)]
        BY <2>1, <2>2, <3>3
      <4>2. i - Len(a) \in DOMAIN b BY <3>3, <2>2
      <4>3. Bodies(b)[i - Len(a)] = Body(b[i - Len(a)].text) BY <4>2 DEF Bodies
      <4>4. QED BY <3>1, <4>1, <4>3
    <3>4. QED BY <3>2, <3>3
  <2> DEFINE p == Bodies(a \o b)
             q == Bodies(a) \o Bodies(b)
  <2>4. p \in Seq(Text) /\ q \in Seq(Text) /\ Len(p) = Len(a) + Len(b) /\ Len(q) = Len(p)
        /\ \A i \in 1..Len(p) : p[i] = q[i]
    BY <1>3, <2>1, <2>2, <2>3
  <2> HIDE DEF p, q
  <2>5. p = q BY <2>4, SeqEqual
  <2>6. QED BY <2>5 DEF p, q
<1> DEFINE p == Bodies(a)
           q == Bodies(b)
<1>5. p \in Seq(Seq(Token)) /\ q \in Seq(Seq(Token)) BY <1>1 DEF Text
<1>6. Gist(a \o b) = Seqs!FlattenSeq(p \o q) /\ Gist(a) = Seqs!FlattenSeq(p) /\ Gist(b) = Seqs!FlattenSeq(q)
  BY <1>1, <1>3, <1>4
<1> HIDE DEF p, q
<1>7. Seqs!FlattenSeq(p \o q) = Seqs!FlattenSeq(p) \o Seqs!FlattenSeq(q)
  <2> DEFINE X == Token
  <2>1. p \in Seq(Seq(X)) /\ q \in Seq(Seq(X)) BY <1>5
  <2> HIDE DEF X
  <2>2. QED BY <2>1, FlattenConcat
<1>8. QED BY <1>6, <1>7

\* The words of one chunk.
LEMMA GistOne ==
  ASSUME NEW c \in AnyChunk
  PROVE  Gist(<<c>>) = Body(c.text) /\ Body(c.text) \in Text
<1>1. c.text \in Text BY DEF AnyChunk
<1>2. Body(c.text) \in Text BY <1>1, BodyType
<1>3. Bodies(<<c>>) = << Body(c.text) >> BY DEF Bodies
<1>4. QED BY <1>2, <1>3, FlattenOne DEF Gist, Bodies, Text

(***************************************************************************)
(* Joining two neighbours                                                  *)
(***************************************************************************)
\* The fields of a sound chunk.
LEMMA SoundChunk ==
  ASSUME NEW R, R \subseteq Nat, NEW c \in SoundChunks(R)
  PROVE  /\ c \in AnyChunk /\ c.text \in Text /\ c.sources \subseteq R /\ c.kind \in Kinds
         /\ c.kind \notin {"code", "table"} => Clean(c.text)
         /\ Len(c.text) \in Nat /\ Len(c.text) <= TokenLimit
<1>1. c \in AnyChunk /\ c.sources \subseteq R /\ Sound(c) BY DEF SoundChunks
<1>2. c.text \in Text /\ c.kind \in Kinds BY <1>1 DEF AnyChunk
<1>3. Len(c.text) \in Nat BY <1>2, TextLen
<1>4. TokenLimit \in Nat BY SizePolicy
<1>5. QED BY <1>1, <1>2, <1>3, <1>4 DEF Sound, Over

\* A join of sound chunks is sound and has the words of both.
LEMMA JoinedSound ==
  ASSUME NEW R, R \subseteq Nat, NEW l \in SoundChunks(R), NEW r \in SoundChunks(R), Joinable(l, r)
  PROVE  /\ Joined(l, r) \in SoundChunks(R)
         /\ Joined(l, r).kind = l.kind
         /\ Body(Joined(l, r).text) = Body(l.text) \o Body(r.text)
<1> DEFINE j == Joined(l, r)
<1>1. /\ l \in AnyChunk /\ l.text \in Text /\ Clean(l.text) /\ l.sources \subseteq R
      /\ r \in AnyChunk /\ r.text \in Text /\ Clean(r.text) /\ r.sources \subseteq R
  BY SoundChunk DEF Joinable
<1>2. /\ j.kind = l.kind /\ j.text = Strip(Spaced(l.text, r.text)) /\ j.sources = l.sources \cup r.sources
      /\ j = [kind |-> l.kind, text |-> j.text, sources |-> j.sources]
  <2> DEFINE t == Strip((l.text \o <<Break>>) \o r.text)
             u == l.sources \cup r.sources
  <2>1. l = [kind |-> l.kind, text |-> l.text, sources |-> l.sources] BY <1>1 DEF AnyChunk
  <2>2. j = [l EXCEPT !.text = t, !.sources = u] BY DEF Joined
  <2>3. t = Strip(Spaced(l.text, r.text)) BY DEF Spaced
  <2> HIDE DEF t, j, u
  <2>4. j = [kind |-> l.kind, text |-> t, sources |-> u] BY <2>1, <2>2
  <2>5. j.kind = l.kind /\ j.text = t /\ j.sources = u BY <2>4
  <2>6. QED BY <2>3, <2>4, <2>5 DEF u
<1>3. j.text \in Text /\ Clean(j.text) /\ Body(j.text) = Body(l.text) \o Body(r.text)
  BY <1>1, <1>2, JoinedText
<1>4. j \in AnyChunk /\ j.sources \subseteq R
  <2>1. l.kind \in Kinds /\ l.sources \subseteq Nat /\ r.sources \subseteq Nat BY <1>1 DEF AnyChunk
  <2> HIDE DEF j
  <2>2. j.sources \in SUBSET Nat /\ j.kind \in Kinds BY <1>2, <2>1
  <2>3. QED BY <1>1, <1>2, <1>3, <2>2 DEF AnyChunk
<1>5. ~Over(j) BY DEF Joinable
<1>6. j.text \in Seq(TokenOf(j.sources))
  <2> DEFINE w == Spaced(l.text, r.text)
             P == TokenOf(j.sources)
  <2>1. l.text \in Seq(TokenOf(l.sources)) /\ r.text \in Seq(TokenOf(r.sources)) BY DEF SoundChunks, Sound
  <2>2. TokenOf(l.sources) \subseteq P /\ TokenOf(r.sources) \subseteq P BY <1>2 DEF TokenOf
  <2>3. <<Break>> \in Seq(P) BY BreakToken DEF TokenOf
  <2> HIDE DEF P, j
  <2>4. l.text \in Seq(P) /\ r.text \in Seq(P) BY <2>1, <2>2, SeqMonotonic
  <2>5. w \in Seq(P)
    <3> DEFINE u == l.text \o <<Break>>
    <3>1. u \in Seq(P) BY <2>3, <2>4, ConcatProperties
    <3>2. w = u \o r.text BY DEF Spaced
    <3> HIDE DEF u, w
    <3>3. QED BY <2>4, <3>1, <3>2, ConcatProperties
  <2>6. w \in Text /\ Inked(w) # {} BY <1>1, CleanInked, EndsOfSpaced, SpacedText
  <2> HIDE DEF w
  <2>7. First(w) \in 1..Len(w) /\ Final(w) \in 1..Len(w) BY <2>6, Ends
  <2>8. j.text = SubSeq(w, First(w), Final(w))
    <3>1. j.text = Strip(w) BY <1>2 DEF w
    <3>2. QED BY <2>6, <3>1 DEF Strip, Inked, First, Final
  <2>9. \A x \in First(w)..Final(w) : w[x] \in P
    <3>1. Len(w) \in Nat BY <2>5
    <3>2. \A x \in First(w)..Final(w) : x \in 1..Len(w) BY <2>7, <3>1
    <3>3. QED BY <2>5, <3>2
  <2>10. First(w) \in Int /\ Final(w) \in Int BY <2>7
  <2>11. SubSeq(w, First(w), Final(w)) \in Seq(P) BY <2>9, <2>10, SubSeqProperties
  <2>12. QED BY <2>8, <2>11 DEF P
<1> HIDE DEF j
<1>7. Sound(j) BY <1>3, <1>5, <1>6 DEF Sound
<1>8. j \in SoundChunks(R) BY <1>4, <1>7 DEF SoundChunks
<1>9. QED BY <1>2, <1>3, <1>8 DEF j

\* What cannot be joined with a chunk cannot be joined with what that chunk becomes.
LEMMA JoinableLost ==
  ASSUME NEW R, R \subseteq Nat, NEW l \in SoundChunks(R), NEW m \in SoundChunks(R), NEW r \in SoundChunks(R),
         Joinable(m, r), ~Joinable(l, m)
  PROVE  ~Joinable(l, Joined(m, r))
<1> DEFINE j == Joined(m, r)
<1>1. j \in SoundChunks(R) /\ j.kind = m.kind BY JoinedSound
<1>2. j.text = Strip(Spaced(m.text, r.text))
  <2>1. m \in AnyChunk BY SoundChunk
  <2>2. QED BY <2>1 DEF Joined, Spaced, AnyChunk
<1> HIDE DEF j
<1>3. SUFFICES ASSUME Joinable(l, j) PROVE FALSE BY DEF j
<1>4. l.kind = m.kind /\ l.kind \notin {"code", "table"} BY <1>1, <1>3 DEF Joinable
<1>5. Over(Joined(l, m)) BY <1>4 DEF Joinable
<1>6. m.kind = r.kind BY DEF Joinable
<1>7. /\ l.text \in Text /\ Clean(l.text) /\ m.text \in Text /\ Clean(m.text) /\ r.text \in Text /\ Clean(r.text)
      /\ l \in AnyChunk
  BY <1>4, <1>6, SoundChunk
<1>8. Joined(l, m).text = Strip(Spaced(l.text, m.text)) /\ Joined(l, j).text = Strip(Spaced(l.text, j.text))
  BY <1>7 DEF Joined, Spaced, AnyChunk
<1>9. Len(Joined(l, m).text) <= Len(Joined(l, j).text) BY <1>2, <1>7, <1>8, JoinedLonger
<1>10. Len(Joined(l, m).text) \in Nat /\ Len(Joined(l, j).text) \in Nat
  <2>1. j.text \in Text /\ Clean(j.text) BY <1>1, <1>4, SoundChunk
  <2>2. Joined(l, m).text \in Text /\ Joined(l, j).text \in Text BY <1>7, <1>8, <2>1, JoinedText
  <2>3. QED BY <2>2, TextLen
<1>11. ~Over(Joined(l, j)) BY <1>3 DEF Joinable
<1>12. QED BY <1>5, <1>9, <1>10, <1>11, SizePolicy DEF Over

(***************************************************************************)
(* Sequences, element by element                                           *)
(***************************************************************************)
Maps(S, T) == [S -> T]
Mapped(f, s) == [k \in DOMAIN s |-> f[s[k]]]

\* The values of a function along a sequence.
LEMMA MappedType ==
  ASSUME NEW S, NEW T, NEW f \in Maps(S, T), NEW s \in Seq(S)
  PROVE  Mapped(f, s) \in Seq(T) /\ Len(Mapped(f, s)) = Len(s) /\ \A k \in 1..Len(s) : Mapped(f, s)[k] = f[s[k]]
<1>1. DOMAIN s = 1..Len(s) /\ Len(s) \in Nat /\ \A k \in 1..Len(s) : f[s[k]] \in T BY DEF Maps
<1>2. Mapped(f, s) = [k \in 1..Len(s) |-> f[s[k]]] BY <1>1 DEF Mapped
<1>3. QED BY <1>1, <1>2

\* The type, the length and the items of a concatenation.
LEMMA ConcatParts ==
  ASSUME NEW S, NEW a \in Seq(S), NEW b \in Seq(S)
  PROVE  /\ a \o b \in Seq(S) /\ Len(a \o b) = Len(a) + Len(b) /\ Len(a) \in Nat /\ Len(b) \in Nat
         /\ \A i \in 1..Len(a) : (a \o b)[i] = a[i]
         /\ \A i \in 1..Len(b) : (a \o b)[Len(a) + i] = b[i]
<1>1. Len(a) \in Nat /\ Len(b) \in Nat OBVIOUS
<1>2. /\ a \o b \in Seq(S) /\ Len(a \o b) = Len(a) + Len(b)
      /\ \A i \in 1..(Len(a) + Len(b)) : (a \o b)[i] = IF i <= Len(a) THEN a[i] ELSE b[i - Len(a)]
  BY ConcatProperties
<1>3. ASSUME NEW i \in 1..Len(a) PROVE (a \o b)[i] = a[i]
  <2>1. i \in 1..(Len(a) + Len(b)) /\ i <= Len(a) BY <1>1
  <2>2. QED BY <1>2, <2>1
<1>4. ASSUME NEW i \in 1..Len(b) PROVE (a \o b)[Len(a) + i] = b[i]
  <2>1. Len(a) + i \in 1..(Len(a) + Len(b)) /\ ~ (Len(a) + i <= Len(a)) /\ (Len(a) + i) - Len(a) = i BY <1>1
  <2>2. QED BY <1>2, <2>1
<1>5. QED BY <1>1, <1>2, <1>3, <1>4

\* A sequence is the concatenation of two when it has the elements of the one and then of
\* the other.
LEMMA ConcatIs ==
  ASSUME NEW S, NEW a \in Seq(S), NEW b \in Seq(S), NEW c \in Seq(S), Len(c) = Len(a) + Len(b),
         \A i \in 1..Len(a) : c[i] = a[i], \A i \in 1..Len(b) : c[Len(a) + i] = b[i]
  PROVE  c = a \o b
<1> DEFINE d == a \o b
<1>1. /\ d \in Seq(S) /\ Len(d) = Len(a) + Len(b) /\ Len(a) \in Nat /\ Len(b) \in Nat
      /\ \A i \in 1..Len(a) : d[i] = a[i]
      /\ \A i \in 1..Len(b) : d[Len(a) + i] = b[i]
  <2>1. /\ d \in Seq(S) /\ Len(d) = Len(a) + Len(b) /\ Len(a) \in Nat /\ Len(b) \in Nat BY ConcatParts
  <2>2. \A i \in 1..Len(a) : d[i] = a[i] BY ConcatParts
  <2>3. \A i \in 1..Len(b) : d[Len(a) + i] = b[i] BY ConcatParts
  <2>4. QED BY <2>1, <2>2, <2>3
<1> HIDE DEF d
<1>2. ASSUME NEW i \in 1..Len(c) PROVE c[i] = d[i]
  <2>1. CASE i <= Len(a)
    <3>1. i \in 1..Len(a) BY <2>1, <1>1
    <3>2. QED BY <3>1, <1>1
  <2>2. CASE ~ (i <= Len(a))
    <3>1. i - Len(a) \in 1..Len(b) /\ Len(a) + (i - Len(a)) = i BY <2>2, <1>1
    <3>2. c[Len(a) + (i - Len(a))] = b[i - Len(a)] BY <3>1
    <3> DEFINE x == i - Len(a)
    <3>5. x \in 1..Len(b) BY <3>1
    <3> HIDE DEF x
    <3>6. d[Len(a) + x] = b[x] BY <3>5, <1>1
    <3>3. d[Len(a) + (i - Len(a))] = b[i - Len(a)] BY <3>6 DEF x
    <3>4. QED BY <3>1, <3>2, <3>3
  <2>3. QED BY <2>1, <2>2
<1>3. c = d BY <1>1, <1>2, SeqEqual
<1>4. QED BY <1>3 DEF d

\* Values along a concatenation follow each other.
LEMMA MappedConcat ==
  ASSUME NEW S, NEW T, NEW f \in Maps(S, T), NEW a \in Seq(S), NEW b \in Seq(S)
  PROVE  Mapped(f, a \o b) = Mapped(f, a) \o Mapped(f, b)
<1>1. /\ a \o b \in Seq(S) /\ Len(a \o b) = Len(a) + Len(b) /\ Len(a) \in Nat /\ Len(b) \in Nat
      /\ \A i \in 1..Len(a) : (a \o b)[i] = a[i]
      /\ \A i \in 1..Len(b) : (a \o b)[Len(a) + i] = b[i]
  BY ConcatParts
<1> DEFINE c == a \o b
           m == Mapped(f, c)
           p == Mapped(f, a)
           q == Mapped(f, b)
<1>2. /\ p \in Seq(T) /\ Len(p) = Len(a) /\ \A k \in 1..Len(a) : p[k] = f[a[k]] BY MappedType
<1>3. /\ q \in Seq(T) /\ Len(q) = Len(b) /\ \A k \in 1..Len(b) : q[k] = f[b[k]] BY MappedType
<1>4. /\ m \in Seq(T) /\ Len(m) = Len(a) + Len(b) /\ \A k \in 1..(Len(a) + Len(b)) : m[k] = f[c[k]]
  <2>1. c \in Seq(S) BY <1>1
  <2> HIDE DEF c
  <2>2. /\ m \in Seq(T) /\ Len(m) = Len(c) /\ \A k \in 1..Len(c) : m[k] = f[c[k]] BY <2>1, MappedType
  <2>3. Len(c) = Len(a) + Len(b) BY <1>1 DEF c
  <2>4. QED BY <2>2, <2>3
<1>5. /\ \A i \in 1..Len(a) : c[i] = a[i]
      /\ \A i \in 1..Len(b) : c[Len(a) + i] = b[i]
  BY <1>1
<1>6. Len(a) \in Nat /\ Len(b) \in Nat BY <1>1
<1> HIDE DEF c, m, p, q
<1>7. ASSUME NEW i \in 1..Len(p) PROVE m[i] = p[i]
  <2>1. i \in 1..Len(a) /\ i \in 1..(Len(a) + Len(b)) BY <1>2, <1>6
  <2>2. m[i] = f[c[i]] /\ c[i] = a[i] /\ p[i] = f[a[i]] BY <2>1, <1>2, <1>4, <1>5
  <2>3. QED BY <2>2
<1>8. ASSUME NEW i \in 1..Len(q) PROVE m[Len(p) + i] = q[i]
  <2>1. i \in 1..Len(b) /\ Len(a) + i \in 1..(Len(a) + Len(b)) BY <1>3, <1>6
  <2>2. m[Len(a) + i] = f[c[Len(a) + i]] /\ c[Len(a) + i] = b[i] /\ q[i] = f[b[i]] BY <2>1, <1>3, <1>4, <1>5
  <2>3. QED BY <2>2, <1>2
<1>9. m = p \o q
  <2>1. m \in Seq(T) /\ p \in Seq(T) /\ q \in Seq(T) /\ Len(m) = Len(p) + Len(q) BY <1>2, <1>3, <1>4
  <2>2. QED BY <2>1, <1>7, <1>8, ConcatIs
<1>10. QED BY <1>9 DEF m, p, q, c

(***************************************************************************)
(* The entries of a region                                                 *)
(***************************************************************************)
\* Entries, with those at p and p + 1 replaced by one.
JoinAt(es, p, e) == (SubSeq(es, 1, p - 1) \o <<e>>) \o SubSeq(es, p + 2, Len(es))

\* What JoinAt leaves at each place.
LEMMA JoinAtIs ==
  ASSUME NEW S, NEW es \in Seq(S), NEW e \in S, NEW p \in 1..(Len(es) - 1)
  PROVE  /\ JoinAt(es, p, e) \in Seq(S) /\ Len(JoinAt(es, p, e)) = Len(es) - 1
         /\ \A k \in 1..(p - 1) : JoinAt(es, p, e)[k] = es[k]
         /\ JoinAt(es, p, e)[p] = e
         /\ \A k \in (p + 1)..(Len(es) - 1) : JoinAt(es, p, e)[k] = es[k + 1]
<1> DEFINE n == Len(es)
           a == SubSeq(es, 1, p - 1)
           b == SubSeq(es, p + 2, n)
           c == a \o <<e>>
           j == c \o b
<1>1. n \in Nat /\ p \in Nat /\ p >= 1 /\ p <= n - 1 /\ \A k \in 1..n : es[k] \in S OBVIOUS
<1>2. a \in Seq(S) /\ Len(a) = p - 1 /\ \A k \in 1..(p - 1) : a[k] = es[k]
  <2>1. \A k \in 1..(p - 1) : es[k] \in S /\ 1 + k - 1 = k BY <1>1
  <2>2. 1 \in Int /\ p - 1 \in Int /\ p - 1 - 1 + 1 = p - 1 BY <1>1
  <2>3. /\ a \in Seq(S) /\ Len(a) = IF 1 <= p - 1 THEN p - 1 - 1 + 1 ELSE 0
        /\ \A k \in 1..(p - 1 - 1 + 1) : a[k] = es[1 + k - 1]
    BY <2>1, <2>2, SubSeqProperties
  <2>4. QED BY <1>1, <2>1, <2>2, <2>3
<1>3. b \in Seq(S) /\ Len(b) = n - 1 - p /\ \A k \in 1..(n - 1 - p) : b[k] = es[p + 1 + k]
  <2>1. (\A k \in (p + 2)..n : es[k] \in S) /\ p + 2 \in Int /\ n \in Int BY <1>1
  <2>2. /\ b \in Seq(S) /\ Len(b) = IF p + 2 <= n THEN n - (p + 2) + 1 ELSE 0
        /\ \A k \in 1..(n - (p + 2) + 1) : b[k] = es[(p + 2) + k - 1]
    BY <2>1, SubSeqProperties
  <2>3. n - (p + 2) + 1 = n - 1 - p /\ (p + 2 <= n \/ n - 1 - p = 0) BY ONLY <1>1, SMTT(30)
  <2>4. Len(b) = n - 1 - p BY <2>2, <2>3
  <2>5. ASSUME NEW k \in 1..(n - 1 - p) PROVE b[k] = es[p + 1 + k]
    <3>1. b[k] = es[(p + 2) + k - 1] BY <2>2, <2>3
    <3>2. (p + 2) + k - 1 = p + 1 + k BY <1>1
    <3>3. QED BY <3>1, <3>2, SMTT(60)
  <2>6. QED BY <2>2, <2>4, <2>5
<1> HIDE DEF a, b, n
<1>4. <<e>> \in Seq(S) /\ Len(<<e>>) = 1 /\ (<<e>>)[1] = e OBVIOUS
<1>5. /\ c \in Seq(S) /\ Len(c) = p /\ (\A k \in 1..(p - 1) : c[k] = a[k]) /\ c[p] = e
  <2>1. /\ c \in Seq(S) /\ Len(c) = Len(a) + Len(<<e>>) /\ (\A i \in 1..Len(a) : c[i] = a[i])
        /\ \A i \in 1..Len(<<e>>) : c[Len(a) + i] = (<<e>>)[i]
    BY <1>2, <1>4, ConcatParts
  <2>2. p - 1 + 1 = p /\ 1 \in 1..1 BY <1>1
  <2>3. QED BY <1>1, <1>2, <1>4, <2>1, <2>2
<1> HIDE DEF c
<1>6. /\ j \in Seq(S) /\ Len(j) = n - 1 /\ (\A k \in 1..p : j[k] = c[k]) /\ \A k \in 1..(n - 1 - p) : j[p + k] = b[k]
  <2>1. /\ j \in Seq(S) /\ Len(j) = Len(c) + Len(b) /\ (\A i \in 1..Len(c) : j[i] = c[i])
        /\ \A i \in 1..Len(b) : j[Len(c) + i] = b[i]
    <3>1. c \in Seq(S) /\ b \in Seq(S) BY <1>3, <1>5
    <3>2. QED BY <3>1, ConcatParts
  <2>2. p + (n - 1 - p) = n - 1 BY <1>1
  <2>3. QED BY <1>3, <1>5, <2>1, <2>2
<1> HIDE DEF j
<1>7. ASSUME NEW k \in (p + 1)..(n - 1) PROVE j[k] = es[k + 1]
  <2>1. k - p \in 1..(n - 1 - p) /\ p + (k - p) = k /\ p + 1 + (k - p) = k + 1 BY <1>1
  <2>2. j[p + (k - p)] = b[k - p] /\ b[k - p] = es[p + 1 + (k - p)] BY <1>3, <1>6, <2>1
  <2>3. QED BY <2>1, <2>2
<1>8. ASSUME NEW k \in 1..(p - 1) PROVE j[k] = es[k]
  <2>1. k \in 1..p BY <1>1
  <2>2. QED BY <2>1, <1>2, <1>5, <1>6
<1>9. j[p] = e
  <2>1. p \in 1..p BY <1>1
  <2>2. QED BY <2>1, <1>5, <1>6
<1>10. JoinAt(es, p, e) = j BY DEF JoinAt, j, c, a, b, n
<1>11. QED BY <1>6, <1>7, <1>8, <1>9, <1>10 DEF n

\* The loop writes the joined entry and deletes the other one, in either order.
LEMMA JoinLeftIs ==
  ASSUME NEW S, NEW es \in Seq(S), NEW e \in S, NEW p \in 1..(Len(es) - 1)
  PROVE  Seqs!ReplaceAt(Seqs!RemoveAt(es, p + 1), p, e) = JoinAt(es, p, e)
<1> DEFINE n == Len(es)
           j == JoinAt(es, p, e)
           a == SubSeq(es, 1, p)
           b == SubSeq(es, p + 2, n)
           r == a \o b
           l == [r EXCEPT ![p] = e]
<1>1. n \in Nat /\ p \in Nat /\ p >= 1 /\ p <= n - 1 /\ \A k \in 1..n : es[k] \in S OBVIOUS
<1>2. a \in Seq(S) /\ Len(a) = p /\ \A k \in 1..p : a[k] = es[k]
  <2>1. \A k \in 1..p : es[k] \in S /\ 1 + k - 1 = k BY <1>1
  <2>2. 1 \in Int /\ p \in Int /\ p - 1 + 1 = p BY <1>1
  <2>3. /\ a \in Seq(S) /\ Len(a) = IF 1 <= p THEN p - 1 + 1 ELSE 0
        /\ \A k \in 1..(p - 1 + 1) : a[k] = es[1 + k - 1]
    BY <2>1, <2>2, SubSeqProperties
  <2>4. QED BY <1>1, <2>1, <2>2, <2>3
<1>3. b \in Seq(S) /\ Len(b) = n - 1 - p /\ \A k \in 1..(n - 1 - p) : b[k] = es[p + 1 + k]
  <2>1. (\A k \in (p + 2)..n : es[k] \in S) /\ p + 2 \in Int /\ n \in Int BY <1>1
  <2>2. /\ b \in Seq(S) /\ Len(b) = IF p + 2 <= n THEN n - (p + 2) + 1 ELSE 0
        /\ \A k \in 1..(n - (p + 2) + 1) : b[k] = es[(p + 2) + k - 1]
    BY <2>1, SubSeqProperties
  <2>3. n - (p + 2) + 1 = n - 1 - p /\ (p + 2 <= n \/ n - 1 - p = 0) BY <1>1
  <2>4. Len(b) = n - 1 - p BY <2>2, <2>3
  <2>5. ASSUME NEW k \in 1..(n - 1 - p) PROVE b[k] = es[p + 1 + k]
    <3>1. b[k] = es[(p + 2) + k - 1] BY <2>2, <2>3
    <3>2. (p + 2) + k - 1 = p + 1 + k BY <1>1
    <3>3. QED BY <3>1, <3>2
  <2>6. QED BY <2>2, <2>4, <2>5
<1>4. /\ j \in Seq(S) /\ Len(j) = n - 1 /\ (\A k \in 1..(p - 1) : j[k] = es[k]) /\ j[p] = e
      /\ \A k \in (p + 1)..(n - 1) : j[k] = es[k + 1]
  BY JoinAtIs
<1>5. Seqs!ReplaceAt(Seqs!RemoveAt(es, p + 1), p, e) = l
  <2>1. (p + 1) - 1 = p /\ (p + 1) + 1 = p + 2 BY <1>1
  <2>2. QED BY <2>1 DEF Seqs!ReplaceAt, Seqs!RemoveAt
<1> HIDE DEF a, b, n, j
<1>6. /\ r \in Seq(S) /\ Len(r) = n - 1 /\ (\A k \in 1..p : r[k] = a[k]) /\ \A k \in 1..(n - 1 - p) : r[p + k] = b[k]
  <2>1. /\ r \in Seq(S) /\ Len(r) = Len(a) + Len(b) /\ (\A i \in 1..Len(a) : r[i] = a[i])
        /\ \A i \in 1..Len(b) : r[Len(a) + i] = b[i]
    <3>1. a \in Seq(S) /\ b \in Seq(S) BY <1>2, <1>3
    <3>2. QED BY <3>1, ConcatParts
  <2>2. p + (n - 1 - p) = n - 1 BY <1>1
  <2>3. QED BY <1>2, <1>3, <2>1, <2>2
<1> HIDE DEF r
<1>7. p \in 1..Len(r) /\ n - 1 \in Nat BY <1>1, <1>6
<1>8. l \in Seq(S) /\ Len(l) = n - 1 /\ \A k \in 1..(n - 1) : l[k] = IF k = p THEN e ELSE r[k]
  <2>1. /\ l \in Seq(S) /\ Len(l) = Len(r) /\ \A k \in 1..Len(r) : l[k] = IF k = p THEN e ELSE r[k]
    BY <1>6, <1>7, ExceptSeq
  <2>2. QED BY <2>1, <1>6
<1> HIDE DEF l
<1>9. ASSUME NEW k \in 1..(n - 1) PROVE l[k] = j[k]
  <2>1. CASE k = p BY <2>1, <1>4, <1>8
  <2>2. CASE k < p
    <3>1. k \in 1..p /\ k \in 1..(p - 1) /\ k # p BY <1>1, <2>2
    <3>2. QED BY <3>1, <1>2, <1>4, <1>6, <1>8
  <2>3. CASE k > p
    <3>1. k \in (p + 1)..(n - 1) /\ k - p \in 1..(n - 1 - p) /\ p + (k - p) = k /\ p + 1 + (k - p) = k + 1 /\ k # p
      BY <1>1, <2>3
    <3>2. r[p + (k - p)] = b[k - p] /\ b[k - p] = es[p + 1 + (k - p)] BY <3>1, <1>3, <1>6
    <3>3. r[k] = es[k + 1] BY <3>1, <3>2
    <3>4. QED BY <3>1, <3>3, <1>4, <1>8
  <2>4. QED BY <2>1, <2>2, <2>3, <1>1
<1>10. l = j BY <1>4, <1>8, <1>9, SeqEqual
<1>11. QED BY <1>5, <1>10 DEF j

\* Joining to the right replaces two neighbours by one.
LEMMA JoinRightIs ==
  ASSUME NEW S, NEW es \in Seq(S), NEW e \in S, NEW p \in 1..(Len(es) - 1)
  PROVE  Seqs!RemoveAt(Seqs!ReplaceAt(es, p + 1, e), p) = JoinAt(es, p, e)
<1> DEFINE n == Len(es)
           x == [es EXCEPT ![p + 1] = e]
           j == JoinAt(es, p, e)
           a == SubSeq(x, 1, p - 1)
           b == SubSeq(x, p + 1, Len(x))
           r == a \o b
<1>1. n \in Nat /\ p \in Nat /\ p >= 1 /\ p <= n - 1 /\ p + 1 \in 1..n OBVIOUS
<1>2. x \in Seq(S) /\ Len(x) = n /\ \A k \in 1..n : x[k] = IF k = p + 1 THEN e ELSE es[k] BY <1>1, ExceptSeq
<1>3. Seqs!RemoveAt(Seqs!ReplaceAt(es, p + 1, e), p) = r BY DEF Seqs!ReplaceAt, Seqs!RemoveAt
<1>4. /\ j \in Seq(S) /\ Len(j) = n - 1 /\ (\A k \in 1..(p - 1) : j[k] = es[k]) /\ j[p] = e
      /\ \A k \in (p + 1)..(n - 1) : j[k] = es[k + 1]
  BY JoinAtIs
<1> HIDE DEF x, n, j
<1>5. \A k \in 1..n : x[k] \in S BY <1>2
<1>6. a \in Seq(S) /\ Len(a) = p - 1 /\ \A k \in 1..(p - 1) : a[k] = x[k]
  <2>1. \A k \in 1..(p - 1) : x[k] \in S /\ 1 + k - 1 = k BY <1>1, <1>5
  <2>2. 1 \in Int /\ p - 1 \in Int /\ p - 1 - 1 + 1 = p - 1 BY <1>1
  <2>3. /\ a \in Seq(S) /\ Len(a) = IF 1 <= p - 1 THEN p - 1 - 1 + 1 ELSE 0
        /\ \A k \in 1..(p - 1 - 1 + 1) : a[k] = x[1 + k - 1]
    BY <2>1, <2>2, SubSeqProperties
  <2>4. QED BY <1>1, <2>1, <2>2, <2>3
<1>7. b \in Seq(S) /\ Len(b) = n - p /\ \A k \in 1..(n - p) : b[k] = x[p + k]
  <2>1. (\A k \in (p + 1)..n : x[k] \in S) /\ p + 1 \in Int /\ n \in Int BY <1>1, <1>5
  <2>2. /\ b \in Seq(S) /\ Len(b) = IF p + 1 <= n THEN n - (p + 1) + 1 ELSE 0
        /\ \A k \in 1..(n - (p + 1) + 1) : b[k] = x[(p + 1) + k - 1]
    BY <2>1, <1>2, SubSeqProperties
  <2>3. n - (p + 1) + 1 = n - p /\ \A k \in 1..(n - p) : (p + 1) + k - 1 = p + k BY <1>1
  <2>4. QED BY <1>1, <2>2, <2>3
<1> HIDE DEF a, b
<1>8. /\ r \in Seq(S) /\ Len(r) = n - 1 /\ (\A k \in 1..(p - 1) : r[k] = a[k]) /\ \A k \in 1..(n - p) : r[p - 1 + k] = b[k]
  <2>1. /\ r \in Seq(S) /\ Len(r) = Len(a) + Len(b) /\ (\A i \in 1..Len(a) : r[i] = a[i])
        /\ \A i \in 1..Len(b) : r[Len(a) + i] = b[i]
    <3>1. a \in Seq(S) /\ b \in Seq(S) BY <1>6, <1>7
    <3>2. QED BY <3>1, ConcatParts
  <2>2. (p - 1) + (n - p) = n - 1 BY <1>1
  <2>3. QED BY <1>6, <1>7, <2>1, <2>2
<1> HIDE DEF r
<1>9. ASSUME NEW k \in 1..(n - 1) PROVE r[k] = j[k]
  <2>1. CASE k < p
    <3>1. k \in 1..n /\ k \in 1..(p - 1) /\ k # p + 1 BY <1>1, <2>1
    <3>2. QED BY <3>1, <1>2, <1>4, <1>6, <1>8
  <2>2. CASE ~ (k < p)
    <3>1. k - p + 1 \in 1..(n - p) /\ p - 1 + (k - p + 1) = k /\ p + (k - p + 1) = k + 1 /\ k + 1 \in 1..n BY <1>1, <2>2
    <3>2. r[p - 1 + (k - p + 1)] = b[k - p + 1] /\ b[k - p + 1] = x[p + (k - p + 1)] BY <3>1, <1>7, <1>8
    <3>3. r[k] = x[k + 1] BY <3>1, <3>2
    <3>4. CASE k = p BY <3>1, <3>3, <3>4, <1>2, <1>4
    <3>5. CASE k # p
      <4>1. k \in (p + 1)..(n - 1) /\ k + 1 # p + 1 BY <1>1, <2>2, <3>5
      <4>2. QED BY <4>1, <3>1, <3>3, <1>2, <1>4
    <3>6. QED BY <3>4, <3>5
  <2>3. QED BY <2>1, <2>2
<1>10. r = j
  <2>1. n - 1 \in Nat BY <1>1
  <2>2. QED BY <2>1, <1>4, <1>8, <1>9, SeqEqual
<1>11. QED BY <1>3, <1>10 DEF j

\* Concatenation is associative.
LEMMA Regroup ==
  ASSUME NEW S, NEW a \in Seq(S), NEW b \in Seq(S), NEW c \in Seq(S)
  PROVE  a \o (b \o c) = (a \o b) \o c
  BY ConcatAssociative

EntriesGist(es) == Gist(ChunksOf(es))

\* The fields of a sound entry.
LEMMA SoundEntry ==
  ASSUME NEW R, R \subseteq Nat, NEW e \in SoundEntries(R)
  PROVE  e.chunk \in SoundChunks(R) /\ e.chunk \in AnyChunk /\ e.before \in 0..Unscored /\ e.after \in 0..Unscored
<1>1. e.chunk \in SoundChunks(R) /\ e.before \in 0..Unscored /\ e.after \in 0..Unscored BY DEF SoundEntries
<1>2. QED BY <1>1, SoundChunk

\* The chunks of sound entries.
LEMMA ChunksOfEntries ==
  ASSUME NEW R, R \subseteq Nat, NEW es \in Seq(SoundEntries(R))
  PROVE  /\ ChunksOf(es) \in Seq(SoundChunks(R)) /\ ChunksOf(es) \in Seq(AnyChunk) /\ Len(ChunksOf(es)) = Len(es)
         /\ \A k \in 1..Len(es) : ChunksOf(es)[k] = es[k].chunk
         /\ EntriesGist(es) \in Text
<1>1. Len(es) \in Nat /\ DOMAIN es = 1..Len(es) /\ \A k \in 1..Len(es) : es[k] \in SoundEntries(R) OBVIOUS
<1>2. \A k \in 1..Len(es) : es[k].chunk \in SoundChunks(R) BY <1>1, SoundEntry
<1>3. ChunksOf(es) = [k \in 1..Len(es) |-> es[k].chunk] BY <1>1 DEF ChunksOf
<1>4. ChunksOf(es) \in Seq(SoundChunks(R)) /\ Len(ChunksOf(es)) = Len(es) BY <1>1, <1>2, <1>3
<1>5. ChunksOf(es) \in Seq(AnyChunk)
  <2>1. SoundChunks(R) \subseteq AnyChunk BY DEF SoundChunks
  <2>2. QED BY <1>4, <2>1, SeqMonotonic
<1>6. Gist(ChunksOf(es)) \in Text BY <1>5, GistType
<1>7. QED BY <1>3, <1>4, <1>5, <1>6 DEF EntriesGist

\* The chunks of two sequences of entries follow each other.
LEMMA ChunksOfConcat ==
  ASSUME NEW R, R \subseteq Nat, NEW a \in Seq(SoundEntries(R)), NEW b \in Seq(SoundEntries(R))
  PROVE  /\ ChunksOf(a \o b) = ChunksOf(a) \o ChunksOf(b)
         /\ EntriesGist(a \o b) = EntriesGist(a) \o EntriesGist(b)
<1> DEFINE f == [e \in SoundEntries(R) |-> e.chunk]
<1>1. f \in Maps(SoundEntries(R), AnyChunk) BY SoundEntry DEF Maps
<1>2. a \o b \in Seq(SoundEntries(R)) BY ConcatParts
<1>3. ASSUME NEW s \in Seq(SoundEntries(R)) PROVE ChunksOf(s) = Mapped(f, s)
  <2>1. \A k \in DOMAIN s : f[s[k]] = s[k].chunk OBVIOUS
  <2> HIDE DEF f
  <2>2. QED BY <2>1 DEF ChunksOf, Mapped
<1>4. Mapped(f, a \o b) = Mapped(f, a) \o Mapped(f, b)
  <2> HIDE DEF f
  <2>1. QED BY <1>1, MappedConcat
<1>5. ChunksOf(a \o b) = ChunksOf(a) \o ChunksOf(b)
  <2> HIDE DEF f
  <2>1. QED BY <1>2, <1>3, <1>4
<1>6. ChunksOf(a) \in Seq(AnyChunk) /\ ChunksOf(b) \in Seq(AnyChunk) BY ChunksOfEntries
<1>7. QED BY <1>5, <1>6, GistConcat DEF EntriesGist

\* The words of one entry.
LEMMA EntriesGistOne ==
  ASSUME NEW R, R \subseteq Nat, NEW e \in SoundEntries(R)
  PROVE  EntriesGist(<<e>>) = Body(e.chunk.text) /\ <<e>> \in Seq(SoundEntries(R))
<1>1. e.chunk \in AnyChunk BY SoundEntry
<1>2. ChunksOf(<<e>>) = << e.chunk >> BY DEF ChunksOf
<1>3. QED BY <1>1, <1>2, GistOne DEF EntriesGist

\* An entry that has the words of two neighbours and takes their place keeps all words.
LEMMA JoinAtGist ==
  ASSUME NEW R, R \subseteq Nat, NEW es \in Seq(SoundEntries(R)), NEW e \in SoundEntries(R), NEW p \in 1..(Len(es) - 1),
         Body(e.chunk.text) = Body(es[p].chunk.text) \o Body(es[p + 1].chunk.text)
  PROVE  EntriesGist(JoinAt(es, p, e)) = EntriesGist(es)
<1> DEFINE E == SoundEntries(R)
           n == Len(es)
           a == SubSeq(es, 1, p - 1)
           b == SubSeq(es, p + 2, n)
           x == <<es[p]>>
           y == <<es[p + 1]>>
           z == <<e>>
<1>1. n \in Nat /\ p \in Nat /\ p >= 1 /\ p + 1 <= n /\ p \in 1..n /\ p + 1 \in 1..n /\ \A k \in 1..n : es[k] \in E OBVIOUS
<1>2. a \in Seq(E) /\ b \in Seq(E)
  <2>1. (\A k \in 1..(p - 1) : es[k] \in E) /\ (\A k \in (p + 2)..n : es[k] \in E) BY <1>1
  <2>2. 1 \in Int /\ p - 1 \in Int /\ p + 2 \in Int /\ n \in Int BY <1>1
  <2> HIDE DEF E
  <2>3. a \in Seq(E) BY <2>1, <2>2, SubSeqProperties
  <2>4. b \in Seq(E) BY <2>1, <2>2, SubSeqProperties
  <2>5. QED BY <2>3, <2>4
<1>3. es[p] \in E /\ es[p + 1] \in E BY <1>1
<1>4. x \in Seq(E) /\ y \in Seq(E) /\ z \in Seq(E) BY <1>3, SMTT(60)
<1>5. es = (a \o (x \o y)) \o b
  <2>1. SubSeq(es, 1, p - 1) \o SubSeq(es, (p - 1) + 1, n) = SubSeq(es, 1, n)
    <3>1. 1 \in 1..(n + 1) /\ p - 1 \in (1 - 1)..n /\ n \in (p - 1)..n BY <1>1
    <3>2. QED BY <3>1, ConcatAdjacentSubSeq
  <2>2. SubSeq(es, 1, n) = es BY SubSeqFull
  <2>3. SubSeq(es, p, p + 1) \o SubSeq(es, (p + 1) + 1, n) = SubSeq(es, p, n)
    <3>1. p \in 1..(n + 1) /\ p + 1 \in (p - 1)..n /\ n \in (p + 1)..n BY <1>1
    <3>2. QED BY <3>1, ConcatAdjacentSubSeq
  <2>4. SubSeq(es, p, p + 1) = SubSeq(es, p, (p + 1) - 1) \o y
    <3>1. p \in 1..n /\ p + 1 \in p..n BY <1>1
    <3>2. QED BY <3>1, SubSeqRecursiveSecond
  <2>5. SubSeq(es, p, p) = SubSeq(es, p, p - 1) \o x
    <3>1. p \in 1..n /\ p \in p..n BY <1>1
    <3>2. QED BY <3>1, SubSeqRecursiveSecond
  <2>6. SubSeq(es, p, p - 1) = <<>>
    <3>1. p \in Int /\ p - 1 \in Int /\ p - 1 < p BY <1>1
    <3>2. QED BY <3>1, SubSeqEmpty
  <2>7. <<>> \o x = x
    <3> HIDE DEF x, E
    <3>1. QED BY <1>4, ConcatEmptySeq
  <2>8. (p - 1) + 1 = p /\ (p + 1) + 1 = p + 2 /\ (p + 1) - 1 = p BY ONLY <1>1, SMTT(30)
  <2>9. es = a \o ((x \o y) \o b) BY <2>1, <2>2, <2>3, <2>4, <2>5, <2>6, <2>7, <2>8
  <2> HIDE DEF a, b, x, y, E
  <2>10. x \o y \in Seq(E) BY <1>4, ConcatParts
  <2> DEFINE u == x \o y
  <2>11. a \o (u \o b) = (a \o u) \o b
    <3>1. u \in Seq(E) BY <2>10
    <3> HIDE DEF u
    <3>2. a \in Seq(E) /\ b \in Seq(E) BY <1>2
    <3>3. QED BY <3>1, <3>2, Regroup, SMTT(60)
  <2>12. QED BY <2>9, <2>11
<1>6. /\ EntriesGist(x) = Body(es[p].chunk.text) /\ EntriesGist(y) = Body(es[p + 1].chunk.text)
      /\ EntriesGist(z) = Body(e.chunk.text)
  BY <1>3, EntriesGistOne
<1>7. JoinAt(es, p, e) = (a \o z) \o b BY DEF JoinAt
<1> HIDE DEF a, b, x, y, z
<1>8. EntriesGist(x \o y) = EntriesGist(z) /\ x \o y \in Seq(E)
  <2>1. EntriesGist(x \o y) = EntriesGist(x) \o EntriesGist(y) BY <1>4, ChunksOfConcat
  <2>2. x \o y \in Seq(E) BY <1>4, ConcatParts
  <2>3. QED BY <1>6, <2>1, <2>2
<1>9. EntriesGist((a \o (x \o y)) \o b) = EntriesGist((a \o z) \o b)
  <2>1. EntriesGist(a \o (x \o y)) = EntriesGist(a) \o EntriesGist(x \o y) /\ a \o (x \o y) \in Seq(E)
    BY <1>2, <1>8, ChunksOfConcat, ConcatParts
  <2>2. EntriesGist(a \o z) = EntriesGist(a) \o EntriesGist(z) /\ a \o z \in Seq(E)
    BY <1>2, <1>4, ChunksOfConcat, ConcatParts
  <2> DEFINE u == a \o (x \o y)
             v == a \o z
  <2>3. EntriesGist(u) = EntriesGist(v) /\ u \in Seq(E) /\ v \in Seq(E) BY <1>8, <2>1, <2>2
  <2> HIDE DEF u, v
  <2>4. EntriesGist(u \o b) = EntriesGist(u) \o EntriesGist(b) /\ EntriesGist(v \o b) = EntriesGist(v) \o EntriesGist(b)
    BY <1>2, <2>3, ChunksOfConcat
  <2>5. QED BY <2>3, <2>4 DEF u, v
<1>10. QED BY <1>5, <1>7, <1>9

(***************************************************************************)
(* What the loop has settled                                               *)
(***************************************************************************)
\* Of two neighbours neither is joined to the other for being too short; the left one is not.
Apart(l, r)     == Tiny(l) \/ Tiny(r) => ~Joinable(l, r)
LeftApart(l, r) == Tiny(l) => ~Joinable(l, r)

\* The loop is done with the neighbours before the entry it looks at, and has looked at that
\* entry from its left.
Settled(es, i) ==
  \A k \in 1..(Len(es) - 1) :
    /\ k + 1 < i => Apart(es[k].chunk, es[k + 1].chunk)
    /\ k + 1 = i => LeftApart(es[k].chunk, es[k + 1].chunk)

\* Joining at p leaves what was settled before p settled: what p could not be joined with
\* cannot be joined with what it becomes.
LEMMA JoinSettles ==
  ASSUME NEW R, R \subseteq Nat, NEW es \in Seq(SoundEntries(R)), NEW p \in 1..(Len(es) - 1), NEW e \in SoundEntries(R),
         Joinable(es[p].chunk, es[p + 1].chunk), e.chunk = Joined(es[p].chunk, es[p + 1].chunk),
         \A k \in 1..(p - 1) : /\ k + 1 < p => Apart(es[k].chunk, es[k + 1].chunk)
                               /\ LeftApart(es[k].chunk, es[k + 1].chunk)
  PROVE  Settled(JoinAt(es, p, e), p)
<1> DEFINE j == JoinAt(es, p, e)
           n == Len(es)
<1>1. n \in Nat /\ p \in Nat /\ p >= 1 /\ p <= n - 1 OBVIOUS
<1>2. /\ Len(j) = n - 1 /\ (\A k \in 1..(p - 1) : j[k] = es[k]) /\ j[p] = e
  BY JoinAtIs
<1>3. \A k \in 1..n : es[k].chunk \in SoundChunks(R)
  <2>1. \A k \in 1..n : es[k] \in SoundEntries(R) OBVIOUS
  <2>2. QED BY <2>1, SoundEntry
<1> HIDE DEF j, n
<1>4. ASSUME NEW k \in 1..(Len(j) - 1), k + 1 < p PROVE Apart(j[k].chunk, j[k + 1].chunk)
  <2>1. k \in 1..(p - 1) /\ k + 1 \in 1..(p - 1) BY <1>1, <1>2, <1>4
  <2>2. j[k] = es[k] /\ j[k + 1] = es[k + 1] BY <1>2, <2>1
  <2>3. QED BY <1>4, <2>1, <2>2
<1>5. ASSUME NEW k \in 1..(Len(j) - 1), k + 1 = p PROVE LeftApart(j[k].chunk, j[k + 1].chunk)
  <2>1. k \in 1..(p - 1) /\ k \in 1..n /\ p \in 1..n /\ p + 1 \in 1..n BY <1>1, <1>2, <1>5
  <2>2. j[k] = es[k] /\ j[k + 1] = e BY <1>2, <1>5, <2>1
  <2>3. LeftApart(es[k].chunk, es[p].chunk) BY <1>5, <2>1
  <2>4. ~Joinable(es[k].chunk, es[p].chunk) => ~Joinable(es[k].chunk, e.chunk)
    <3>1. es[k].chunk \in SoundChunks(R) /\ es[p].chunk \in SoundChunks(R) /\ es[p + 1].chunk \in SoundChunks(R) BY <1>3, <2>1
    <3>2. QED BY <3>1, JoinableLost
  <2>5. QED BY <2>2, <2>3, <2>4 DEF LeftApart
<1>6. Settled(j, p) BY <1>4, <1>5 DEF Settled
<1>7. QED BY <1>6 DEF j

\* A function that follows the steps of a fold while it stays in V takes the fold's value.
Follows(i, n, V, base, h) ==
  /\ i[{}] = base
  /\ \A s \in SUBSET (1..n) : s # {} /\ i[s \ {Seqs!Max(s)}] \in V => i[s] = h[<<i[s \ {Seqs!Max(s)}], Seqs!Max(s)>>]

\* Such a function ends where the fold does.
LEMMA FoldValue ==
  ASSUME NEW n \in Nat, NEW V, NEW base \in V, NEW h \in StepsOn(V, n), NEW f \in FoldsOver(V, n, base, h), NEW i,
         Follows(i, n, V, base, h)
  PROVE  i[1..n] = f[1..n]
<1> DEFINE T == {s \in SUBSET (1..n) : i[s] = f[s]}
<1>1. /\ f \in [SUBSET (1..n) -> V] /\ f[{}] = base
      /\ \A s \in SUBSET (1..n) :
           s # {} => /\ s \ {Seqs!Max(s)} \in SUBSET (1..n)
                     /\ f[s] = h[<<f[s \ {Seqs!Max(s)}], Seqs!Max(s)>>]
  BY DEF FoldsOver
<1>2. {} \in T BY <1>1 DEF Follows
<1>3. ASSUME NEW s \in SUBSET (1..n), s # {}, s \ {Seqs!Max(s)} \in T PROVE s \in T
  <2> DEFINE d == s \ {Seqs!Max(s)}
  <2>1. d \in SUBSET (1..n) /\ i[d] = f[d] BY <1>3
  <2>2. f[d] \in V BY <1>1, <2>1
  <2>3. i[s] = h[<<i[d], Seqs!Max(s)>>] BY <1>3, <2>1, <2>2 DEF Follows
  <2>4. f[s] = h[<<f[d], Seqs!Max(s)>>] BY <1>1, <1>3
  <2> HIDE DEF d
  <2>5. QED BY <2>1, <2>3, <2>4
<1>4. \A s \in SUBSET (1..n) : s \in T
  <2> HIDE DEF T
  <2>1. QED BY <1>2, <1>3, SubsetInduction
<1>5. QED BY <1>4

(***************************************************************************)
(* Lengths                                                                 *)
(***************************************************************************)
\* Total sums along the sequence: its partial sums form a trace.
LEMMA TotalSteps ==
  ASSUME NEW s \in Seq(Nat)
  PROVE  \E g \in [0..Len(s) -> Nat] :
           /\ g[0] = 0 /\ \A k \in 1..Len(s) : g[k] = g[k - 1] + s[k]
           /\ Total(s) = g[Len(s)]
<1> DEFINE n == Len(s)
           h == [p \in Nat \X (1..n) |-> p[1] + s[p[2]]]
<1>1. n \in Nat /\ DOMAIN s = 1..n /\ \A k \in 1..n : s[k] \in Nat OBVIOUS
<1>2. h \in StepsOn(Nat, n) BY <1>1 DEF StepsOn
<1>3. PICK f : f \in FoldsOver(Nat, n, 0, h)
  <2> HIDE DEF n, h
  <2>1. QED BY <1>1, <1>2, FoldSteps
<1>4. \A v \in Nat, k \in 1..n : h[<<v, k>>] = v + s[k] OBVIOUS
<1>5. /\ f \in [SUBSET (1..n) -> Nat] /\ f[{}] = 0
      /\ \A t \in SUBSET (1..n) :
           t # {} => /\ Seqs!Max(t) \in 1..n /\ t \ {Seqs!Max(t)} \in SUBSET (1..n)
                     /\ f[t] = f[t \ {Seqs!Max(t)}] + s[Seqs!Max(t)]
      /\ \A k \in 1..n : f[1..k] = f[1..(k - 1)] + s[k]
  <2>1. /\ f \in [SUBSET (1..n) -> Nat] /\ f[{}] = 0
        /\ \A t \in SUBSET (1..n) :
             t # {} => /\ Seqs!Max(t) \in 1..n /\ t \ {Seqs!Max(t)} \in SUBSET (1..n)
                       /\ f[t] = h[<<f[t \ {Seqs!Max(t)}], Seqs!Max(t)>>]
        /\ \A k \in 1..n : f[1..k] = h[<<f[1..(k - 1)], k>>]
    <3> HIDE DEF h
    <3>1. QED BY <1>3 DEF FoldsOver
  <2>2. \A k \in 1..n : 1..(k - 1) \in SUBSET (1..n) OBVIOUS
  <2> HIDE DEF h
  <2>3. QED BY <2>1, <2>2, <1>4
<1> DEFINE Iter(i) == i = [t \in SUBSET (1..n) |-> IF t = {} THEN 0 ELSE i[t \ {Seqs!Max(t)}] + s[Seqs!Max(t)]]
           c == CHOOSE i : Iter(i)
<1>6. Total(s) = c[1..n]
  BY <1>1 DEF Total, Seqs!FoldLeft, Seqs!MapThenFoldSet
<1>7. Iter(c)
  <2>1. \A t \in SUBSET (1..n) : f[t] = IF t = {} THEN 0 ELSE f[t \ {Seqs!Max(t)}] + s[Seqs!Max(t)] BY <1>5
  <2>2. Iter(f)
    <3> HIDE DEF h, n
    <3>1. f = [t \in SUBSET (1..n) |-> f[t]] BY <1>5
    <3>2. QED BY <2>1, <3>1
  <2> HIDE DEF Iter
  <2>3. QED BY <2>2
<1>8. c[{}] = 0 /\ \A t \in SUBSET (1..n) : t # {} => c[t] = c[t \ {Seqs!Max(t)}] + s[Seqs!Max(t)]
  <2> HIDE DEF c
  <2>1. QED BY <1>7
<1>9. c[1..n] = f[1..n]
  <2>1. ASSUME NEW t \in SUBSET (1..n), t # {}, c[t \ {Seqs!Max(t)}] \in Nat
        PROVE  c[t] = h[<<c[t \ {Seqs!Max(t)}], Seqs!Max(t)>>]
    <3> DEFINE d == t \ {Seqs!Max(t)}
    <3>1. c[t] = c[d] + s[Seqs!Max(t)] BY <1>8, <2>1
    <3>2. Seqs!Max(t) \in 1..n BY <1>5, <2>1
    <3>3. c[d] \in Nat BY <2>1
    <3> HIDE DEF c, d, h, n
    <3>4. h[<<c[d], Seqs!Max(t)>>] = c[d] + s[Seqs!Max(t)] BY <1>4, <3>2, <3>3
    <3>5. QED BY <3>1, <3>4 DEF d
  <2> HIDE DEF c, h, n
  <2>2. Follows(c, n, Nat, 0, h) BY <1>8, <2>1 DEF Follows
  <2>3. QED BY <1>1, <1>2, <1>3, <2>2, FoldValue, SMTT(60)
<1> DEFINE g == [k \in 0..n |-> f[1..k]]
<1>10. g \in [0..n -> Nat] /\ g[0] = 0 /\ (\A k \in 1..n : g[k] = g[k - 1] + s[k]) /\ g[n] = f[1..n]
  <2>1. \A k \in 0..n : 1..k \in SUBSET (1..n) OBVIOUS
  <2>2. \A k \in 1..n : k \in 0..n /\ k - 1 \in 0..n OBVIOUS
  <2>3. 1..0 = {} /\ 0 \in 0..n /\ n \in 0..n OBVIOUS
  <2> HIDE DEF c, h, n
  <2>4. QED BY <1>5, <2>1, <2>2, <2>3
<1> HIDE DEF c, h, g
<1>11. QED BY <1>6, <1>9, <1>10

\* Total sums lengths one after the other.
LEMMA TotalOf ==
  /\ Total(<<>>) = 0
  /\ \A s \in Seq(Nat) : Total(s) \in Nat
  /\ \A s \in Seq(Nat), x \in Nat : Total(Append(s, x)) = Total(s) + x
<1>1. ASSUME NEW s \in Seq(Nat) PROVE Total(s) \in Nat
  <2>1. PICK g \in [0..Len(s) -> Nat] : Total(s) = g[Len(s)] BY TotalSteps
  <2>2. Len(s) \in 0..Len(s) OBVIOUS
  <2>3. QED BY <2>1, <2>2
<1>2. Total(<<>>) = 0
  <2> DEFINE e == <<>>
  <2>1. e \in Seq(Nat) /\ Len(e) = 0 OBVIOUS
  <2> HIDE DEF e
  <2>2. PICK g \in [0..Len(e) -> Nat] : g[0] = 0 /\ Total(e) = g[Len(e)] BY <2>1, TotalSteps
  <2>3. QED BY <2>1, <2>2 DEF e
<1>3. ASSUME NEW s \in Seq(Nat), NEW x \in Nat PROVE Total(Append(s, x)) = Total(s) + x
  <2> DEFINE n == Len(s)
             l == Append(s, x)
  <2>1. l \in Seq(Nat) /\ Len(l) = n + 1 /\ l[n + 1] = x /\ \A k \in 1..n : l[k] = s[k] OBVIOUS
  <2>2. n \in Nat OBVIOUS
  <2> HIDE DEF n, l
  <2>3. PICK g \in [0..n -> Nat] : /\ g[0] = 0 /\ \A k \in 1..n : g[k] = g[k - 1] + s[k]
                                   /\ Total(s) = g[n]
    BY TotalSteps DEF n
  <2>4. PICK e \in [0..(n + 1) -> Nat] : /\ e[0] = 0 /\ \A k \in 1..(n + 1) : e[k] = e[k - 1] + l[k]
                                         /\ Total(l) = e[n + 1]
    <3>1. \E e \in [0..Len(l) -> Nat] : /\ e[0] = 0 /\ \A k \in 1..Len(l) : e[k] = e[k - 1] + l[k]
                                        /\ Total(l) = e[Len(l)]
      BY <2>1, TotalSteps
    <3>2. QED BY <2>1, <3>1
  <2> DEFINE T == {k \in 0..n : g[k] = e[k]}
  <2>5. 0 \in T BY <2>2, <2>3, <2>4
  <2>6. ASSUME NEW k \in 0..(n - 1), k \in T PROVE k + 1 \in T
    <3>1. k + 1 \in 1..n /\ k + 1 \in 1..(n + 1) /\ (k + 1) - 1 = k BY <2>2
    <3>2. g[k + 1] = g[k] + s[k + 1] BY <2>3, <3>1
    <3>3. e[k + 1] = e[k] + s[k + 1] BY <2>1, <2>4, <3>1
    <3>4. k + 1 \in 0..n BY <2>2
    <3>5. QED BY <2>6, <3>1, <3>2, <3>3, <3>4
  <2>7. n \in T
    <3> HIDE DEF T
    <3>1. QED BY <2>2, <2>5, <2>6, Induction
  <2>8. e[n + 1] = e[n] + x
    <3>1. n + 1 \in 1..(n + 1) /\ (n + 1) - 1 = n BY <2>2
    <3>2. QED BY <2>1, <2>4, <3>1
  <2>9. QED BY <2>3, <2>4, <2>7, <2>8 DEF l
<1>4. QED BY <1>1, <1>2, <1>3

\* The total of two sequences of lengths.
LEMMA TotalConcat ==
  ASSUME NEW a \in Seq(Nat), NEW b \in Seq(Nat)
  PROVE  Total(a \o b) = Total(a) + Total(b)
<1> DEFINE T == {c \in Seq(Nat) : Total(a \o c) = Total(a) + Total(c)}
<1>1. <<>> \in T
  <2>1. a \o <<>> = a /\ <<>> \in Seq(Nat) OBVIOUS
  <2>2. Total(a) + Total(<<>>) = Total(a) BY TotalOf
  <2>3. QED BY <2>1, <2>2
<1>2. ASSUME NEW c \in T, NEW x \in Nat PROVE Append(c, x) \in T
  <2>1. c \in Seq(Nat) /\ a \o c \in Seq(Nat) /\ Append(c, x) \in Seq(Nat) OBVIOUS
  <2>2. a \o Append(c, x) = Append(a \o c, x) BY <2>1
  <2>3. Total(Append(a \o c, x)) = Total(a \o c) + x /\ Total(Append(c, x)) = Total(c) + x BY <2>1, TotalOf
  <2>4. Total(a \o c) = Total(a) + Total(c) OBVIOUS
  <2>5. Total(a) \in Nat /\ Total(c) \in Nat BY <2>1, TotalOf
  <2>6. (Total(a) + Total(c)) + x = Total(a) + (Total(c) + x) BY <2>5
  <2>7. QED BY <2>1, <2>2, <2>3, <2>4, <2>6
<1>3. Seq(Nat) \subseteq T
  <2> HIDE DEF T
  <2>1. QED BY <1>1, <1>2, SeqInduction
<1>4. QED BY <1>3

\* A prefix is the one before it and an item.
LEMMA PrefixParts ==
  ASSUME NEW S, NEW s \in Seq(S), NEW k \in 1..Len(s)
  PROVE  /\ SubSeq(s, 1, k) = Append(SubSeq(s, 1, k - 1), s[k])
         /\ SubSeq(s, 1, k - 1) \in Seq(S) /\ s[k] \in S /\ SubSeq(s, 1, k) \in Seq(S)
<1>1. Len(s) \in Nat /\ s[k] \in S /\ 1 \in 1..Len(s) /\ k \in 1..Len(s) OBVIOUS
<1>2. SubSeq(s, 1, k) = SubSeq(s, 1, k - 1) \o << s[k] >> BY <1>1, SubSeqRecursiveSecond
<1>3. SubSeq(s, 1, k - 1) \in Seq(S) /\ SubSeq(s, 1, k) \in Seq(S)
  <2>1. 1 \in Int /\ k - 1 \in Int /\ k \in Int /\ (\A i \in 1..k : s[i] \in S) /\ \A i \in 1..(k - 1) : s[i] \in S BY <1>1
  <2>2. SubSeq(s, 1, k - 1) \in Seq(S) BY <2>1, SubSeqProperties
  <2>3. SubSeq(s, 1, k) \in Seq(S) BY <2>1, SubSeqProperties
  <2>4. QED BY <2>2, <2>3
<1>4. QED BY <1>1, <1>2, <1>3, AppendIsConcat

(***************************************************************************)
(* The tokens of a block                                                   *)
(***************************************************************************)
\* A span of a block is a text of that many words of the block.
LEMMA SpanType ==
  ASSUME NEW b \in Nat \ {0}, NEW x \in Nat, NEW n \in Nat
  PROVE  /\ Span(b, x, n) \in Seq(WordToken) /\ Span(b, x, n) \in Seq(TokenOf({b})) /\ Span(b, x, n) \in Text
         /\ Len(Span(b, x, n)) = n /\ Body(Span(b, x, n)) = Span(b, x, n)
<1>1. \A k \in 1..n : <<b, x + k>> \in WordToken /\ <<b, x + k>> \in TokenOf({b})
  BY DEF WordToken, TokenOf, Token, IsWord
<1>2. Span(b, x, n) \in Seq(WordToken) /\ Span(b, x, n) \in Seq(TokenOf({b})) /\ Len(Span(b, x, n)) = n
  BY <1>1 DEF Span
<1>3. QED BY <1>2, BodyOfWords

\* Two spans of a block that follow each other are one.
LEMMA SpanConcat ==
  ASSUME NEW b \in Nat \ {0}, NEW x \in Nat, NEW m \in Nat, NEW n \in Nat
  PROVE  Span(b, x, m + n) = Span(b, x, m) \o Span(b, x + m, n)
<1> DEFINE p == Span(b, x, m)
           q == Span(b, x + m, n)
           c == Span(b, x, m + n)
<1>1. p \in Text /\ q \in Text /\ c \in Text /\ Len(p) = m /\ Len(q) = n /\ Len(c) = m + n
  <2>1. x + m \in Nat /\ m + n \in Nat OBVIOUS
  <2>2. p \in Text /\ Len(p) = m BY SpanType
  <2>3. q \in Text /\ Len(q) = n BY <2>1, SpanType
  <2>4. c \in Text /\ Len(c) = m + n BY <2>1, SpanType
  <2>5. QED BY <2>2, <2>3, <2>4
<1>2. ASSUME NEW i \in 1..m PROVE c[i] = p[i]
  <2>1. i \in 1..(m + n) OBVIOUS
  <2>2. QED BY <2>1 DEF Span
<1>3. ASSUME NEW i \in 1..n PROVE c[m + i] = q[i]
  <2>1. m + i \in 1..(m + n) /\ x + (m + i) = (x + m) + i OBVIOUS
  <2>2. QED BY <2>1 DEF Span
<1> HIDE DEF p, q, c
<1>4. c = p \o q
  <2>1. Len(c) = Len(p) + Len(q) /\ c \in Seq(Token) /\ p \in Seq(Token) /\ q \in Seq(Token) BY <1>1 DEF Text
  <2>2. (\A i \in 1..Len(p) : c[i] = p[i]) /\ \A i \in 1..Len(q) : c[Len(p) + i] = q[i] BY <1>1, <1>2, <1>3
  <2>3. QED BY <2>1, <2>2, ConcatIs
<1>5. QED BY <1>4 DEF c, p, q

\* Pieces of a block that follow each other are its tokens from the first piece on.
LEMMA FlattenSpans ==
  ASSUME NEW b \in Nat \ {0}, NEW ss \in Seq(Text), NEW t \in Maps(0..Len(ss), Nat),
         \A k \in 1..Len(ss) : \E m \in Nat : t[k] = t[k - 1] + m /\ ss[k] = Span(b, t[k - 1], m)
  PROVE  t[Len(ss)] - t[0] \in Nat /\ Seqs!FlattenSeq(ss) = Span(b, t[0], t[Len(ss)] - t[0])
<1> DEFINE n == Len(ss)
<1>1. n \in Nat /\ ss \in Seq(Seq(Token)) BY DEF Text
<1>2. PICK g \in [0..n -> Seq(Token)] : /\ g[0] = <<>> /\ \A k \in 1..n : g[k] = g[k - 1] \o ss[k]
                                        /\ Seqs!FlattenSeq(ss) = g[n]
  BY <1>1, FlattenSteps
<1>3. \A k \in 0..n : t[k] \in Nat BY DEF Maps
<1> HIDE DEF n
<1> DEFINE T == {k \in 0..n : t[k] - t[0] \in Nat /\ g[k] = Span(b, t[0], t[k] - t[0])}
<1>4. 0 \in T
  <2>1. 0 \in 0..n /\ t[0] \in Nat BY <1>1, <1>3
  <2>2. t[0] - t[0] = 0 BY <2>1
  <2>3. Span(b, t[0], 0) = <<>> BY DEF Span
  <2>4. QED BY <1>2, <2>1, <2>2, <2>3
<1>5. ASSUME NEW k \in 0..(n - 1), k \in T PROVE k + 1 \in T
  <2>1. k + 1 \in 1..n /\ k + 1 \in 0..n /\ (k + 1) - 1 = k /\ 0 \in 0..n /\ k \in 0..n BY <1>1
  <2>2. PICK m \in Nat : t[k + 1] = t[k] + m /\ ss[k + 1] = Span(b, t[k], m) BY <2>1 DEF n
  <2>3. g[k + 1] = g[k] \o ss[k + 1] BY <1>2, <2>1
  <2>4. t[0] \in Nat /\ t[k] \in Nat /\ t[k + 1] \in Nat BY <1>3, <2>1
  <2> DEFINE d == t[k] - t[0]
  <2>5. d \in Nat /\ g[k] = Span(b, t[0], d) BY <1>5
  <2>6. t[0] + d = t[k] /\ t[k + 1] - t[0] = d + m /\ d + m \in Nat BY <2>2, <2>4, <2>5
  <2> HIDE DEF d
  <2>7. Span(b, t[0], d + m) = Span(b, t[0], d) \o Span(b, t[0] + d, m)
    <3> DEFINE y == t[0]
    <3>1. y \in Nat BY <2>4
    <3> HIDE DEF y
    <3>2. Span(b, y, d + m) = Span(b, y, d) \o Span(b, y + d, m) BY <2>5, <3>1, SpanConcat, ZenonT(60)
    <3>3. QED BY <3>2 DEF y
  <2>8. g[k + 1] = Span(b, t[0], t[k + 1] - t[0]) BY <2>2, <2>3, <2>5, <2>6, <2>7
  <2>9. QED BY <2>1, <2>6, <2>8
<1>6. n \in T
  <2> HIDE DEF T
  <2>1. QED BY <1>1, <1>4, <1>5, Induction
<1>7. QED BY <1>2, <1>6 DEF n

\* The pieces Measure cuts a block into have its words in their order.
LEMMA MeasureWords ==
  ASSUME NEW b \in Nat \ {0}, NEW x \in Nat, NEW l \in Seq(Nat)
  PROVE  /\ Measure(b, x, l) \in Seq(Text) /\ Len(Measure(b, x, l)) = Len(l)
         /\ \A i \in 1..Len(l) : /\ Measure(b, x, l)[i] \in Seq(TokenOf({b})) /\ Measure(b, x, l)[i] \in Seq(WordToken)
                                 /\ Len(Measure(b, x, l)[i]) = l[i]
         /\ Total(l) \in Nat
         /\ Seqs!FlattenSeq(Measure(b, x, l)) = Span(b, x, Total(l))
<1> DEFINE n == Len(l)
           m == Measure(b, x, l)
           t == [k \in 0..n |-> x + Total(SubSeq(l, 1, k))]
<1>1. n \in Nat /\ DOMAIN l = 1..n /\ \A i \in 1..n : l[i] \in Nat OBVIOUS
<1>2. \A k \in 0..n : Total(SubSeq(l, 1, k)) \in Nat
  <2>1. ASSUME NEW k \in 0..n PROVE SubSeq(l, 1, k) \in Seq(Nat)
    <3>1. 1 \in Int /\ k \in Int /\ \A i \in 1..k : l[i] \in Nat BY <1>1
    <3>2. QED BY <3>1, SubSeqProperties
  <2>2. QED BY <2>1, TotalOf
<1>3. ASSUME NEW k \in 1..n PROVE Total(SubSeq(l, 1, k)) = Total(SubSeq(l, 1, k - 1)) + l[k]
  <2>1. /\ SubSeq(l, 1, k) = Append(SubSeq(l, 1, k - 1), l[k]) /\ SubSeq(l, 1, k - 1) \in Seq(Nat) /\ l[k] \in Nat
    BY PrefixParts
  <2>2. QED BY <2>1, TotalOf
<1>4. \A i \in 1..n : i - 1 \in 0..n /\ i \in 0..n BY <1>1
<1>5. \A i \in 1..n : m[i] = Span(b, x + Total(SubSeq(l, 1, i - 1)), l[i]) BY <1>1 DEF Measure
<1>6. ASSUME NEW i \in 1..n
      PROVE  m[i] \in Text /\ m[i] \in Seq(TokenOf({b})) /\ m[i] \in Seq(WordToken) /\ Len(m[i]) = l[i]
  <2> DEFINE y == Total(SubSeq(l, 1, i - 1))
             z == x + y
  <2>1. y \in Nat /\ l[i] \in Nat BY <1>1, <1>2, <1>4
  <2>2. m[i] = Span(b, z, l[i]) BY <1>5
  <2> HIDE DEF y, m
  <2>3. z \in Nat BY <2>1
  <2> DEFINE w == l[i]
  <2>4. w \in Nat /\ z \in Nat BY <2>1, <2>3
  <2> HIDE DEF z, w
  <2>5. /\ Span(b, z, w) \in Seq(WordToken) /\ Span(b, z, w) \in Seq(TokenOf({b})) /\ Span(b, z, w) \in Text
        /\ Len(Span(b, z, w)) = w
    BY <2>4, SpanType
  <2>6. QED BY <2>2, <2>5 DEF w
<1>7. m \in Seq(Text) /\ Len(m) = n
  <2>1. DOMAIN m = 1..n BY <1>1 DEF Measure
  <2>2. m = [i \in 1..n |-> m[i]] BY <1>1 DEF Measure
  <2> HIDE DEF m, n
  <2>3. QED BY <1>1, <1>6, <2>1, <2>2, SMTT(60)
<1>8. t \in Maps(0..n, Nat) BY <1>2 DEF Maps
<1>9. ASSUME NEW k \in 1..n PROVE \E d \in Nat : t[k] = t[k - 1] + d /\ m[k] = Span(b, t[k - 1], d)
  <2>1. l[k] \in Nat /\ Total(SubSeq(l, 1, k)) \in Nat /\ Total(SubSeq(l, 1, k - 1)) \in Nat BY <1>1, <1>2, <1>4
  <2>2. t[k] = x + Total(SubSeq(l, 1, k)) /\ t[k - 1] = x + Total(SubSeq(l, 1, k - 1)) BY <1>4
  <2>3. t[k] = t[k - 1] + l[k] BY <1>3, <2>1, <2>2
  <2> HIDE DEF t, m
  <2>4. m[k] = Span(b, t[k - 1], l[k]) BY <1>5, <2>2
  <2>5. QED BY <2>1, <2>3, <2>4
<1>10. t[0] = x /\ t[n] = x + Total(l)
  <2>1. 0 \in 0..n /\ n \in 0..n BY <1>1
  <2>2. SubSeq(l, 1, 0) = <<>> /\ SubSeq(l, 1, n) = l OBVIOUS
  <2>3. Total(SubSeq(l, 1, 0)) = 0 BY <2>2, TotalOf
  <2>4. x + 0 = x OBVIOUS
  <2>5. QED BY <2>1, <2>2, <2>3, <2>4
<1>11. Total(l) \in Nat BY TotalOf
<1> HIDE DEF n, m, t
<1>12. Seqs!FlattenSeq(m) = Span(b, t[0], t[n] - t[0])
  <2>1. t \in Maps(0..Len(m), Nat) /\ \A k \in 1..Len(m) : \E d \in Nat : t[k] = t[k - 1] + d /\ m[k] = Span(b, t[k - 1], d)
    BY <1>7, <1>8, <1>9
  <2>2. QED BY <1>7, <2>1, FlattenSpans
<1>13. t[n] - t[0] = Total(l) BY <1>10, <1>11
<1>14. QED BY <1>6, <1>7, <1>10, <1>11, <1>12, <1>13 DEF m, n

(***************************************************************************)
(* Packing                                                                 *)
(***************************************************************************)
PackStates(n, Z) == [done: Seq(Z), from: 0..n]
NotPacked == [done |-> <<>>, from |-> 0]

\* The steps of a packing of n groups into chunks of Z, and its states.
PackTraces(n, Z, whole, finer) ==
  {g \in [0..n -> PackStates(n, Z)] :
     /\ g[0] = NotPacked
     /\ \A k \in 1..n : g[k] = Place(g[k - 1], k, whole, finer)
     /\ Pack(n, whole, finer) = IF g[n].from = 0 THEN g[n].done ELSE Append(g[n].done, whole[<<g[n].from, n>>])}

\* The chunks packed so far form a trace.
LEMMA PackSteps ==
  ASSUME NEW n \in Nat, NEW Z, NEW whole, NEW finer,
         \A i, j \in 0..n : whole[<<i, j>>] \in Z, \A k \in 1..n : finer[k] \in Seq(Z)
  PROVE  \E g : g \in PackTraces(n, Z, whole, finer)
<1> DEFINE V == PackStates(n, Z)
           h == [p \in V \X (1..n) |-> Place(p[1], p[2], whole, finer)]
           r == [k \in 1..n |-> k]
<1>1. NotPacked \in V BY DEF PackStates, NotPacked
<1>2. ASSUME NEW p \in V, NEW k \in 1..n PROVE Place(p, k, whole, finer) \in V
  <2> DEFINE full == p.from > 0 /\ Over(whole[<<p.from, k>>])
             done == IF full THEN Append(p.done, whole[<<p.from, k - 1>>]) ELSE p.done
             from == IF full \/ p.from = 0 THEN k ELSE p.from
  <2>1. p.done \in Seq(Z) /\ p.from \in 0..n /\ k \in 0..n /\ k - 1 \in 0..n /\ 0 \in 0..n BY DEF PackStates
  <2>2. whole[<<p.from, k - 1>>] \in Z /\ finer[k] \in Seq(Z) BY <2>1
  <2>3. done \in Seq(Z)
    <3>1. Append(p.done, whole[<<p.from, k - 1>>]) \in Seq(Z) BY <2>1, <2>2, AppendProperties
    <3>2. QED BY <2>1, <3>1
  <2>4. from \in 0..n BY <2>1
  <2>5. Place(p, k, whole, finer) = IF from = k /\ Over(whole[<<k, k>>]) THEN [done |-> done \o finer[k], from |-> 0]
                                    ELSE [done |-> done, from |-> from]
    BY DEF Place
  <2> HIDE DEF done, from, full
  <2>6. done \o finer[k] \in Seq(Z) BY <2>2, <2>3, ConcatProperties
  <2>7. [done |-> done \o finer[k], from |-> 0] \in PackStates(n, Z) BY <2>1, <2>6 DEF PackStates
  <2>8. [done |-> done, from |-> from] \in PackStates(n, Z) BY <2>3, <2>4 DEF PackStates
  <2>9. QED BY <2>5, <2>7, <2>8
<1>3. h \in StepsOn(V, n)
  <2> HIDE DEF V
  <2>1. \A p \in V \X (1..n) : p[1] \in V /\ p[2] \in 1..n OBVIOUS
  <2>2. \A p \in V \X (1..n) : Place(p[1], p[2], whole, finer) \in V BY <1>2, <2>1
  <2>3. QED BY <2>2 DEF StepsOn
<1>4. PICK f : f \in FoldsOver(V, n, NotPacked, h)
  <2> HIDE DEF h, V
  <2>1. QED BY <1>1, <1>3, FoldSteps
<1>5. \A v \in V, k \in 1..n : h[<<v, k>>] = Place(v, k, whole, finer)
  <2> HIDE DEF V
  <2>1. QED OBVIOUS
<1>6. /\ f \in [SUBSET (1..n) -> V] /\ f[{}] = NotPacked
      /\ \A t \in SUBSET (1..n) :
           t # {} => /\ Seqs!Max(t) \in 1..n /\ t \ {Seqs!Max(t)} \in SUBSET (1..n)
                     /\ f[t] = Place(f[t \ {Seqs!Max(t)}], Seqs!Max(t), whole, finer)
      /\ \A k \in 1..n : f[1..k] = Place(f[1..(k - 1)], k, whole, finer)
  <2>1. /\ f \in [SUBSET (1..n) -> V] /\ f[{}] = NotPacked
        /\ \A t \in SUBSET (1..n) :
             t # {} => /\ Seqs!Max(t) \in 1..n /\ t \ {Seqs!Max(t)} \in SUBSET (1..n)
                       /\ f[t] = h[<<f[t \ {Seqs!Max(t)}], Seqs!Max(t)>>]
        /\ \A k \in 1..n : f[1..k] = h[<<f[1..(k - 1)], k>>]
    <3> HIDE DEF h, V
    <3>1. QED BY <1>4 DEF FoldsOver
  <2>2. \A k \in 1..n : 1..(k - 1) \in SUBSET (1..n) OBVIOUS
  <2> HIDE DEF h, V
  <2>3. QED BY <2>1, <2>2, <1>5
<1> DEFINE Iter(i) == i = [t \in SUBSET (1..n) |-> IF t = {} THEN NotPacked
                                                   ELSE Place(i[t \ {Seqs!Max(t)}], r[Seqs!Max(t)], whole, finer)]
           c == CHOOSE i : Iter(i)
           packed == c[1..n]
<1>7. Pack(n, whole, finer) = IF packed.from = 0 THEN packed.done ELSE Append(packed.done, whole[<<packed.from, n>>])
  <2>1. DOMAIN [k \in 1..n |-> k] = 1..n OBVIOUS
  <2>2. QED BY <2>1 DEF Pack, Seqs!FoldLeft, Seqs!MapThenFoldSet, NotPacked
<1>8. Iter(c)
  <2>1. \A t \in SUBSET (1..n) : f[t] = IF t = {} THEN NotPacked
                                        ELSE Place(f[t \ {Seqs!Max(t)}], r[Seqs!Max(t)], whole, finer)
    BY <1>6
  <2>2. Iter(f)
    <3> HIDE DEF h, V, r
    <3>1. f = [t \in SUBSET (1..n) |-> f[t]] BY <1>6
    <3>2. QED BY <2>1, <3>1
  <2> HIDE DEF Iter
  <2>3. QED BY <2>2
<1>9. /\ c[{}] = NotPacked
      /\ \A t \in SUBSET (1..n) : t # {} => c[t] = Place(c[t \ {Seqs!Max(t)}], Seqs!Max(t), whole, finer)
  <2>1. \A t \in SUBSET (1..n) : t # {} => r[Seqs!Max(t)] = Seqs!Max(t) BY <1>6
  <2> HIDE DEF c, r
  <2>2. QED BY <1>8, <2>1
<1>10. c[1..n] = f[1..n]
  <2>1. ASSUME NEW t \in SUBSET (1..n), t # {}, c[t \ {Seqs!Max(t)}] \in V
        PROVE  c[t] = h[<<c[t \ {Seqs!Max(t)}], Seqs!Max(t)>>]
    <3> HIDE DEF c, h, V
    <3>1. QED BY <1>5, <1>6, <1>9, <2>1
  <2> HIDE DEF c, h, V
  <2>2. Follows(c, n, V, NotPacked, h) BY <1>9, <2>1 DEF Follows
  <2>3. QED BY <1>1, <1>3, <1>4, <2>2, FoldValue
<1> DEFINE g == [k \in 0..n |-> f[1..k]]
<1>11. g \in [0..n -> V] /\ g[0] = NotPacked /\ (\A k \in 1..n : g[k] = Place(g[k - 1], k, whole, finer)) /\ g[n] = f[1..n]
  <2>1. \A k \in 0..n : 1..k \in SUBSET (1..n) OBVIOUS
  <2>2. \A k \in 1..n : k \in 0..n /\ k - 1 \in 0..n OBVIOUS
  <2>3. 1..0 = {} /\ 0 \in 0..n /\ n \in 0..n OBVIOUS
  <2> HIDE DEF c, h, V
  <2>4. QED BY <1>6, <2>1, <2>2, <2>3
<1> HIDE DEF c, h, g
<1>12. g \in PackTraces(n, Z, whole, finer)
  <2>1. g \in [0..n -> PackStates(n, Z)] BY <1>11
  <2>2. packed = g[n] BY <1>10, <1>11
  <2> HIDE DEF packed, V
  <2>3. Pack(n, whole, finer) = IF g[n].from = 0 THEN g[n].done ELSE Append(g[n].done, whole[<<g[n].from, n>>])
    BY <1>7, <2>2
  <2>4. QED BY <1>11, <2>1, <2>3 DEF PackTraces
<1>13. QED BY <1>12

\* Groups with the given words, the chunk of each run of them, and what each is cut into
\* when its own chunk does not fit.
Packable(n, S, words, whole, finer) ==
  /\ words \in Seq(Text) /\ Len(words) = n
  /\ \A i, j \in 1..n : i <= j => /\ whole[<<i, j>>] \in AnyChunk
                                  /\ Body(whole[<<i, j>>].text) = Seqs!FlattenSeq(SubSeq(words, i, j))
                                  /\ ~Over(whole[<<i, j>>]) => whole[<<i, j>>] \in S
  /\ \A k \in 1..n : finer[k] \in Seq(S) /\ (Over(whole[<<k, k>>]) => Gist(finer[k]) = words[k])

\* The chunks of a packing fit, and have the words of the groups in their order.
LEMMA PackWords ==
  ASSUME NEW n \in Nat, NEW S, S \subseteq AnyChunk, NEW words, NEW whole, NEW finer,
         Packable(n, S, words, whole, finer)
  PROVE  Pack(n, whole, finer) \in Seq(S) /\ Gist(Pack(n, whole, finer)) = Seqs!FlattenSeq(words)
<1> DEFINE Z == AnyChunk \cup {whole[p] : p \in (0..n) \X (0..n)}
<1>1. PICK g : g \in PackTraces(n, Z, whole, finer)
  <2>1. ASSUME NEW i \in 0..n, NEW j \in 0..n PROVE whole[<<i, j>>] \in Z
    <3>1. <<i, j>> \in (0..n) \X (0..n) OBVIOUS
    <3>2. QED BY <3>1, Zenon
  <2>2. S \subseteq Z OBVIOUS
  <2> HIDE DEF Z
  <2>3. \A k \in 1..n : finer[k] \in Seq(Z) BY <2>2, SeqMonotonic DEF Packable
  <2>4. QED BY <2>1, <2>3, PackSteps
<1>2. /\ g[0] = NotPacked /\ \A k \in 1..n : g[k] = Place(g[k - 1], k, whole, finer)
      /\ Pack(n, whole, finer) = IF g[n].from = 0 THEN g[n].done ELSE Append(g[n].done, whole[<<g[n].from, n>>])
  <2> HIDE DEF Z
  <2>1. QED BY <1>1 DEF PackTraces
<1>3. /\ words \in Seq(Text) /\ words \in Seq(Seq(Token)) /\ Len(words) = n
      /\ \A k \in 1..n : words[k] \in Text
  BY DEF Packable, Text
<1>4. \A i, j \in 1..n : i <= j => /\ whole[<<i, j>>] \in AnyChunk
                                   /\ Body(whole[<<i, j>>].text) = Seqs!FlattenSeq(SubSeq(words, i, j))
                                   /\ ~Over(whole[<<i, j>>]) => whole[<<i, j>>] \in S
  BY DEF Packable
<1>5. \A k \in 1..n : finer[k] \in Seq(S) /\ (Over(whole[<<k, k>>]) => Gist(finer[k]) = words[k])
  BY DEF Packable
<1> DEFINE Upto(k) == Seqs!FlattenSeq(SubSeq(words, 1, k))
<1>6. ASSUME NEW k \in 1..n PROVE Upto(k) = Upto(k - 1) \o words[k]
  <2>1. /\ SubSeq(words, 1, k) = Append(SubSeq(words, 1, k - 1), words[k])
        /\ SubSeq(words, 1, k - 1) \in Seq(Seq(Token)) /\ words[k] \in Seq(Token)
    <3>1. k \in 1..Len(words) BY <1>3
    <3>2. QED BY <1>3, <3>1, PrefixParts
  <2>2. QED BY <2>1, FlattenAppend
<1>7. ASSUME NEW i \in 1..n, NEW k \in i..n PROVE Upto(k) = Upto(i - 1) \o Seqs!FlattenSeq(SubSeq(words, i, k))
  <2>1. SubSeq(words, 1, i - 1) \o SubSeq(words, (i - 1) + 1, k) = SubSeq(words, 1, k)
    <3>1. 1 \in 1..(Len(words) + 1) /\ i - 1 \in (1 - 1)..Len(words) /\ k \in (i - 1)..Len(words) BY <1>3
    <3>2. QED BY <1>3, <3>1, ConcatAdjacentSubSeq
  <2>2. (i - 1) + 1 = i OBVIOUS
  <2>3. SubSeq(words, 1, i - 1) \in Seq(Seq(Token)) /\ SubSeq(words, i, k) \in Seq(Seq(Token))
    <3>1. /\ 1 \in Int /\ i - 1 \in Int /\ i \in Int /\ k \in Int
          /\ (\A x \in 1..(i - 1) : words[x] \in Text) /\ \A x \in i..k : words[x] \in Text
      BY <1>3
    <3>2. SubSeq(words, 1, i - 1) \in Seq(Text) BY <3>1, SubSeqProperties
    <3>3. SubSeq(words, i, k) \in Seq(Text) BY <3>1, SubSeqProperties
    <3>4. QED BY <3>2, <3>3 DEF Text
  <2>4. QED BY <2>1, <2>2, <2>3, FlattenConcat
<1>8. Upto(0) = <<>> /\ Upto(n) = Seqs!FlattenSeq(words)
  <2>1. SubSeq(words, 1, 0) = <<>> /\ SubSeq(words, 1, n) = words BY <1>3
  <2>2. QED BY <2>1, FlattenEmpty
<1> HIDE DEF Upto
\* What is done has the words of the groups before the open ones, and those fit together.
<1> DEFINE Good(k) == /\ g[k].done \in Seq(S) /\ g[k].from \in 0..k
                      /\ g[k].from = 0 => Gist(g[k].done) = Upto(k)
                      /\ g[k].from > 0 => Gist(g[k].done) = Upto(g[k].from - 1) /\ ~Over(whole[<<g[k].from, k>>])
           T == {k \in 0..n : Good(k)}
<1>9. 0 \in T
  <2>1. g[0].done = <<>> /\ g[0].from = 0 BY <1>2 DEF NotPacked
  <2>2. <<>> \in Seq(S) /\ 0 \in 0..n OBVIOUS
  <2>3. 0 \in 0..0 /\ ~ (0 > 0) OBVIOUS
  <2>4. Good(0) BY <2>1, <2>2, <2>3, <1>8, GistEmpty
  <2>5. QED BY <2>2, <2>4
<1>10. ASSUME NEW d \in Seq(S), NEW e \in Seq(S) PROVE d \o e \in Seq(S) /\ Gist(d \o e) = Gist(d) \o Gist(e)
  <2>1. d \in Seq(AnyChunk) /\ e \in Seq(AnyChunk) BY SeqMonotonic
  <2>2. d \o e \in Seq(S) BY ConcatProperties
  <2>3. QED BY <2>1, <2>2, GistConcat
<1>11. ASSUME NEW d \in Seq(S), NEW i \in 1..n, NEW k \in i..n, Gist(d) = Upto(i - 1), ~Over(whole[<<i, k>>])
       PROVE  Append(d, whole[<<i, k>>]) \in Seq(S) /\ Gist(Append(d, whole[<<i, k>>])) = Upto(k)
  <2> DEFINE w == whole[<<i, k>>]
  <2>1. k \in 1..n /\ i <= k OBVIOUS
  <2>2. w \in AnyChunk /\ Body(w.text) = Seqs!FlattenSeq(SubSeq(words, i, k)) /\ w \in S BY <1>4, <1>11, <2>1
  <2> HIDE DEF w
  <2>3. Append(d, w) = d \o <<w>> BY <2>2, AppendIsConcat
  <2>4. <<w>> \in Seq(S) BY <2>2
  <2>5. Gist(<<w>>) = Body(w.text) BY <2>2, GistOne
  <2>6. Gist(d \o <<w>>) = Gist(d) \o Gist(<<w>>) /\ d \o <<w>> \in Seq(S) BY <1>10, <2>4
  <2>7. QED BY <1>7, <1>11, <2>2, <2>3, <2>5, <2>6 DEF w
<1>12. ASSUME NEW m \in 0..(n - 1), m \in T PROVE m + 1 \in T
  <2> DEFINE k == m + 1
             p == g[m]
             full == p.from > 0 /\ Over(whole[<<p.from, k>>])
             done == IF full THEN Append(p.done, whole[<<p.from, k - 1>>]) ELSE p.done
             from == IF full \/ p.from = 0 THEN k ELSE p.from
  <2>1. k \in 1..n /\ k - 1 = m /\ k \in 0..n OBVIOUS
  <2>2. /\ p.done \in Seq(S) /\ p.from \in 0..m
        /\ p.from = 0 => Gist(p.done) = Upto(m)
        /\ p.from > 0 => Gist(p.done) = Upto(p.from - 1) /\ ~Over(whole[<<p.from, m>>])
    BY <1>12
  <2>3. g[k] = IF from = k /\ Over(whole[<<k, k>>]) THEN [done |-> done \o finer[k], from |-> 0]
               ELSE [done |-> done, from |-> from]
    <3>1. g[k] = Place(p, k, whole, finer) BY <1>2, <2>1
    <3> HIDE DEF p, k
    <3>2. QED BY <3>1 DEF Place
  <2> HIDE DEF k, p
  \* The chunk of the open groups is complete when the next one does not fit.
  <2>4. /\ done \in Seq(S)
        /\ from = k => Gist(done) = Upto(m)
        /\ from # k => from \in 1..m /\ Gist(done) = Upto(from - 1) /\ ~Over(whole[<<from, k>>])
    <3>1. CASE full
      <4>1. p.from \in 1..n /\ m \in (p.from)..n BY <2>2, <3>1
      <4>2. Append(p.done, whole[<<p.from, m>>]) \in Seq(S) /\ Gist(Append(p.done, whole[<<p.from, m>>])) = Upto(m)
        <5> DEFINE x == p.from
        <5>1. x \in 1..n /\ m \in x..n /\ Gist(p.done) = Upto(x - 1) /\ ~Over(whole[<<x, m>>]) BY <2>2, <3>1, <4>1
        <5> HIDE DEF x
        <5>2. Append(p.done, whole[<<x, m>>]) \in Seq(S) /\ Gist(Append(p.done, whole[<<x, m>>])) = Upto(m)
          BY <1>11, <2>2, <5>1
        <5>3. QED BY <5>2 DEF x
      <4>3. done = Append(p.done, whole[<<p.from, m>>]) /\ from = k BY <2>1, <3>1
      <4> HIDE DEF done, from
      <4>4. QED BY <4>2, <4>3
    <3>2. CASE ~full /\ p.from = 0 BY <2>2, <3>2
    <3>3. CASE ~full /\ p.from # 0
      <4>1. p.from \in 1..m /\ p.from # k /\ p.from > 0 BY <2>1, <2>2, <3>3
      <4>2. done = p.done /\ from = p.from BY <3>3
      <4>3. ~Over(whole[<<p.from, k>>]) BY <3>3, <4>1
      <4> HIDE DEF done, from, full
      <4>4. QED BY <2>2, <4>1, <4>2, <4>3
    <3>4. QED BY <3>1, <3>2, <3>3
  <2> HIDE DEF full, done, from
  <2>5. CASE from = k /\ Over(whole[<<k, k>>])
    <3>1. finer[k] \in Seq(S) /\ Gist(finer[k]) = words[k] BY <1>5, <2>1, <2>5
    <3>2. done \o finer[k] \in Seq(S) /\ Gist(done \o finer[k]) = Upto(m) \o words[k] BY <1>10, <2>4, <2>5, <3>1
    <3>3. Upto(k) = Upto(m) \o words[k] BY <1>6, <2>1
    <3>4. g[k] = [done |-> done \o finer[k], from |-> 0] BY <2>3, <2>5
    <3>5. g[k].done = done \o finer[k] /\ g[k].from = 0 BY <3>4
    <3>6. 0 \in 0..k /\ ~ (0 > 0) BY <2>1
    <3>7. Good(k) BY <3>2, <3>3, <3>5, <3>6
    <3>8. QED BY <2>1, <3>7 DEF k
  <2>6. CASE ~ (from = k /\ Over(whole[<<k, k>>]))
    <3>1. g[k] = [done |-> done, from |-> from] BY <2>3, <2>6
    <3>2. g[k].done = done /\ g[k].from = from BY <3>1
    <3>3. from \in 1..k
      <4>1. CASE from = k BY <2>1, <4>1
      <4>2. CASE from # k BY <2>1, <2>4, <4>2
      <4>3. QED BY <4>1, <4>2
    <3>4. Gist(done) = Upto(from - 1) /\ ~Over(whole[<<from, k>>])
      <4>1. CASE from = k BY <2>1, <2>4, <2>6, <4>1
      <4>2. CASE from # k BY <2>4, <4>2
      <4>3. QED BY <4>1, <4>2
    <3>5. from \in 0..k /\ from # 0 BY <2>1, <3>3
    <3>6. Good(k) BY <2>4, <3>2, <3>4, <3>5
    <3>7. QED BY <2>1, <3>6 DEF k
  <2>7. QED BY <2>5, <2>6
<1>13. Good(n)
  <2>1. n \in T
    <3> HIDE DEF T
    <3>1. QED BY <1>9, <1>12, Induction
  <2>2. QED BY <2>1
<1>14. CASE g[n].from = 0
  <2>1. Pack(n, whole, finer) = g[n].done BY <1>2, <1>14
  <2>2. QED BY <1>8, <1>13, <1>14, <2>1
<1>15. CASE g[n].from # 0
  <2> DEFINE x == g[n].from
             d == g[n].done
  <2>1. x \in 1..n /\ n \in x..n /\ d \in Seq(S) /\ Gist(d) = Upto(x - 1) /\ ~Over(whole[<<x, n>>]) BY <1>13, <1>15
  <2>2. Pack(n, whole, finer) = Append(d, whole[<<x, n>>]) BY <1>2, <1>15
  <2> HIDE DEF x, d
  <2>3. QED BY <1>8, <1>11, <2>1, <2>2
<1>16. QED BY <1>14, <1>15

(***************************************************************************)
(* Groups                                                                  *)
(***************************************************************************)
\* To replace the last item is to append another to the front.
LEMMA ExceptLast ==
  ASSUME NEW X, NEW g \in Seq(X), g # <<>>, NEW e \in X
  PROVE  LET front == SubSeq(g, 1, Len(g) - 1)
         IN /\ front \in Seq(X) /\ g[Len(g)] \in X
            /\ g = Append(front, g[Len(g)])
            /\ [g EXCEPT ![Len(g)] = e] = Append(front, e)
<1> DEFINE n == Len(g)
           front == SubSeq(g, 1, n - 1)
           x == [g EXCEPT ![n] = e]
           a == Append(front, e)
<1>1. n \in Nat /\ n \in 1..n /\ n >= 1 OBVIOUS
<1>2. SubSeq(g, 1, n) = Append(front, g[n]) /\ front \in Seq(X) /\ g[n] \in X BY <1>1, PrefixParts
<1>3. SubSeq(g, 1, n) = g BY SubSeqFull
<1>4. Len(front) = n - 1 /\ \A i \in 1..(n - 1) : front[i] = g[i]
  <2>1. 1 \in Int /\ n - 1 \in Int /\ \A i \in 1..(n - 1) : g[i] \in X BY <1>1
  <2>2. /\ Len(front) = IF 1 <= n - 1 THEN (n - 1) - 1 + 1 ELSE 0
        /\ \A i \in 1..((n - 1) - 1 + 1) : front[i] = g[1 + i - 1]
    BY <2>1, SubSeqProperties
  <2> HIDE DEF front, n
  <2>3. (n - 1) - 1 + 1 = n - 1 /\ (1 <= n - 1 \/ n - 1 = 0) BY <1>1
  <2>4. Len(front) = n - 1 BY <2>2, <2>3
  <2>5. ASSUME NEW i \in 1..(n - 1) PROVE front[i] = g[i]
    <3>1. 1 + i - 1 = i BY <1>1
    <3>2. QED BY <2>2, <2>3, <3>1
  <2>6. QED BY <2>4, <2>5
<1>5. x \in Seq(X) /\ Len(x) = n /\ \A i \in 1..n : x[i] = IF i = n THEN e ELSE g[i] BY <1>1, ExceptSeq
<1> HIDE DEF front, x, n
<1>6. a \in Seq(X) /\ Len(a) = n /\ a[n] = e /\ \A i \in 1..(n - 1) : a[i] = front[i]
  <2>1. /\ a \in Seq(X) /\ Len(a) = Len(front) + 1 /\ (\A i \in 1..Len(front) : a[i] = front[i]) /\ a[Len(front) + 1] = e
    BY <1>2, AppendProperties
  <2>2. (n - 1) + 1 = n BY <1>1
  <2>3. QED BY <1>4, <2>1, <2>2
<1> HIDE DEF a
<1>7. ASSUME NEW i \in 1..n PROVE x[i] = a[i]
  <2>1. CASE i = n BY <2>1, <1>5, <1>6
  <2>2. CASE i # n
    <3>1. i \in 1..(n - 1) BY <2>2, <1>1
    <3>2. QED BY <2>2, <3>1, <1>4, <1>5, <1>6
  <2>3. QED BY <2>1, <2>2
<1>8. x = a BY <1>5, <1>6, <1>7, SeqEqual
<1>9. QED BY <1>2, <1>3, <1>8 DEF front, x, a, n

\* The groups made so far of a sequence of items.
GroupTraces(S, items, starts) ==
  {g \in [0..Len(items) -> Seq(Seq(S))] :
     /\ g[0] = <<>>
     /\ \A k \in 1..Len(items) : g[k] = Take(g[k - 1], k, items, starts)
     /\ Grouped(items, starts) = g[Len(items)]}

\* The groups made so far form a trace.
LEMMA GroupSteps ==
  ASSUME NEW S, NEW items \in Seq(S), NEW starts
  PROVE  \E g : g \in GroupTraces(S, items, starts)
<1> DEFINE n == Len(items)
           V == Seq(Seq(S))
           h == [p \in V \X (1..n) |-> Take(p[1], p[2], items, starts)]
           r == [k \in 1..n |-> k]
<1>0. n \in Nat /\ DOMAIN items = 1..n /\ \A k \in 1..n : items[k] \in S OBVIOUS
<1>1. <<>> \in V OBVIOUS
<1>2. ASSUME NEW g \in V, NEW k \in 1..n PROVE Take(g, k, items, starts) \in V
  <2>1. items[k] \in S /\ <<items[k]>> \in Seq(S) BY <1>0
  <2>2. Append(g, <<items[k]>>) \in V BY <2>1, AppendProperties
  <2>3. [g EXCEPT ![Len(g)] = Append(@, items[k])] \in V
    <3>1. CASE g = <<>>
      <4>1. Len(g) \notin DOMAIN g BY <3>1
      <4>2. [g EXCEPT ![Len(g)] = Append(@, items[k])] = g BY <4>1
      <4>3. QED BY <4>2
    <3>2. CASE g # <<>>
      <4> DEFINE e == Append(g[Len(g)], items[k])
      <4>1. Len(g) \in 1..Len(g) /\ g[Len(g)] \in Seq(S) BY <3>2
      <4>2. e \in Seq(S) BY <2>1, <4>1, AppendProperties
      <4> HIDE DEF e
      <4>3. [g EXCEPT ![Len(g)] = e] \in Seq(Seq(S)) BY <4>1, <4>2, ExceptSeq
      <4>4. QED BY <4>3 DEF e
    <3>3. QED BY <3>1, <3>2
  <2>4. QED BY <2>2, <2>3 DEF Take
<1>3. h \in StepsOn(V, n)
  <2> HIDE DEF V
  <2>1. \A p \in V \X (1..n) : p[1] \in V /\ p[2] \in 1..n OBVIOUS
  <2>2. \A p \in V \X (1..n) : Take(p[1], p[2], items, starts) \in V BY <1>2, <2>1
  <2>3. QED BY <2>2 DEF StepsOn
<1>4. PICK f : f \in FoldsOver(V, n, <<>>, h)
  <2> HIDE DEF h, V, n
  <2>1. QED BY <1>0, <1>1, <1>3, FoldSteps
<1>5. \A v \in V, k \in 1..n : h[<<v, k>>] = Take(v, k, items, starts)
  <2> HIDE DEF V
  <2>1. QED OBVIOUS
<1>6. /\ f \in [SUBSET (1..n) -> V] /\ f[{}] = <<>>
      /\ \A t \in SUBSET (1..n) :
           t # {} => /\ Seqs!Max(t) \in 1..n /\ t \ {Seqs!Max(t)} \in SUBSET (1..n)
                     /\ f[t] = Take(f[t \ {Seqs!Max(t)}], Seqs!Max(t), items, starts)
      /\ \A k \in 1..n : f[1..k] = Take(f[1..(k - 1)], k, items, starts)
  <2>1. /\ f \in [SUBSET (1..n) -> V] /\ f[{}] = <<>>
        /\ \A t \in SUBSET (1..n) :
             t # {} => /\ Seqs!Max(t) \in 1..n /\ t \ {Seqs!Max(t)} \in SUBSET (1..n)
                       /\ f[t] = h[<<f[t \ {Seqs!Max(t)}], Seqs!Max(t)>>]
        /\ \A k \in 1..n : f[1..k] = h[<<f[1..(k - 1)], k>>]
    <3> HIDE DEF h, V
    <3>1. QED BY <1>4 DEF FoldsOver
  <2>2. \A k \in 1..n : 1..(k - 1) \in SUBSET (1..n) OBVIOUS
  <2> HIDE DEF h, V
  <2>3. QED BY <2>1, <2>2, <1>5
<1> DEFINE Iter(i) == i = [t \in SUBSET (1..n) |-> IF t = {} THEN <<>>
                                                   ELSE Take(i[t \ {Seqs!Max(t)}], r[Seqs!Max(t)], items, starts)]
           c == CHOOSE i : Iter(i)
<1>7. Grouped(items, starts) = c[1..n]
  <2>1. DOMAIN [k \in 1..n |-> k] = 1..n OBVIOUS
  <2>2. QED BY <1>0, <2>1 DEF Grouped, Seqs!FoldLeftDomain, Seqs!FoldLeft, Seqs!MapThenFoldSet
<1>8. Iter(c)
  <2>1. \A t \in SUBSET (1..n) : f[t] = IF t = {} THEN <<>>
                                        ELSE Take(f[t \ {Seqs!Max(t)}], r[Seqs!Max(t)], items, starts)
    BY <1>6
  <2>2. Iter(f)
    <3> HIDE DEF h, V, r, n
    <3>1. f = [t \in SUBSET (1..n) |-> f[t]] BY <1>6
    <3>2. QED BY <2>1, <3>1
  <2> HIDE DEF Iter
  <2>3. QED BY <2>2
<1>9. /\ c[{}] = <<>>
      /\ \A t \in SUBSET (1..n) : t # {} => c[t] = Take(c[t \ {Seqs!Max(t)}], Seqs!Max(t), items, starts)
  <2>1. \A t \in SUBSET (1..n) : t # {} => r[Seqs!Max(t)] = Seqs!Max(t) BY <1>6
  <2> HIDE DEF c, r
  <2>2. QED BY <1>8, <2>1
<1>10. c[1..n] = f[1..n]
  <2>1. ASSUME NEW t \in SUBSET (1..n), t # {}, c[t \ {Seqs!Max(t)}] \in V
        PROVE  c[t] = h[<<c[t \ {Seqs!Max(t)}], Seqs!Max(t)>>]
    <3> HIDE DEF c, h, V, n
    <3>1. QED BY <1>5, <1>6, <1>9, <2>1
  <2> HIDE DEF c, h, V, n
  <2>2. Follows(c, n, V, <<>>, h) BY <1>9, <2>1 DEF Follows
  <2>3. QED BY <1>0, <1>1, <1>3, <1>4, <2>2, FoldValue
<1> DEFINE g == [k \in 0..n |-> f[1..k]]
<1>11. g \in [0..n -> V] /\ g[0] = <<>> /\ (\A k \in 1..n : g[k] = Take(g[k - 1], k, items, starts)) /\ g[n] = f[1..n]
  <2>1. \A k \in 0..n : 1..k \in SUBSET (1..n) OBVIOUS
  <2>2. \A k \in 1..n : k \in 0..n /\ k - 1 \in 0..n OBVIOUS
  <2>3. 1..0 = {} /\ 0 \in 0..n /\ n \in 0..n OBVIOUS
  <2> HIDE DEF c, h, V, n
  <2>4. QED BY <1>6, <2>1, <2>2, <2>3
<1> HIDE DEF c, h, g
<1>12. g \in GroupTraces(S, items, starts) BY <1>7, <1>10, <1>11 DEF GroupTraces
<1>13. QED BY <1>12

NonEmpty(S) == Seq(S) \ {<<>>}

\* The groups are not empty, and one after the other they are the items.
LEMMA GroupedItems ==
  ASSUME NEW S, NEW items \in Seq(S), NEW starts
  PROVE  /\ Grouped(items, starts) \in Seq(NonEmpty(S)) /\ Grouped(items, starts) \in Seq(Seq(S))
         /\ Seqs!FlattenSeq(Grouped(items, starts)) = items
<1> DEFINE n == Len(items)
           Before(k) == SubSeq(items, 1, k)
<1>1. n \in Nat /\ \A k \in 1..n : items[k] \in S OBVIOUS
<1>2. PICK g : g \in GroupTraces(S, items, starts) BY GroupSteps
<1>3. /\ g \in [0..n -> Seq(Seq(S))] /\ g[0] = <<>>
      /\ \A k \in 1..n : g[k] = Take(g[k - 1], k, items, starts)
      /\ Grouped(items, starts) = g[n]
  BY <1>2 DEF GroupTraces
<1>4. ASSUME NEW k \in 1..n
      PROVE  Before(k) = Append(Before(k - 1), items[k]) /\ Before(k - 1) \in Seq(S) /\ items[k] \in S
  BY PrefixParts
<1>5. Before(0) = <<>> /\ Before(n) = items OBVIOUS
<1> HIDE DEF n, Before
<1> DEFINE Good(k) == g[k] \in Seq(NonEmpty(S)) /\ (k > 0 => g[k] # <<>>) /\ Seqs!FlattenSeq(g[k]) = Before(k)
           T == {k \in 0..n : Good(k)}
<1>6. 0 \in T
  <2>1. <<>> \in Seq(NonEmpty(S)) /\ ~ (0 > 0) /\ 0 \in 0..n BY <1>1
  <2>2. QED BY <2>1, <1>3, <1>5, FlattenEmpty
<1>7. ASSUME NEW m \in 0..(n - 1), m \in T PROVE m + 1 \in T
  <2> DEFINE k == m + 1
             x == items[k]
             p == g[m]
             a == Append(p, <<x>>)
             e == Append(p[Len(p)], x)
             w == [p EXCEPT ![Len(p)] = e]
  <2>1. k \in 1..n /\ k - 1 = m /\ k \in 0..n /\ m \in 0..n BY <1>1
  <2>2. p \in Seq(NonEmpty(S)) /\ (m > 0 => p # <<>>) /\ Seqs!FlattenSeq(p) = Before(m) /\ p \in Seq(Seq(S))
    BY <1>3, <1>7, <2>1
  <2>3. x \in S /\ Before(k) = Append(Before(m), x) /\ Before(m) \in Seq(S) BY <1>4, <2>1
  <2>4. g[k] = IF k > 1 /\ k \notin starts THEN w ELSE a
    <3>1. g[k] = Take(p, k, items, starts) BY <1>3, <2>1
    <3>2. QED BY <3>1 DEF Take
  <2> HIDE DEF k, x, p
  <2>5. a \in Seq(NonEmpty(S)) /\ a # <<>> /\ Seqs!FlattenSeq(a) = Before(k)
    <3>1. <<x>> \in Seq(S) /\ <<x>> \in NonEmpty(S) BY <2>3 DEF NonEmpty
    <3>2. a \in Seq(NonEmpty(S)) BY <2>2, <3>1, AppendProperties
    <3>3. a # <<>> BY <2>2, <3>1, AppendProperties
    <3>4. Seqs!FlattenSeq(a) = Seqs!FlattenSeq(p) \o <<x>> BY <2>2, <3>1, FlattenAppend
    <3>5. Before(m) \o <<x>> = Append(Before(m), x) BY <2>3, AppendIsConcat
    <3> HIDE DEF a
    <3>6. QED BY <2>2, <2>3, <3>2, <3>3, <3>4, <3>5
  <2>6. CASE k > 1 /\ k \notin starts
    <3>1. p # <<>> BY <2>1, <2>2, <2>6
    <3> DEFINE front == SubSeq(p, 1, Len(p) - 1)
               last == p[Len(p)]
    <3>2. last \in NonEmpty(S)
      <4>1. Len(p) \in 1..Len(p) BY <2>2, <3>1
      <4>2. QED BY <2>2, <4>1
    <3>3. last \in Seq(S) BY <3>2 DEF NonEmpty
    <3>4. e \in Seq(S) /\ e \in NonEmpty(S)
      <4> HIDE DEF last
      <4>1. Append(last, x) \in Seq(S) /\ Append(last, x) # <<>> BY <2>3, <3>3
      <4>2. QED BY <4>1 DEF last, NonEmpty
    <3>5. front \in Seq(NonEmpty(S)) /\ p = Append(front, last) /\ w = Append(front, e)
      <4> HIDE DEF e
      <4>1. QED BY <2>2, <3>1, <3>4, ExceptLast
    <3>6. front \in Seq(Seq(S))
      <4>1. NonEmpty(S) \subseteq Seq(S) BY DEF NonEmpty
      <4> HIDE DEF front
      <4>2. QED BY <3>5, <4>1, SeqMonotonic
    <3>7. e = last \o <<x>>
      <4> HIDE DEF last
      <4>1. Append(last, x) = last \o <<x>> BY <2>3, <3>3, AppendIsConcat
      <4>2. QED BY <4>1 DEF last
    <3> HIDE DEF front, last, e, w
    <3>8. w \in Seq(NonEmpty(S)) /\ w # <<>>
      <4>1. Append(front, e) \in Seq(NonEmpty(S)) BY <3>4, <3>5, AppendProperties
      <4>2. Append(front, e) # <<>> BY <3>4, <3>5
      <4>3. QED BY <3>5, <4>1, <4>2
    <3>9. Seqs!FlattenSeq(w) = Seqs!FlattenSeq(front) \o e /\ Seqs!FlattenSeq(p) = Seqs!FlattenSeq(front) \o last
      BY <3>3, <3>4, <3>5, <3>6, FlattenAppend
    <3>10. Seqs!FlattenSeq(front) \in Seq(S) /\ <<x>> \in Seq(S) BY <2>3, <3>6, FlattenType
    <3>11. Seqs!FlattenSeq(front) \o (last \o <<x>>) = (Seqs!FlattenSeq(front) \o last) \o <<x>>
      <4> DEFINE u == Seqs!FlattenSeq(front)
                 v == <<x>>
      <4>1. u \in Seq(S) /\ v \in Seq(S) BY <3>10
      <4> HIDE DEF u, v
      <4>2. u \o (last \o v) = (u \o last) \o v BY <3>3, <4>1, Regroup
      <4>3. QED BY <4>2 DEF u, v
    <3>12. Before(m) \o <<x>> = Append(Before(m), x) BY <2>3, AppendIsConcat
    <3>13. Seqs!FlattenSeq(w) = Before(k) BY <2>2, <2>3, <3>7, <3>9, <3>11, <3>12
    <3>14. g[k] = w BY <2>4, <2>6
    <3>15. Good(k) BY <3>8, <3>13, <3>14
    <3>16. QED BY <2>1, <3>15 DEF k
  <2>7. CASE ~ (k > 1 /\ k \notin starts)
    <3>1. g[k] = a BY <2>4, <2>7
    <3> HIDE DEF a
    <3>2. Good(k) BY <2>5, <3>1
    <3>3. QED BY <2>1, <3>2 DEF k
  <2>8. QED BY <2>6, <2>7
<1>8. Good(n)
  <2>1. n \in T
    <3> HIDE DEF T
    <3>1. QED BY <1>1, <1>6, <1>7, Induction
  <2>2. QED BY <2>1
<1>9. n \in 0..n BY <1>1
<1>10. QED BY <1>3, <1>5, <1>8, <1>9

(***************************************************************************)
(* Pieces                                                                  *)
(***************************************************************************)
\* The smaller of two numbers.
LEMMA MinPair ==
  ASSUME NEW x \in Nat, NEW y \in Nat
  PROVE  Seqs!Min({x, y}) = IF x <= y THEN x ELSE y
<1>1. \E m \in {x, y} : \A z \in {x, y} : m <= z OBVIOUS
<1>2. Seqs!Min({x, y}) \in {x, y} /\ \A z \in {x, y} : Seqs!Min({x, y}) <= z BY <1>1 DEF Seqs!Min
<1>3. QED BY <1>2

\* The type, the length and the items of a part of a sequence.
LEMMA SubSeqType ==
  ASSUME NEW S, NEW t \in Seq(S), NEW a \in Nat \ {0}, NEW b \in 0..Len(t), a <= b + 1
  PROVE  /\ SubSeq(t, a, b) \in Seq(S) /\ Len(SubSeq(t, a, b)) = b - a + 1
         /\ \A i \in 1..(b - a + 1) : SubSeq(t, a, b)[i] = t[a + i - 1]
<1>1. a \in Int /\ b \in Int /\ Len(t) \in Nat OBVIOUS
<1>2. \A i \in a..b : t[i] \in S
  <2>1. \A i \in a..b : i \in 1..Len(t) BY <1>1
  <2>2. QED BY <2>1
<1>3. /\ SubSeq(t, a, b) \in Seq(S)
      /\ Len(SubSeq(t, a, b)) = IF a <= b THEN b - a + 1 ELSE 0
      /\ \A i \in 1..(b - a + 1) : SubSeq(t, a, b)[i] = t[a + i - 1]
  BY <1>1, <1>2, SubSeqProperties
<1>4. a <= b \/ b - a + 1 = 0 BY <1>1
<1>5. QED BY <1>3, <1>4

\* The pieces of a text are short, full but for the last, and one after the other the text.
LEMMA PiecesOf ==
  ASSUME NEW S, NEW t \in Seq(S), NEW n \in Nat \ {0}
  PROVE  /\ Pieces(t, n) \in Seq(Seq(S))
         /\ \A k \in 1..Len(Pieces(t, n)) :
              /\ Len(Pieces(t, n)[k]) \in Nat /\ Len(Pieces(t, n)[k]) <= n
              /\ \E a \in 1..Len(t) : \E b \in a..Len(t) :
                   /\ Pieces(t, n)[k] = SubSeq(t, a, b) /\ b - a < n
                   /\ b - a = n - 1 \/ b = Len(t)
         /\ Seqs!FlattenSeq(Pieces(t, n)) = t
<1> DEFINE l == Len(t)
           m == (l + n - 1) \div n
           Last(k) == IF k * n <= l THEN k * n ELSE l
           p == Pieces(t, n)
<1>1. l \in Nat /\ m \in Nat /\ m * n <= l + n - 1 /\ l + n - 1 < m * n + n OBVIOUS
<1>2. ASSUME NEW k \in Nat PROVE k * n \in Nat /\ Last(k) \in 0..l
  <2>1. k * n \in Nat OBVIOUS
  <2>2. QED BY <2>1, <1>1
<1>3. ASSUME NEW k \in 1..m PROVE (k - 1) * n \in Nat /\ (k - 1) * n < l /\ k * n = (k - 1) * n + n
  <2>1. k - 1 \in Nat /\ k * n = (k - 1) * n + n /\ k * n <= m * n BY <1>1
  <2>2. (k - 1) * n \in Nat BY <2>1
  <2>3. QED BY <1>1, <2>1, <2>2
<1>4. p = [k \in 1..m |-> SubSeq(t, (k - 1) * n + 1, Last(k))]
  <2>1. ASSUME NEW k \in 1..m PROVE Seqs!Min({k * n, l}) = Last(k)
    <3>1. k \in Nat BY <1>1
    <3>2. k * n \in Nat BY <1>2, <3>1
    <3>3. QED BY <1>1, <3>2, MinPair
  <2>2. p = [k \in 1..m |-> SubSeq(t, (k - 1) * n + 1, Seqs!Min({k * n, l}))] BY DEF Pieces
  <2> HIDE DEF p, l, m, Last
  <2>3. QED BY <2>1, <2>2
<1> HIDE DEF p, m
<1>5. ASSUME NEW k \in 1..m
      PROVE  /\ p[k] = SubSeq(t, (k - 1) * n + 1, Last(k)) /\ p[k] \in Seq(S) /\ Len(p[k]) \in Nat /\ Len(p[k]) <= n
             /\ (k - 1) * n + 1 \in 1..l /\ Last(k) \in ((k - 1) * n + 1)..l /\ Last(k) - ((k - 1) * n + 1) < n
             /\ Last(k) - ((k - 1) * n + 1) = n - 1 \/ Last(k) = l
  <2> DEFINE x == (k - 1) * n
             y == k * n
             z == Last(k)
  <2>1. x \in Nat /\ x < l /\ y = x + n BY <1>3
  <2>2. z = IF y <= l THEN y ELSE l OBVIOUS
  <2>3. p[k] = SubSeq(t, x + 1, z) BY <1>4
  <2> HIDE DEF x, y, z, l
  <2>4. x + 1 \in 1..l /\ z \in (x + 1)..l /\ z - (x + 1) < n /\ (z - (x + 1) = n - 1 \/ z = l) BY <1>1, <2>1, <2>2
  <2>5. p[k] \in Seq(S) /\ Len(p[k]) = z - (x + 1) + 1
    <3>1. x + 1 \in Nat \ {0} /\ z \in 0..Len(t) /\ x + 1 <= z + 1 BY <1>1, <2>1, <2>4 DEF l
    <3> DEFINE a == x + 1
    <3>2. a \in Nat \ {0} /\ a <= z + 1 /\ p[k] = SubSeq(t, a, z) BY <2>3, <3>1
    <3> HIDE DEF a, p
    <3>3. QED BY <3>1, <3>2, SubSeqType DEF a
  <2>6. Len(p[k]) \in Nat /\ Len(p[k]) <= n BY <1>1, <2>1, <2>4, <2>5
  <2>7. QED BY <2>3, <2>4, <2>5, <2>6 DEF x, z
<1>6. p \in Seq(Seq(S)) /\ Len(p) = m
  <2> DEFINE X == Seq(S)
  <2>1. p = [k \in 1..m |-> p[k]] BY <1>4
  <2>2. \A k \in 1..m : p[k] \in X BY <1>5
  <2>3. m \in Nat BY <1>1
  <2> HIDE DEF X, l, Last
  <2>4. p \in Seq(X) /\ Len(p) = m BY <2>1, <2>2, <2>3
  <2>5. QED BY <2>4 DEF X
<1>7. Seqs!FlattenSeq(p) = t
  <2>1. PICK g \in [0..m -> Seq(S)] : /\ g[0] = <<>> /\ \A k \in 1..m : g[k] = g[k - 1] \o p[k]
                                      /\ Seqs!FlattenSeq(p) = g[m]
    BY <1>6, FlattenSteps
  <2> DEFINE T == {k \in 0..m : g[k] = SubSeq(t, 1, Last(k))}
  <2>2. 0 \in T
    <3>1. 0 * n = 0 /\ 0 <= l BY <1>1
    <3>2. Last(0) = 0 BY <3>1
    <3>3. SubSeq(t, 1, 0) = <<>> OBVIOUS
    <3>4. 0 \in 0..m BY <1>1
    <3>5. QED BY <2>1, <3>2, <3>3, <3>4
  <2>3. ASSUME NEW j \in 0..(m - 1), j \in T PROVE j + 1 \in T
    <3> DEFINE x == j * n
               z == Last(j + 1)
    <3>1. j + 1 \in 1..m /\ (j + 1) - 1 = j /\ j + 1 \in 0..m BY <1>1
    <3>2. g[j + 1] = g[j] \o p[j + 1] BY <2>1, <3>1
    <3>3. x \in Nat /\ x < l /\ p[j + 1] = SubSeq(t, x + 1, z) /\ z \in (x + 1)..l BY <1>3, <1>5, <3>1
    <3>4. Last(j) = x BY <3>3
    <3>5. g[j] = SubSeq(t, 1, x) BY <2>3, <3>4
    <3> HIDE DEF x, z, Last
    <3>6. SubSeq(t, 1, x) \o SubSeq(t, x + 1, z) = SubSeq(t, 1, z)
      <4>1. 1 \in 1..(l + 1) /\ x \in (1 - 1)..l /\ z \in x..l BY <1>1, <3>3
      <4>2. QED BY <4>1, ConcatAdjacentSubSeq
    <3>7. g[j + 1] = SubSeq(t, 1, Last(j + 1)) BY <3>2, <3>3, <3>5, <3>6 DEF z
    <3>8. QED BY <3>1, <3>7
  <2>4. m \in T
    <3> HIDE DEF T
    <3>1. QED BY <1>1, <2>2, <2>3, Induction
  <2>5. Last(m) = l
    <3>1. m * n \in Nat /\ m * n >= l BY <1>1, <1>2
    <3>2. QED BY <1>1, <3>1
  <2>6. SubSeq(t, 1, l) = t OBVIOUS
  <2>7. QED BY <2>1, <2>4, <2>5, <2>6
<1>8. ASSUME NEW k \in 1..m
      PROVE  /\ Len(p[k]) \in Nat /\ Len(p[k]) <= n
             /\ \E a \in 1..l : \E b \in a..l :
                  /\ p[k] = SubSeq(t, a, b) /\ b - a < n
                  /\ b - a = n - 1 \/ b = l
  <2> DEFINE a == (k - 1) * n + 1
             b == Last(k)
  <2>1. /\ p[k] = SubSeq(t, a, b) /\ Len(p[k]) \in Nat /\ Len(p[k]) <= n
        /\ a \in 1..l /\ b \in a..l /\ b - a < n
        /\ b - a = n - 1 \/ b = l
    BY <1>5
  <2> HIDE DEF a, b
  <2>2. QED BY <2>1
<1>9. QED BY <1>6, <1>7, <1>8 DEF p, l

(***************************************************************************)
(* Words of items and of groups of them                                    *)
(***************************************************************************)
\* The texts of items, one after the other, and those of each group of items.
Worded(f, s)  == Seqs!FlattenSeq(Mapped(f, s))
PerGroup(f, gs) == [k \in DOMAIN gs |-> Worded(f, gs[k])]

\* Values along a part of a sequence.
LEMMA SubSeqOfMapped ==
  ASSUME NEW S, NEW T, NEW f \in Maps(S, T), NEW s \in Seq(S), NEW i \in 1..Len(s), NEW j \in i..Len(s)
  PROVE  Mapped(f, SubSeq(s, i, j)) = SubSeq(Mapped(f, s), i, j)
<1> DEFINE n == Len(s)
           a == SubSeq(s, i, j)
           m == Mapped(f, s)
           u == Mapped(f, a)
           v == SubSeq(m, i, j)
           d == j - i + 1
<1>1. n \in Nat /\ i \in Nat \ {0} /\ j \in 0..n /\ i <= j + 1 /\ d \in Nat OBVIOUS
<1>2. m \in Seq(T) /\ Len(m) = n /\ \A k \in 1..n : m[k] = f[s[k]] BY MappedType
<1> HIDE DEF m
<1>3. a \in Seq(S) /\ Len(a) = d /\ \A k \in 1..d : a[k] = s[i + k - 1] BY <1>1, SubSeqType
<1>4. v \in Seq(T) /\ Len(v) = d /\ \A k \in 1..d : v[k] = m[i + k - 1]
  <2> HIDE DEF n
  <2>1. j \in 0..Len(m) BY <1>1, <1>2
  <2>2. QED BY <1>1, <1>2, <2>1, SubSeqType
<1> HIDE DEF a, v
<1>5. u \in Seq(T) /\ Len(u) = d /\ \A k \in 1..d : u[k] = f[a[k]]
  <2> HIDE DEF d
  <2>1. u \in Seq(T) /\ Len(u) = Len(a) /\ \A k \in 1..Len(a) : u[k] = f[a[k]] BY <1>3, MappedType
  <2> HIDE DEF u
  <2>2. QED BY <1>3, <2>1
<1> HIDE DEF u
<1>6. ASSUME NEW k \in 1..d PROVE u[k] = v[k]
  <2>1. i + k - 1 \in 1..n BY <1>1
  <2>2. QED BY <2>1, <1>2, <1>3, <1>4, <1>5
<1> HIDE DEF d
<1>7. u = v BY <1>1, <1>4, <1>5, <1>6, SeqEqual
<1>8. QED BY <1>7 DEF u, v, m, a

\* The words of items are of the type of their words.
LEMMA WordedType ==
  ASSUME NEW S, NEW X, NEW f \in Maps(S, Seq(X)), NEW s \in Seq(S)
  PROVE  Worded(f, s) \in Seq(X)
<1> DEFINE m == Mapped(f, s)
           V == Seq(X)
<1>1. m \in Seq(V)
  <2> HIDE DEF V
  <2>1. f \in Maps(S, V) BY DEF V
  <2>2. QED BY <2>1, MappedType
<1> HIDE DEF m
<1>2. Seqs!FlattenSeq(m) \in Seq(X) BY <1>1, FlattenType
<1>3. QED BY <1>2 DEF Worded, m

\* The words of two sequences of items follow each other.
LEMMA WordedConcat ==
  ASSUME NEW S, NEW X, NEW f \in Maps(S, Seq(X)), NEW a \in Seq(S), NEW b \in Seq(S)
  PROVE  Worded(f, a \o b) = Worded(f, a) \o Worded(f, b)
<1> DEFINE V == Seq(X)
           u == Mapped(f, a)
           v == Mapped(f, b)
<1>1. u \in Seq(V) /\ v \in Seq(V) /\ Mapped(f, a \o b) = u \o v
  <2> HIDE DEF V
  <2>1. f \in Maps(S, V) BY DEF V
  <2>2. u \in Seq(V) /\ v \in Seq(V) BY <2>1, MappedType
  <2>3. Mapped(f, a \o b) = u \o v BY <2>1, MappedConcat
  <2>4. QED BY <2>2, <2>3
<1> HIDE DEF u, v
<1>2. Seqs!FlattenSeq(u \o v) = Seqs!FlattenSeq(u) \o Seqs!FlattenSeq(v) BY <1>1, FlattenConcat
<1>3. QED BY <1>1, <1>2 DEF Worded, u, v

\* No items have no words.
LEMMA WordedEmpty ==
  ASSUME NEW S, NEW X, NEW f \in Maps(S, Seq(X))
  PROVE  Worded(f, <<>>) = <<>>
<1>1. Mapped(f, <<>>) = <<>> BY DEF Mapped
<1>2. QED BY <1>1, FlattenEmpty DEF Worded

\* The words of one item.
LEMMA WordedOne ==
  ASSUME NEW S, NEW X, NEW f \in Maps(S, Seq(X)), NEW x \in S
  PROVE  Worded(f, <<x>>) = f[x] /\ f[x] \in Seq(X)
<1> DEFINE y == f[x]
           m == Mapped(f, <<x>>)
<1>1. y \in Seq(X) BY DEF Maps
<1>2. m = <<y>> BY DEF Mapped
<1> HIDE DEF y, m
<1>3. Seqs!FlattenSeq(<<y>>) = y BY <1>1, FlattenOne
<1>4. QED BY <1>1, <1>2, <1>3 DEF Worded, m, y

\* The words of each group.
LEMMA PerGroupType ==
  ASSUME NEW S, NEW X, NEW f \in Maps(S, Seq(X)), NEW gs \in Seq(Seq(S))
  PROVE  /\ PerGroup(f, gs) \in Seq(Seq(X)) /\ Len(PerGroup(f, gs)) = Len(gs)
         /\ \A k \in 1..Len(gs) : PerGroup(f, gs)[k] = Worded(f, gs[k])
<1> DEFINE n == Len(gs)
           W == [k \in 1..n |-> Worded(f, gs[k])]
           V == Seq(X)
<1>1. n \in Nat /\ PerGroup(f, gs) = W BY DEF PerGroup
<1>2. \A k \in 1..n : gs[k] \in Seq(S) OBVIOUS
<1>3. \A k \in 1..n : Worded(f, gs[k]) \in V
  <2> HIDE DEF n, V
  <2>1. ASSUME NEW k \in 1..n PROVE Worded(f, gs[k]) \in V
    <3> DEFINE g == gs[k]
    <3>1. g \in Seq(S) BY <1>2
    <3> HIDE DEF g
    <3>2. Worded(f, g) \in Seq(X) BY <3>1, WordedType
    <3>3. QED BY <3>2 DEF g, V
  <2>2. QED BY <2>1
<1> HIDE DEF n, V
<1>4. W \in Seq(V) /\ Len(W) = n /\ \A k \in 1..n : W[k] = Worded(f, gs[k]) BY <1>1, <1>3
<1> HIDE DEF W
<1>5. QED BY <1>1, <1>4 DEF n, V

\* The words of the items of all groups are those of the groups, one after the other.
LEMMA WordedGroups ==
  ASSUME NEW S, NEW X, NEW f \in Maps(S, Seq(X)), NEW gs \in Seq(Seq(S))
  PROVE  Worded(f, Seqs!FlattenSeq(gs)) = Seqs!FlattenSeq(PerGroup(f, gs))
<1> DEFINE T == {t \in Seq(Seq(S)) : Worded(f, Seqs!FlattenSeq(t)) = Seqs!FlattenSeq(PerGroup(f, t))}
           Y == Seq(S)
<1>1. <<>> \in T
  <2>1. PerGroup(f, <<>>) = <<>> BY DEF PerGroup
  <2>2. <<>> \in Seq(Seq(S)) OBVIOUS
  <2>3. QED BY <2>1, <2>2, FlattenEmpty, WordedEmpty
<1>2. ASSUME NEW t \in T, NEW x \in Y, t \in Seq(Y) PROVE Append(t, x) \in T
  <2> DEFINE u == Append(t, x)
             w == Worded(f, x)
             p == PerGroup(f, t)
             q == PerGroup(f, u)
             V == Seq(X)
             n == Len(t)
  <2>1. t \in Seq(Seq(S)) /\ x \in Seq(S) /\ Worded(f, Seqs!FlattenSeq(t)) = Seqs!FlattenSeq(p) BY <1>2
  <2>2. u \in Seq(Seq(S)) /\ Len(u) = n + 1 /\ (\A k \in 1..n : u[k] = t[k]) /\ u[n + 1] = x
    <3> HIDE DEF u, Y
    <3>1. Append(t, x) \in Seq(Y) /\ Len(Append(t, x)) = Len(t) + 1 /\ (\A k \in 1..Len(t) : Append(t, x)[k] = t[k])
          /\ Append(t, x)[Len(t) + 1] = x
      BY <1>2, AppendProperties
    <3>2. QED BY <3>1 DEF u, Y
  <2>3. n \in Nat BY <2>1
  <2> HIDE DEF u, n
  <2>4. w \in Seq(X) BY <2>1, WordedType
  <2>5. p \in Seq(Seq(X)) /\ Len(p) = n /\ \A k \in 1..n : p[k] = Worded(f, t[k]) BY <2>1, PerGroupType DEF n
  <2>6. q \in Seq(Seq(X)) /\ Len(q) = n + 1 /\ \A k \in 1..(n + 1) : q[k] = Worded(f, u[k])
    <3>1. q \in Seq(Seq(X)) /\ Len(q) = Len(u) /\ \A k \in 1..Len(u) : q[k] = Worded(f, u[k]) BY <2>2, PerGroupType
    <3> HIDE DEF q
    <3>2. QED BY <2>2, <3>1
  <2> HIDE DEF p, q, w
  <2>7. q = Append(p, w)
    <3> DEFINE a == Append(p, w)
    <3>1. a \in Seq(V) /\ Len(a) = n + 1 /\ (\A k \in 1..n : a[k] = p[k]) /\ a[n + 1] = w
      <4>1. p \in Seq(V) /\ w \in V BY <2>4, <2>5
      <4> HIDE DEF V
      <4>2. a \in Seq(V) /\ Len(a) = Len(p) + 1 /\ (\A k \in 1..Len(p) : a[k] = p[k]) /\ a[Len(p) + 1] = w
        BY <4>1, AppendProperties
      <4> HIDE DEF a
      <4>3. QED BY <2>5, <4>2
    <3>2. ASSUME NEW k \in 1..(n + 1) PROVE q[k] = a[k]
      <4> HIDE DEF a
      <4>1. CASE k = n + 1 BY <4>1, <2>2, <2>6, <3>1 DEF w
      <4>2. CASE k # n + 1
        <5>1. k \in 1..n BY <2>3, <4>2
        <5>2. QED BY <5>1, <2>2, <2>5, <2>6, <3>1
      <4>3. QED BY <4>1, <4>2
    <3>3. q \in Seq(V) BY <2>6
    <3>4. n + 1 \in Nat BY <2>3
    <3> HIDE DEF a, V
    <3>5. QED BY <2>6, <3>1, <3>2, <3>3, <3>4, SeqEqual DEF a
  <2>8. Seqs!FlattenSeq(q) = Seqs!FlattenSeq(p) \o w BY <2>4, <2>5, <2>7, FlattenAppend
  <2>9. Seqs!FlattenSeq(u) = Seqs!FlattenSeq(t) \o x BY <2>1, FlattenAppend DEF u
  <2>10. Worded(f, Seqs!FlattenSeq(t) \o x) = Worded(f, Seqs!FlattenSeq(t)) \o w
    <3> DEFINE y == Seqs!FlattenSeq(t)
    <3>1. y \in Seq(S) BY <2>1, FlattenType
    <3> HIDE DEF y
    <3>2. Worded(f, y \o x) = Worded(f, y) \o Worded(f, x) BY <2>1, <3>1, WordedConcat
    <3>3. QED BY <3>2 DEF y, w
  <2>11. Worded(f, Seqs!FlattenSeq(u)) = Seqs!FlattenSeq(q) BY <2>1, <2>8, <2>9, <2>10
  <2>12. QED BY <2>2, <2>11 DEF u, q
<1>3. Seq(Y) \subseteq T
  <2> HIDE DEF T, Y
  <2>1. QED BY <1>1, <1>2, SeqInduction
<1>4. QED BY <1>3

\* The words of a run of groups are those of its groups.
LEMMA WordedRun ==
  ASSUME NEW S, NEW X, NEW f \in Maps(S, Seq(X)), NEW gs \in Seq(Seq(S)), NEW i \in 1..Len(gs), NEW j \in i..Len(gs)
  PROVE  /\ Seqs!FlattenSeq(SubSeq(gs, i, j)) \in Seq(S)
         /\ Worded(f, Seqs!FlattenSeq(SubSeq(gs, i, j))) = Seqs!FlattenSeq(SubSeq(PerGroup(f, gs), i, j))
<1> DEFINE Y == Seq(S)
           V == Seq(X)
           F == [g \in Y |-> Worded(f, g)]
           r == SubSeq(gs, i, j)
<1>1. F \in Maps(Y, V)
  <2>1. \A g \in Y : Worded(f, g) \in V BY WordedType
  <2> HIDE DEF Y, V
  <2>2. QED BY <2>1 DEF Maps
<1>2. ASSUME NEW s \in Seq(Y) PROVE PerGroup(f, s) = Mapped(F, s)
  <2>1. \A k \in DOMAIN s : s[k] \in Y OBVIOUS
  <2> HIDE DEF Y
  <2>2. QED BY <2>1 DEF PerGroup, Mapped
<1>3. r \in Seq(Y) BY SubSeqType
<1> HIDE DEF F, Y, V
<1>4. gs \in Seq(Y) BY DEF Y
<1>5. Mapped(F, r) = SubSeq(Mapped(F, gs), i, j) BY <1>1, <1>4, SubSeqOfMapped
<1>6. PerGroup(f, r) = SubSeq(PerGroup(f, gs), i, j) BY <1>2, <1>3, <1>4, <1>5
<1>7. r \in Seq(Seq(S)) BY <1>3 DEF Y
<1> HIDE DEF r
<1>8. Seqs!FlattenSeq(r) \in Seq(S) /\ Worded(f, Seqs!FlattenSeq(r)) = Seqs!FlattenSeq(PerGroup(f, r))
  BY <1>7, FlattenType, WordedGroups
<1>9. QED BY <1>6, <1>8 DEF r

BodyOf == [t \in Text |-> Body(t)]

\* The words of texts that follow each other are those of the texts.
LEMMA BodyFlatten ==
  ASSUME NEW ss \in Seq(Text)
  PROVE  /\ Seqs!FlattenSeq(ss) \in Text /\ BodyOf \in Maps(Text, Text)
         /\ Body(Seqs!FlattenSeq(ss)) = Worded(BodyOf, ss)
<1> DEFINE T == {s \in Seq(Text) : Body(Seqs!FlattenSeq(s)) = Worded(BodyOf, s)}
<1>1. BodyOf \in Maps(Text, Text) /\ BodyOf \in Maps(Text, Seq(Token))
  <2>1. \A t \in Text : Body(t) \in Text BY BodyType
  <2>2. BodyOf \in Maps(Text, Text) BY <2>1 DEF BodyOf, Maps
  <2>3. QED BY <2>2 DEF Text
<1>2. <<>> \in T BY <1>1, FlattenEmpty, WordedEmpty, BodyEmpty
<1>3. ASSUME NEW s \in T, NEW x \in Text, s \in Seq(Text) PROVE Append(s, x) \in T
  <2>1. Body(Seqs!FlattenSeq(s)) = Worded(BodyOf, s) BY <1>3
  <2> HIDE DEF T
  <2>2. s \in Seq(Seq(Token)) /\ x \in Seq(Token) BY <1>3 DEF Text
  <2>3. Seqs!FlattenSeq(Append(s, x)) = Seqs!FlattenSeq(s) \o x /\ Seqs!FlattenSeq(s) \in Text
    BY <2>2, FlattenAppend, FlattenType DEF Text
  <2>4. Body(Seqs!FlattenSeq(s) \o x) = Body(Seqs!FlattenSeq(s)) \o Body(x) BY <1>3, <2>3, BodyConcat
  <2>5. Append(s, x) = s \o <<x>> /\ <<x>> \in Seq(Text) BY <1>3, AppendIsConcat
  <2>6. Worded(BodyOf, s \o <<x>>) = Worded(BodyOf, s) \o Worded(BodyOf, <<x>>) BY <1>1, <1>3, <2>5, WordedConcat, ZenonT(60)
  <2>7. Worded(BodyOf, <<x>>) = BodyOf[x] BY <1>1, <1>3, WordedOne
  <2>8. BodyOf[x] = Body(x) BY <1>3 DEF BodyOf
  <2>9. Append(s, x) \in Seq(Text) BY <1>3, AppendProperties
  <2>10. QED BY <2>1, <2>3, <2>4, <2>5, <2>6, <2>7, <2>8, <2>9 DEF T
<1>4. Seq(Text) \subseteq T
  <2> HIDE DEF T
  <2>1. QED BY <1>2, <1>3, SeqInduction
<1>5. ss \in Seq(Seq(Token)) BY DEF Text
<1>6. Seqs!FlattenSeq(ss) \in Text BY <1>5, FlattenType DEF Text
<1>7. QED BY <1>1, <1>4, <1>6

(***************************************************************************)
(* Packing items and groups of them                                        *)
(***************************************************************************)
\* The chunk of a sequence of items has their words, and belongs to S when it fits.
Bundles(D, f, S, chunkOf) ==
  \A s \in D : /\ chunkOf[s] \in AnyChunk /\ Body(chunkOf[s].text) = Worded(f, s)
               /\ ~Over(chunkOf[s]) => chunkOf[s] \in S


\* The chunks of the runs of items, and what each item is cut into when its own is too long.
ItemRuns(items, chunkOf, whole) == \A r \in Runs(items) : whole[r] = chunkOf[Run(items, r)]
ItemCuts(items, f, S, whole, finer) ==
  \A k \in 1..Len(items) : finer[k] \in Seq(S) /\ (Over(whole[<<k, k>>]) => Gist(finer[k]) = f[items[k]])
GroupCuts(groups, f, S, finer) == \A k \in 1..Len(groups) : finer[k] \in Seq(S) /\ Gist(finer[k]) = PerGroup(f, groups)[k]
GroupRuns(groups, chunkOf, whole) == \A r \in Runs(groups) : whole[r] = chunkOf[Seqs!FlattenSeq(Run(groups, r))]

\* A run of items is not empty.
LEMMA RunOf ==
  ASSUME NEW X, NEW s \in Seq(X), NEW i \in 1..Len(s), NEW j \in i..Len(s)
  PROVE  /\ <<i, j>> \in Runs(s) /\ Run(s, <<i, j>>) = SubSeq(s, i, j)
         /\ SubSeq(s, i, j) \in Seq(X) /\ SubSeq(s, i, j) # <<>>
<1>1. i \in DOMAIN s /\ j \in DOMAIN s /\ i <= j OBVIOUS
<1>2. <<i, j>> \in Runs(s) /\ Run(s, <<i, j>>) = SubSeq(s, i, j) BY <1>1 DEF Runs, Run
<1>3. i \in Nat \ {0} /\ j \in 0..Len(s) /\ i <= j + 1 OBVIOUS
<1>4. SubSeq(s, i, j) \in Seq(X) /\ Len(SubSeq(s, i, j)) = j - i + 1 BY <1>3, SubSeqType
<1>5. j - i + 1 # 0 OBVIOUS
<1>6. QED BY <1>2, <1>4, <1>5

\* Items packed as whole runs, or cut finer one by one, keep their words.
LEMMA PackItems ==
  ASSUME NEW I, NEW f \in Maps(I, Text), NEW S, S \subseteq AnyChunk, NEW items \in Seq(I), NEW chunkOf, NEW whole, NEW finer,
         Bundles(NonEmpty(I), f, S, chunkOf),
         ItemRuns(items, chunkOf, whole), ItemCuts(items, f, S, whole, finer)
  PROVE  /\ Pack(Len(items), whole, finer) \in Seq(S)
         /\ Gist(Pack(Len(items), whole, finer)) = Worded(f, items)
<1> DEFINE n == Len(items)
           words == Mapped(f, items)
<1>1. n \in Nat OBVIOUS
<1>2. words \in Seq(Text) /\ Len(words) = n /\ \A k \in 1..n : words[k] = f[items[k]] BY MappedType
<1> HIDE DEF words
<1>3. ASSUME NEW i \in 1..n, NEW j \in 1..n, i <= j
      PROVE  /\ whole[<<i, j>>] \in AnyChunk
             /\ Body(whole[<<i, j>>].text) = Seqs!FlattenSeq(SubSeq(words, i, j))
             /\ ~Over(whole[<<i, j>>]) => whole[<<i, j>>] \in S
  <2> DEFINE s == SubSeq(items, i, j)
  <2>1. j \in i..n BY <1>1, <1>3
  <2>2. <<i, j>> \in Runs(items) /\ Run(items, <<i, j>>) = s /\ s \in Seq(I) /\ s # <<>> BY <2>1, RunOf
  <2>3. Mapped(f, s) = SubSeq(words, i, j) BY <2>1, SubSeqOfMapped DEF words
  <2> HIDE DEF s, n
  <2>4. s \in NonEmpty(I) BY <2>2 DEF NonEmpty
  <2>5. whole[<<i, j>>] = chunkOf[s] BY <2>2 DEF ItemRuns
  <2>6. /\ chunkOf[s] \in AnyChunk /\ Body(chunkOf[s].text) = Worded(f, s)
        /\ ~Over(chunkOf[s]) => chunkOf[s] \in S
    BY <2>4 DEF Bundles
  <2>7. QED BY <2>3, <2>5, <2>6 DEF Worded
<1>4. Packable(n, S, words, whole, finer) BY <1>2, <1>3 DEF Packable, ItemCuts
<1> HIDE DEF n
<1>5. Pack(n, whole, finer) \in Seq(S) /\ Gist(Pack(n, whole, finer)) = Seqs!FlattenSeq(words) BY <1>1, <1>4, PackWords
<1>6. QED BY <1>5 DEF n, Worded, words

\* Groups packed as whole runs, or cut finer one by one, keep the words of their items.
LEMMA PackGroups ==
  ASSUME NEW I, NEW f \in Maps(I, Text), NEW S, S \subseteq AnyChunk, NEW groups, groups \in Seq(Seq(I)), NEW chunkOf, NEW whole, NEW finer,
         Bundles(Seq(I), f, S, chunkOf),
         GroupRuns(groups, chunkOf, whole),
         GroupCuts(groups, f, S, finer)
  PROVE  /\ Pack(Len(groups), whole, finer) \in Seq(S)
         /\ Gist(Pack(Len(groups), whole, finer)) = Worded(f, Seqs!FlattenSeq(groups))
<1> DEFINE n == Len(groups)
           words == PerGroup(f, groups)
<1>1. n \in Nat /\ f \in Maps(I, Seq(Token)) BY DEF Text
<1>2. words \in Seq(Text) /\ Len(words) = n BY <1>1, PerGroupType DEF Text
<1> HIDE DEF words
<1>3. ASSUME NEW i \in 1..n, NEW j \in 1..n, i <= j
      PROVE  /\ whole[<<i, j>>] \in AnyChunk
             /\ Body(whole[<<i, j>>].text) = Seqs!FlattenSeq(SubSeq(words, i, j))
             /\ ~Over(whole[<<i, j>>]) => whole[<<i, j>>] \in S
  <2> DEFINE s == Seqs!FlattenSeq(SubSeq(groups, i, j))
             Y == Seq(I)
  <2>1. j \in i..n BY <1>1, <1>3
  <2>2. <<i, j>> \in Runs(groups) /\ Run(groups, <<i, j>>) = SubSeq(groups, i, j)
    <3>1. groups \in Seq(Y) OBVIOUS
    <3> HIDE DEF Y
    <3>2. QED BY <2>1, <3>1, RunOf
  <2>3. s \in Seq(I) /\ Worded(f, s) = Seqs!FlattenSeq(SubSeq(words, i, j)) BY <1>1, <2>1, WordedRun DEF words
  <2>4. whole[<<i, j>>] = chunkOf[s] BY <2>2 DEF GroupRuns
  <2> HIDE DEF s, n
  <2>5. /\ chunkOf[s] \in AnyChunk /\ Body(chunkOf[s].text) = Worded(f, s)
        /\ ~Over(chunkOf[s]) => chunkOf[s] \in S
    BY <2>3 DEF Bundles
  <2>6. QED BY <2>3, <2>4, <2>5
<1>4. Packable(n, S, words, whole, finer)
  <2>1. \A k \in 1..n : finer[k] \in Seq(S) /\ Gist(finer[k]) = words[k] BY DEF GroupCuts, words
  <2>2. QED BY <1>2, <1>3, <2>1 DEF Packable
<1> HIDE DEF n
<1>5. Pack(n, whole, finer) \in Seq(S) /\ Gist(Pack(n, whole, finer)) = Seqs!FlattenSeq(words)
  <2>1. n \in Nat BY <1>1
  <2>2. \A m \in Nat : \A ws : Packable(m, S, ws, whole, finer) =>
           Pack(m, whole, finer) \in Seq(S) /\ Gist(Pack(m, whole, finer)) = Seqs!FlattenSeq(ws)
    BY ONLY PackWords, S \subseteq AnyChunk
  <2>3. QED BY <1>4, <2>1, <2>2
<1>6. Worded(f, Seqs!FlattenSeq(groups)) = Seqs!FlattenSeq(words) BY <1>1, WordedGroups DEF words
<1>7. QED BY <1>5, <1>6 DEF n

(***************************************************************************)
(* The text of a block                                                     *)
(***************************************************************************)
BlockText(b) == Seq(TokenOf({b})) \cap Seq(WordToken)

\* A text of one block names that block.
LEMMA BlockTextIs ==
  ASSUME NEW b \in Nat, NEW t \in BlockText(b)
  PROVE  t \in Text /\ Body(t) = t /\ Len(t) \in Nat /\ t \in Seq(TokenOf({b}))
<1>1. t \in Seq(WordToken) /\ t \in Seq(TokenOf({b})) BY DEF BlockText
<1>2. QED BY <1>1, BodyOfWords

\* Texts of one block are flattened to one of its texts.
LEMMA BlockTextFlatten ==
  ASSUME NEW b \in Nat, NEW ss \in Seq(BlockText(b))
  PROVE  Seqs!FlattenSeq(ss) \in BlockText(b)
<1> DEFINE A == TokenOf({b})
<1>1. ss \in Seq(Seq(A)) /\ ss \in Seq(Seq(WordToken))
  <2>1. BlockText(b) \subseteq Seq(A) /\ BlockText(b) \subseteq Seq(WordToken) BY DEF BlockText
  <2>2. QED BY <2>1, SeqMonotonic
<1> HIDE DEF A
<1>2. Seqs!FlattenSeq(ss) \in Seq(A) /\ Seqs!FlattenSeq(ss) \in Seq(WordToken) BY <1>1, FlattenType
<1>3. QED BY <1>2 DEF A, BlockText

(***************************************************************************)
(* Code                                                                    *)
(***************************************************************************)
LineOf(b) == [text: BlockText(b), def: BOOLEAN]
LineText(b) == [l \in LineOf(b) |-> l.text]

\* The text of a line is one of its block.
LEMMA LineTextIs ==
  ASSUME NEW b \in Nat
  PROVE  /\ LineText(b) \in Maps(LineOf(b), Text) /\ LineText(b) \in Maps(LineOf(b), BlockText(b))
         /\ \A l \in LineOf(b) : LineText(b)[l] = l.text /\ l.text \in BlockText(b)
<1>1. \A l \in LineOf(b) : l.text \in BlockText(b) BY DEF LineOf
<1>2. \A l \in LineOf(b) : l.text \in Text BY <1>1, BlockTextIs
<1>3. QED BY <1>1, <1>2 DEF LineText, Maps

\* The texts of lines, one after the other, are their words.
LEMMA LineWords ==
  ASSUME NEW b \in Nat, NEW lines \in Seq(LineOf(b))
  PROVE  /\ Worded(LineText(b), lines) \in BlockText(b)
         /\ Seqs!FlattenSeq([i \in DOMAIN lines |-> lines[i].text]) = Worded(LineText(b), lines)
<1> DEFINE m == Mapped(LineText(b), lines)
<1>1. m \in Seq(BlockText(b)) BY LineTextIs, MappedType
<1>2. m = [i \in DOMAIN lines |-> lines[i].text]
  <2>1. \A i \in DOMAIN lines : lines[i] \in LineOf(b) OBVIOUS
  <2>2. \A i \in DOMAIN lines : LineText(b)[lines[i]] = lines[i].text BY <2>1, LineTextIs
  <2>3. QED BY <2>2 DEF Mapped
<1> HIDE DEF m
<1>3. Seqs!FlattenSeq(m) \in BlockText(b) BY <1>1, BlockTextFlatten
<1>4. QED BY <1>2, <1>3 DEF Worded, m

\* The fence of a code chunk has no words and takes two tokens.
LEMMA FencedSound ==
  ASSUME NEW b \in Nat, NEW c, NEW t \in BlockText(b)
  PROVE  LET z == Fenced(b, c, t)
         IN /\ z \in AnyChunk /\ Body(z.text) = t
            /\ Len(z.text) = IF c.fenced THEN Len(t) + 2 ELSE Len(t)
            /\ ~Over(z) => z \in SoundChunks({b})
<1> DEFINE A == TokenOf({b})
           x == <<Fence>> \o t
           w == x \o <<Fence>>
           z == Fenced(b, c, t)
<1>1. t \in Text /\ Body(t) = t /\ Len(t) \in Nat /\ t \in Seq(A) BY BlockTextIs
<1>2. Fence \in A /\ Fence \in LayoutToken /\ <<Fence>> \in Seq(A) /\ <<Fence>> \in Seq(LayoutToken)
      /\ Len(<<Fence>>) = 1
  <2>1. Fence \in Token /\ ~IsWord(Fence) BY DEF Fence, IsWord, Token
  <2>2. Fence \in A /\ Fence \in LayoutToken BY <2>1 DEF TokenOf, LayoutToken
  <2> HIDE DEF A
  <2>3. QED BY <2>2
<1>3. <<Fence>> \in Text /\ Body(<<Fence>>) = <<>> BY <1>2, BodyOfLayout
<1> HIDE DEF A
<1>4. x \in Seq(A) /\ Len(x) = 1 + Len(t) BY <1>1, <1>2, ConcatParts
<1>5. x \in Text /\ Body(x) = <<>> \o t BY <1>1, <1>3, BodyConcat
<1> HIDE DEF x
<1>6. w \in Seq(A) /\ Len(w) = Len(t) + 2
  <2>1. w \in Seq(A) /\ Len(w) = Len(x) + Len(<<Fence>>) BY <1>2, <1>4, ConcatParts
  <2> HIDE DEF w
  <2>2. QED BY <1>1, <1>2, <1>4, <2>1
<1>7. w \in Text /\ Body(w) = t
  <2>1. w \in Text /\ Body(w) = (<<>> \o t) \o <<>> BY <1>3, <1>5, BodyConcat
  <2>2. (<<>> \o t) \o <<>> = t BY <1>1 DEF Text
  <2>3. QED BY <2>1, <2>2
<1> HIDE DEF w
<1>8. z.kind = "code" /\ z.sources = {b} /\ z.text = (IF c.fenced THEN w ELSE t)
      /\ z = [kind |-> "code", text |-> z.text, sources |-> {b}]
  BY DEF Fenced, Candidate, w, x
<1> HIDE DEF z
<1>9. z.text \in Text /\ Body(z.text) = t /\ z.text \in Seq(A) /\ Len(z.text) = IF c.fenced THEN Len(t) + 2 ELSE Len(t)
  BY <1>1, <1>6, <1>7, <1>8
<1>10. z \in AnyChunk
  <2> DEFINE q == z.text
  <2>1. z = [kind |-> "code", text |-> q, sources |-> {b}] /\ q \in Text BY <1>8, <1>9
  <2> HIDE DEF q
  <2>2. {b} \in SUBSET Nat OBVIOUS
  <2>3. "code" \in Kinds BY DEF Kinds
  <2>4. QED BY <2>1, <2>2, <2>3 DEF AnyChunk
<1>11. ~Over(z) => z \in SoundChunks({b}) BY <1>8, <1>9, <1>10 DEF SoundChunks, Sound, A
<1>12. QED BY <1>9, <1>10, <1>11 DEF z

\* A line that is cut anywhere has its words in chunks that fit with their fence.
LEMMA LineFragmentsSound ==
  ASSUME NEW b \in Nat, NEW c, NEW line \in LineOf(b)
  PROVE  /\ LineFragments(b, c, line) \in Seq(SoundChunks({b}))
         /\ Gist(LineFragments(b, c, line)) = line.text
<1> DEFINE w == IF c.fenced THEN TokenLimit - 2 ELSE TokenLimit
           t == line.text
           cut == Pieces(t, w)
           m == Len(cut)
           A == TokenOf({b})
           r == LineFragments(b, c, line)
           S == SoundChunks({b})
<1>1. w \in Nat \ {0} /\ w <= TokenLimit /\ (c.fenced => w + 2 <= TokenLimit) BY SizePolicy
<1>2. t \in Seq(A) /\ t \in Seq(WordToken) BY DEF LineOf, BlockText
<1> HIDE DEF w, t, A
<1>3. /\ cut \in Seq(Seq(A)) /\ cut \in Seq(Seq(WordToken))
      /\ \A k \in 1..m : Len(cut[k]) \in Nat /\ Len(cut[k]) <= w
      /\ Seqs!FlattenSeq(cut) = t
  <2>1. cut \in Seq(Seq(A)) /\ (\A k \in 1..Len(cut) : Len(cut[k]) \in Nat /\ Len(cut[k]) <= w) /\ Seqs!FlattenSeq(cut) = t
    BY <1>1, <1>2, PiecesOf
  <2>2. cut \in Seq(Seq(WordToken)) BY <1>1, <1>2, PiecesOf
  <2>3. QED BY <2>1, <2>2
<1>4. r = [i \in DOMAIN cut |-> Fenced(b, c, cut[i])] BY DEF LineFragments, cut, t, w
<1> HIDE DEF cut, r
<1>5. m \in Nat /\ DOMAIN cut = 1..m BY <1>3
<1>6. ASSUME NEW k \in 1..m
      PROVE  /\ Fenced(b, c, cut[k]) \in S /\ Fenced(b, c, cut[k]) \in AnyChunk /\ Body(Fenced(b, c, cut[k]).text) = cut[k]
  <2> DEFINE p == cut[k]
             z == Fenced(b, c, p)
  <2>1. p \in Seq(A) /\ p \in Seq(WordToken) /\ Len(p) \in Nat /\ Len(p) <= w BY <1>3
  <2> HIDE DEF p
  <2>2. p \in BlockText(b) BY <2>1 DEF BlockText, A
  <2>3. /\ z \in AnyChunk /\ Body(z.text) = p
        /\ Len(z.text) = IF c.fenced THEN Len(p) + 2 ELSE Len(p)
        /\ ~Over(z) => z \in S
    BY <2>2, FencedSound
  <2> HIDE DEF z
  <2>4. Len(z.text) <= TokenLimit
    <3>1. CASE c.fenced
      <4>1. Len(z.text) = Len(p) + 2 BY <3>1, <2>3
      <4>2. QED BY <3>1, <4>1, <1>1, <2>1, SizePolicy
    <3>2. CASE ~c.fenced
      <4>1. Len(z.text) = Len(p) BY <3>2, <2>3
      <4>2. QED BY <3>2, <4>1, <1>1, <2>1, SizePolicy
    <3>3. QED BY <3>1, <3>2
  <2>5. Len(z.text) \in Nat BY <2>3, TextLen DEF AnyChunk
  <2>6. ~Over(z) BY <2>4, <2>5, SizePolicy DEF Over
  <2>7. QED BY <2>3, <2>6 DEF z, p
<1>7. r \in Seq(S) /\ Len(r) = m /\ r \in Seq(AnyChunk) /\ \A k \in 1..m : r[k] = Fenced(b, c, cut[k])
  <2> HIDE DEF S, m
  <2>1. r = [k \in 1..m |-> Fenced(b, c, cut[k])] BY <1>4, <1>5
  <2>2. \A k \in 1..m : Fenced(b, c, cut[k]) \in S /\ Fenced(b, c, cut[k]) \in AnyChunk BY <1>6
  <2>3. QED BY <1>5, <2>1, <2>2
<1>8. Bodies(r) = cut
  <2>1. Bodies(r) = [k \in DOMAIN r |-> Body(r[k].text)] BY DEF Bodies
  <2>2. DOMAIN r = 1..m BY <1>7
  <2>3. \A k \in 1..m : Body(r[k].text) = cut[k] BY <1>6, <1>7
  <2>4. cut = [k \in 1..m |-> cut[k]] BY <1>3
  <2> HIDE DEF m
  <2>5. QED BY <2>1, <2>2, <2>3, <2>4
<1>9. Gist(r) = t BY <1>3, <1>7, <1>8, GistType
<1>10. QED BY <1>7, <1>9 DEF r, S, t

\* The chunk of the lines in a sequence.
LinesChunk(b, c) == [s \in Seq(LineOf(b)) |-> CodeChunk(b, c, s)]

\* A chunk of lines has their words, and is sound if it fits.
LEMMA LinesBundle ==
  ASSUME NEW b \in Nat, NEW c
  PROVE  /\ Bundles(Seq(LineOf(b)), LineText(b), SoundChunks({b}), LinesChunk(b, c))
         /\ Bundles(NonEmpty(LineOf(b)), LineText(b), SoundChunks({b}), LinesChunk(b, c))
         /\ \A s \in Seq(LineOf(b)) : LinesChunk(b, c)[s] = CodeChunk(b, c, s)
<1>1. ASSUME NEW s \in Seq(LineOf(b))
      PROVE  /\ LinesChunk(b, c)[s] = CodeChunk(b, c, s)
             /\ CodeChunk(b, c, s) \in AnyChunk /\ Body(CodeChunk(b, c, s).text) = Worded(LineText(b), s)
             /\ ~Over(CodeChunk(b, c, s)) => CodeChunk(b, c, s) \in SoundChunks({b})
  <2> DEFINE t == Worded(LineText(b), s)
  <2>1. t \in BlockText(b) /\ CodeChunk(b, c, s) = Fenced(b, c, t) BY LineWords DEF CodeChunk
  <2> HIDE DEF t
  <2>2. LinesChunk(b, c)[s] = CodeChunk(b, c, s) BY DEF LinesChunk
  <2>3. QED BY <2>1, <2>2, FencedSound DEF t
<1>2. \A s \in NonEmpty(LineOf(b)) : s \in Seq(LineOf(b)) BY DEF NonEmpty
<1>3. QED BY <1>1, <1>2 DEF Bundles

\* Sound chunks are chunks.
LEMMA SoundAny ==
  ASSUME NEW R
  PROVE  SoundChunks(R) \subseteq AnyChunk
BY DEF SoundChunks

\* However code is cut, its chunks fit and have the words of its lines in their order.
LEMMA ByLineSound ==
  ASSUME NEW b \in Nat, NEW c, NEW lines \in Seq(LineOf(b))
  PROVE  /\ ByLine(b, c, lines) \in Seq(SoundChunks({b}))
         /\ Gist(ByLine(b, c, lines)) = Worded(LineText(b), lines)
<1> DEFINE I == LineOf(b)
           f == LineText(b)
           S == SoundChunks({b})
           chunkOf == LinesChunk(b, c)
           whole == [r \in Runs(lines) |-> CodeChunk(b, c, Run(lines, r))]
           finer == [i \in DOMAIN lines |-> LineFragments(b, c, lines[i])]
           n == Len(lines)
<1>1. f \in Maps(I, Text) /\ S \subseteq AnyChunk BY LineTextIs, SoundAny
<1>2. Bundles(NonEmpty(I), f, S, chunkOf) BY LinesBundle
<1>3. ASSUME NEW r \in Runs(lines) PROVE whole[r] = chunkOf[Run(lines, r)]
  <2>1. r[1] \in 1..Len(lines) /\ r[2] \in r[1]..Len(lines) BY DEF Runs
  <2>2. Run(lines, r) \in Seq(I)
    <3> HIDE DEF I
    <3>1. SubSeq(lines, r[1], r[2]) \in Seq(I) BY <2>1, RunOf DEF I
    <3>2. QED BY <3>1 DEF Run
  <2>3. QED BY <2>2, LinesBundle
<1>4. ASSUME NEW k \in 1..n PROVE finer[k] \in Seq(S) /\ Gist(finer[k]) = f[lines[k]]
  <2> DEFINE l == lines[k]
  <2>1. l \in I /\ k \in DOMAIN lines OBVIOUS
  <2>2. finer[k] = LineFragments(b, c, l) BY <2>1
  <2> HIDE DEF l, finer
  <2>3. LineFragments(b, c, l) \in Seq(S) /\ Gist(LineFragments(b, c, l)) = l.text BY <2>1, LineFragmentsSound
  <2>4. f[l] = l.text BY <2>1, LineTextIs
  <2>5. QED BY <2>2, <2>3, <2>4 DEF l
<1>5. ByLine(b, c, lines) = Pack(n, whole, finer) BY DEF ByLine
<1>6. lines \in Seq(I) OBVIOUS
<1> HIDE DEF I, f, S, chunkOf, whole, finer
<1>7. Pack(n, whole, finer) \in Seq(S) /\ Gist(Pack(n, whole, finer)) = Worded(f, lines)
  <2>1. ItemCuts(lines, f, S, whole, finer) BY <1>4 DEF ItemCuts
  <2>2. ItemRuns(lines, chunkOf, whole) BY <1>3 DEF ItemRuns
  <2>3. QED BY ONLY <1>1, <1>2, <1>6, <2>1, <2>2, PackItems
<1>8. QED BY <1>5, <1>7 DEF S, f

\* The same of groups of lines, when each is cut finer with its words.
LEMMA GroupsPacked ==
  ASSUME NEW b \in Nat, NEW c, NEW groups \in Seq(Seq(LineOf(b))), NEW finer,
         GroupCuts(groups, LineText(b), SoundChunks({b}), finer)
  PROVE  LET p == Pack(Len(groups), [r \in Runs(groups) |-> CodeChunk(b, c, Seqs!FlattenSeq(Run(groups, r)))], finer)
         IN p \in Seq(SoundChunks({b})) /\ Gist(p) = Worded(LineText(b), Seqs!FlattenSeq(groups))
<1> DEFINE I == LineOf(b)
           f == LineText(b)
           S == SoundChunks({b})
           chunkOf == LinesChunk(b, c)
           whole == [r \in Runs(groups) |-> CodeChunk(b, c, Seqs!FlattenSeq(Run(groups, r)))]
<1>1. f \in Maps(I, Text) /\ S \subseteq AnyChunk BY LineTextIs, SoundAny
<1>2. Bundles(Seq(I), f, S, chunkOf) BY LinesBundle
<1>3. ASSUME NEW r \in Runs(groups) PROVE whole[r] = chunkOf[Seqs!FlattenSeq(Run(groups, r))]
  <2> DEFINE Y == Seq(I)
  <2>1. r[1] \in 1..Len(groups) /\ r[2] \in r[1]..Len(groups) BY DEF Runs
  <2>2. Run(groups, r) \in Seq(Y)
    <3>1. groups \in Seq(Y) OBVIOUS
    <3> HIDE DEF Y
    <3>2. SubSeq(groups, r[1], r[2]) \in Seq(Y) BY <2>1, <3>1, RunOf
    <3>3. QED BY <3>2 DEF Run
  <2> DEFINE x == Run(groups, r)
  <2>3. x \in Seq(Seq(I)) BY <2>2
  <2> HIDE DEF x, I
  <2>4. Seqs!FlattenSeq(x) \in Seq(I) BY <2>3, FlattenType
  <2>5. QED BY <2>4, LinesBundle DEF I, x
<1>4. groups \in Seq(Seq(I)) OBVIOUS
<1>c. GroupCuts(groups, f, S, finer) OBVIOUS
<1> HIDE DEF I, f, S, chunkOf, whole
<1>5. Pack(Len(groups), whole, finer) \in Seq(S) /\ Gist(Pack(Len(groups), whole, finer)) = Worded(f, Seqs!FlattenSeq(groups))
  <2>1. GroupRuns(groups, chunkOf, whole) BY <1>3 DEF GroupRuns
  <2>2. QED BY ONLY <1>1, <1>2, <1>4, <1>c, <2>1, PackGroups
<1>6. QED BY <1>5 DEF S, f, whole

\* The chunks of groups of lines between blank ones fit and keep the words of the lines.
LEMMA ByBlankLineSound ==
  ASSUME NEW b \in Nat, NEW c, NEW lines \in Seq(LineOf(b))
  PROVE  /\ ByBlankLine(b, c, lines) \in Seq(SoundChunks({b}))
         /\ Gist(ByBlankLine(b, c, lines)) = Worded(LineText(b), lines)
<1> DEFINE I == LineOf(b)
           f == LineText(b)
           S == SoundChunks({b})
           gs == Grouped(lines, AfterBlank(lines))
           finer == [i \in DOMAIN gs |-> ByLine(b, c, gs[i])]
           whole == [r \in Runs(gs) |-> CodeChunk(b, c, Seqs!FlattenSeq(Run(gs, r)))]
<1>1. lines \in Seq(I) OBVIOUS
<1>2. ByBlankLine(b, c, lines) = Pack(Len(gs), whole, finer) BY DEF ByBlankLine
<1>3. gs \in Seq(Seq(I)) /\ Seqs!FlattenSeq(gs) = lines
  <2> HIDE DEF I
  <2>1. QED BY <1>1, GroupedItems
<1> HIDE DEF gs
<1>4. ASSUME NEW k \in 1..Len(gs) PROVE finer[k] \in Seq(S) /\ Gist(finer[k]) = PerGroup(f, gs)[k]
  <2> DEFINE g == gs[k]
  <2>1. g \in Seq(I) /\ k \in DOMAIN gs BY <1>3
  <2>2. finer[k] = ByLine(b, c, g) /\ PerGroup(f, gs)[k] = Worded(f, g) BY <2>1 DEF PerGroup
  <2> HIDE DEF g, finer
  <2>3. ByLine(b, c, g) \in Seq(S) /\ Gist(ByLine(b, c, g)) = Worded(f, g) BY <2>1, ByLineSound
  <2>4. QED BY <2>2, <2>3
<1> HIDE DEF finer
<1>5. GroupCuts(gs, f, S, finer) BY <1>4 DEF GroupCuts
<1>6. Pack(Len(gs), whole, finer) \in Seq(S) /\ Gist(Pack(Len(gs), whole, finer)) = Worded(f, Seqs!FlattenSeq(gs))
  BY <1>3, <1>5, GroupsPacked
<1>7. QED BY <1>2, <1>3, <1>6

\* A code block as the parsers return it.
CodeBlock == [type: {"code"}, page: Nat, fenced: BOOLEAN, lines: Seq(Nat), defs: SUBSET Nat]

\* The lines of a code block have its words.
LEMMA LinesIs ==
  ASSUME NEW b \in Nat \ {0}, NEW c \in CodeBlock
  PROVE  Lines(b, c) \in Seq(LineOf(b)) /\ Worded(LineText(b), Lines(b, c)) = Span(b, 0, Total(c.lines))
<1> DEFINE texts == Measure(b, 0, c.lines)
           n == Len(texts)
           all == Lines(b, c)
<1>1. c.lines \in Seq(Nat) BY DEF CodeBlock
<1>2. /\ texts \in Seq(Text) /\ \A i \in 1..n : texts[i] \in BlockText(b)
      /\ Seqs!FlattenSeq(texts) = Span(b, 0, Total(c.lines))
  <2> DEFINE l == c.lines
  <2>1. l \in Seq(Nat) BY <1>1
  <2> HIDE DEF l
  <2>2. /\ Measure(b, 0, l) \in Seq(Text) /\ Len(Measure(b, 0, l)) = Len(l)
        /\ \A i \in 1..Len(l) : Measure(b, 0, l)[i] \in Seq(TokenOf({b})) /\ Measure(b, 0, l)[i] \in Seq(WordToken)
        /\ Seqs!FlattenSeq(Measure(b, 0, l)) = Span(b, 0, Total(l))
    BY <2>1, MeasureWords
  <2>3. QED BY <2>2 DEF l, BlockText
<1>3. all = [i \in DOMAIN texts |-> [text |-> texts[i], def |-> i \in c.defs]] BY DEF Lines
<1> HIDE DEF texts, all
<1>4. n \in Nat /\ DOMAIN texts = 1..n BY <1>2
<1>5. all \in Seq(LineOf(b)) /\ Len(all) = n /\ \A i \in 1..n : all[i].text = texts[i]
  <2> HIDE DEF n
  <2>1. \A i \in 1..n : [text |-> texts[i], def |-> i \in c.defs] \in LineOf(b)
    <3>1. \A i \in 1..n : texts[i] \in BlockText(b) BY <1>2
    <3>2. \A i \in 1..n : (i \in c.defs) \in BOOLEAN OBVIOUS
    <3>3. QED BY <3>1, <3>2 DEF LineOf
  <2> DEFINE L == LineOf(b)
  <2>2. \A i \in 1..n : [text |-> texts[i], def |-> i \in c.defs] \in L BY <2>1
  <2> HIDE DEF L
  <2>3. all \in Seq(L) /\ Len(all) = n BY <1>3, <1>4, <2>2
  <2>4. \A i \in 1..n : all[i].text = texts[i] BY <1>3, <1>4
  <2>5. QED BY <2>3, <2>4 DEF L
<1>6. Worded(LineText(b), all) = Seqs!FlattenSeq(texts)
  <2>1. Seqs!FlattenSeq([i \in DOMAIN all |-> all[i].text]) = Worded(LineText(b), all) BY <1>5, LineWords
  <2>2. DOMAIN all = 1..n BY <1>5
  <2>3. texts = [i \in 1..n |-> texts[i]] BY <1>2, <1>4
  <2> HIDE DEF n
  <2>4. [i \in DOMAIN all |-> all[i].text] = texts BY <2>2, <2>3, <1>5
  <2>5. QED BY <2>1, <2>4
<1>7. QED BY <1>2, <1>5, <1>6 DEF all

\* The candidates of a code block fit and have its words in their order.
LEMMA CodeCandidatesSound ==
  ASSUME NEW b \in Nat \ {0}, NEW c \in CodeBlock
  PROVE  /\ CodeCandidates(b, c) \in Seq(SoundChunks({b}))
         /\ Gist(CodeCandidates(b, c)) = Span(b, 0, Total(c.lines))
<1> DEFINE I == LineOf(b)
           f == LineText(b)
           S == SoundChunks({b})
           all == Lines(b, c)
           starts == {i \in DOMAIN all : all[i].def}
           gs == Grouped(all, starts)
           finer == [i \in DOMAIN gs |-> ByBlankLine(b, c, gs[i])]
           whole == [r \in Runs(gs) |-> CodeChunk(b, c, Seqs!FlattenSeq(Run(gs, r)))]
<1>1. all \in Seq(I) /\ Worded(f, all) = Span(b, 0, Total(c.lines)) BY LinesIs
<1>2. CodeCandidates(b, c) = Pack(Len(gs), whole, finer) BY DEF CodeCandidates
<1>3. gs \in Seq(Seq(I)) /\ Seqs!FlattenSeq(gs) = all
  <2> HIDE DEF I, all, starts
  <2>1. QED BY <1>1, GroupedItems
<1> HIDE DEF gs, all
<1>4. ASSUME NEW k \in 1..Len(gs) PROVE finer[k] \in Seq(S) /\ Gist(finer[k]) = PerGroup(f, gs)[k]
  <2> DEFINE g == gs[k]
  <2>1. g \in Seq(I) /\ k \in DOMAIN gs BY <1>3
  <2>2. finer[k] = ByBlankLine(b, c, g) /\ PerGroup(f, gs)[k] = Worded(f, g) BY <2>1 DEF PerGroup
  <2> HIDE DEF g, finer
  <2>3. b \in Nat OBVIOUS
  <2>4. ByBlankLine(b, c, g) \in Seq(S) /\ Gist(ByBlankLine(b, c, g)) = Worded(f, g) BY <2>1, <2>3, ByBlankLineSound
  <2>5. QED BY <2>2, <2>4
<1> HIDE DEF finer
<1>5. GroupCuts(gs, f, S, finer) BY <1>4 DEF GroupCuts
<1>6. Pack(Len(gs), whole, finer) \in Seq(S) /\ Gist(Pack(Len(gs), whole, finer)) = Worded(f, Seqs!FlattenSeq(gs))
  <2>1. b \in Nat OBVIOUS
  <2>2. QED BY <1>3, <1>5, <2>1, GroupsPacked
<1>7. QED BY <1>1, <1>2, <1>3, <1>6

(***************************************************************************)
(* Tables                                                                  *)
(***************************************************************************)
\* Flattening inside and then outside is flattening twice.
LEMMA FlattenTwice ==
  ASSUME NEW X, NEW gs \in Seq(Seq(Seq(X)))
  PROVE  /\ [k \in DOMAIN gs |-> Seqs!FlattenSeq(gs[k])] \in Seq(Seq(X))
         /\ Seqs!FlattenSeq(Seqs!FlattenSeq(gs)) = Seqs!FlattenSeq([k \in DOMAIN gs |-> Seqs!FlattenSeq(gs[k])])
<1> DEFINE V == Seq(X)
           f == [x \in V |-> x]
           W == Seq(V)
           each == [k \in DOMAIN gs |-> Seqs!FlattenSeq(gs[k])]
<1>1. f \in Maps(V, V) BY DEF Maps
<1>2. ASSUME NEW s \in Seq(V) PROVE Worded(f, s) = Seqs!FlattenSeq(s)
  <2>1. \A k \in DOMAIN s : s[k] \in V OBVIOUS
  <2>2. s = [k \in DOMAIN s |-> s[k]] OBVIOUS
  <2> HIDE DEF V
  <2>3. Mapped(f, s) = s BY <2>1, <2>2 DEF Mapped
  <2>4. QED BY <2>3 DEF Worded
<1>3. gs \in Seq(Seq(V)) OBVIOUS
<1>4. Seqs!FlattenSeq(gs) \in Seq(V)
  <2> HIDE DEF V
  <2>1. QED BY <1>3, FlattenType
<1>5. \A k \in DOMAIN gs : gs[k] \in Seq(V)
  <2> HIDE DEF V
  <2>1. QED BY <1>3
<1>6. PerGroup(f, gs) = each
  <2> HIDE DEF f, V
  <2>1. \A k \in DOMAIN gs : Worded(f, gs[k]) = Seqs!FlattenSeq(gs[k]) BY <1>2, <1>5
  <2>2. QED BY <2>1 DEF PerGroup
<1>7. f \in Maps(V, Seq(X)) BY <1>1
<1> HIDE DEF f, each, V
<1>8. PerGroup(f, gs) \in Seq(Seq(X)) BY <1>3, <1>7, PerGroupType
<1>9. Worded(f, Seqs!FlattenSeq(gs)) = Seqs!FlattenSeq(PerGroup(f, gs)) BY <1>3, <1>7, WordedGroups
<1>10. Seqs!FlattenSeq(Seqs!FlattenSeq(gs)) = Seqs!FlattenSeq(each) BY <1>2, <1>4, <1>6, <1>9
<1>11. QED BY <1>6, <1>8, <1>10 DEF each

\* A table as the parsers return it.
TableBlock == [type: {"table"}, page: Nat, header: Nat, piped: BOOLEAN, rows: Seq(Seq(Nat))]

\* The rows of a table have its words.
LEMMA TableRowsIs ==
  ASSUME NEW b \in Nat \ {0}, NEW t \in TableBlock
  PROVE  LET rows == TableRows(b, t)
         IN /\ rows \in Seq(Seq(BlockText(b))) /\ Len(rows) = Len(t.rows)
            /\ Seqs!FlattenSeq([r \in DOMAIN rows |-> Seqs!FlattenSeq(rows[r])]) = Span(b, 0, Total(Seqs!FlattenSeq(t.rows)))
<1> DEFINE l == t.rows
           n == Len(l)
           Upto(k) == Total(Seqs!FlattenSeq(SubSeq(l, 1, k)))
           rows == TableRows(b, t)
           tt == [k \in 0..n |-> Upto(k)]
           ss == [r \in 1..n |-> Seqs!FlattenSeq(rows[r])]
           N == Seq(Nat)
<1>1. l \in Seq(N) BY DEF TableBlock
<1>2. rows = [r \in DOMAIN l |-> Measure(b, Upto(r - 1), l[r])] BY DEF TableRows
<1> HIDE DEF l, rows
<1>3. n \in Nat /\ DOMAIN l = 1..n BY <1>1
<1>4. ASSUME NEW k \in 1..n
      PROVE  Upto(k - 1) \in Nat /\ l[k] \in Seq(Nat) /\ Total(l[k]) \in Nat /\ Upto(k) = Upto(k - 1) + Total(l[k])
  <2> DEFINE p == SubSeq(l, 1, k - 1)
             x == l[k]
             y == Seqs!FlattenSeq(p)
  <2>1. SubSeq(l, 1, k) = Append(p, x) /\ p \in Seq(N) /\ x \in N
    <3> HIDE DEF N
    <3>1. QED BY <1>1, PrefixParts
  <2>2. p \in Seq(Seq(Nat)) /\ x \in Seq(Nat) BY <2>1
  <2> HIDE DEF p, x
  <2>3. y \in Seq(Nat) BY <2>2, FlattenType
  <2>4. Seqs!FlattenSeq(Append(p, x)) = y \o x BY <2>2, FlattenAppend
  <2> HIDE DEF y
  <2>5. Total(y \o x) = Total(y) + Total(x) /\ Total(y) \in Nat /\ Total(x) \in Nat BY <2>2, <2>3, TotalConcat, TotalOf
  <2>6. QED BY <2>1, <2>2, <2>4, <2>5 DEF y, p, x
<1>5. Upto(0) = 0
  <2>1. SubSeq(l, 1, 0) = <<>> BY <1>1
  <2>2. QED BY <2>1, FlattenEmpty, TotalOf
<1>6. Upto(n) = Total(Seqs!FlattenSeq(l))
  <2>1. SubSeq(l, 1, n) = l BY <1>1
  <2>2. QED BY <2>1
<1>7. ASSUME NEW k \in 0..n PROVE Upto(k) \in Nat
  <2>1. CASE k = 0 BY <2>1, <1>5
  <2>2. CASE k # 0
    <3>1. k \in 1..n BY <2>2, <1>3
    <3>2. Upto(k - 1) \in Nat /\ Total(l[k]) \in Nat /\ Upto(k) = Upto(k - 1) + Total(l[k]) BY <3>1, <1>4
    <3> HIDE DEF Upto
    <3>3. QED BY <3>2
  <2>3. QED BY <2>1, <2>2
<1> HIDE DEF Upto
<1>8. ASSUME NEW k \in 1..n
      PROVE  /\ rows[k] \in Seq(BlockText(b)) /\ ss[k] \in Text
             /\ ss[k] = Span(b, Upto(k - 1), Total(l[k]))
  <2> DEFINE x == l[k]
             u == Upto(k - 1)
             m == Measure(b, u, x)
             B == BlockText(b)
  <2>1. x \in Seq(Nat) /\ u \in Nat /\ Total(x) \in Nat BY <1>4
  <2>2. rows[k] = m /\ ss[k] = Seqs!FlattenSeq(rows[k]) BY <1>2, <1>3
  <2> HIDE DEF x, u
  <2>3. /\ m \in Seq(Text) /\ \A i \in 1..Len(m) : m[i] \in Seq(TokenOf({b})) /\ m[i] \in Seq(WordToken)
        /\ Seqs!FlattenSeq(m) = Span(b, u, Total(x))
    BY <2>1, MeasureWords
  <2>4. \A i \in 1..Len(m) : m[i] \in B BY <2>3 DEF BlockText
  <2> HIDE DEF m, B
  <2>5. m = [i \in 1..Len(m) |-> m[i]] /\ Len(m) \in Nat BY <2>3
  <2>6. m \in Seq(B) BY <2>4, <2>5
  <2>7. Span(b, u, Total(x)) \in Text BY <2>1, SpanType
  <2>8. QED BY <2>2, <2>3, <2>6, <2>7 DEF x, u, B
<1>9. rows \in Seq(Seq(BlockText(b))) /\ Len(rows) = n /\ DOMAIN rows = 1..n
  <2> DEFINE Y == Seq(BlockText(b))
  <2>1. rows = [r \in 1..n |-> rows[r]] BY <1>2, <1>3
  <2>2. \A r \in 1..n : rows[r] \in Y BY <1>8
  <2> HIDE DEF Y, n
  <2>3. rows \in Seq(Y) /\ Len(rows) = n BY <1>3, <2>1, <2>2
  <2>4. DOMAIN rows = 1..n BY <2>1
  <2>5. QED BY <2>3, <2>4 DEF Y
<1>10. ss \in Seq(Text) /\ Len(ss) = n
  <2>1. ss = [r \in 1..n |-> ss[r]] OBVIOUS
  <2> HIDE DEF ss, n
  <2>2. QED BY <1>3, <1>8, <2>1
<1>11. tt \in Maps(0..n, Nat) /\ \A k \in 0..n : tt[k] = Upto(k) BY <1>7 DEF Maps
<1>12. ASSUME NEW k \in 1..n PROVE \E m \in Nat : tt[k] = tt[k - 1] + m /\ ss[k] = Span(b, tt[k - 1], m)
  <2>1. k \in 0..n /\ k - 1 \in 0..n BY <1>3
  <2> HIDE DEF tt, ss
  <2>2. tt[k] = Upto(k) /\ tt[k - 1] = Upto(k - 1) BY <1>11, <2>1
  <2>3. Total(l[k]) \in Nat /\ tt[k] = tt[k - 1] + Total(l[k]) /\ ss[k] = Span(b, tt[k - 1], Total(l[k])) BY <1>4, <1>8, <2>2
  <2>4. QED BY <2>3
<1>13. tt[0] = 0 /\ tt[n] = Total(Seqs!FlattenSeq(l)) /\ tt[n] \in Nat
  <2>1. 0 \in 0..n /\ n \in 0..n BY <1>3
  <2>2. QED BY <2>1, <1>5, <1>6, <1>7, <1>11
<1> HIDE DEF tt, ss, n
<1>14. Seqs!FlattenSeq(ss) = Span(b, tt[0], tt[n] - tt[0])
  <2>1. tt \in Maps(0..Len(ss), Nat) /\ \A k \in 1..Len(ss) : \E m \in Nat : tt[k] = tt[k - 1] + m /\ ss[k] = Span(b, tt[k - 1], m)
    BY <1>10, <1>11, <1>12
  <2>2. QED BY <1>10, <2>1, FlattenSpans
<1>15. tt[n] - tt[0] = tt[n] BY <1>13
<1>16. ss = [r \in DOMAIN rows |-> Seqs!FlattenSeq(rows[r])] BY <1>9 DEF ss
<1>17. QED BY <1>9, <1>13, <1>14, <1>15, <1>16 DEF rows, l, n

\* A part of a cell that has room beside the header and the borders of its row, and a part
\* of a row with its borders.
CellPart(b, t) == {x \in BlockText(b) : t.header + 1 + Len(x) <= TokenLimit}
RowPart(b, t)  == {x \in Seq(TokenOf({b})) : t.header + Len(x) <= TokenLimit}
RowWords(b, t) == [x \in RowPart(b, t) |-> Body(x)]

\* A part of a row has the words of its cells.
LEMMA RowPartIs ==
  ASSUME NEW b \in Nat, NEW t \in TableBlock
  PROVE  /\ RowPart(b, t) \subseteq Text
         /\ RowWords(b, t) \in Maps(RowPart(b, t), Text)
         /\ \A x \in CellPart(b, t) : /\ <<Bar>> \o x \in RowPart(b, t) /\ RowWords(b, t)[<<Bar>> \o x] = x
                                      /\ x \in BlockText(b)
<1> DEFINE A == TokenOf({b})
<1>1. \A x \in RowPart(b, t) : x \in Text
  <2>1. A \subseteq Token BY DEF TokenOf
  <2>2. Seq(A) \subseteq Text BY <2>1, SeqMonotonic DEF Text
  <2>3. QED BY <2>2 DEF RowPart
<1>2. RowWords(b, t) \in Maps(RowPart(b, t), Text)
  <2>1. \A x \in RowPart(b, t) : Body(x) \in Text BY <1>1, BodyType
  <2>2. QED BY <2>1 DEF RowWords, Maps
<1>3. Bar \in A /\ <<Bar>> \in Seq(A) /\ <<Bar>> \in Seq(LayoutToken) /\ Len(<<Bar>>) = 1
  <2>1. Bar \in Token /\ ~IsWord(Bar) BY DEF Bar, IsWord, Token
  <2>2. Bar \in A /\ Bar \in LayoutToken BY <2>1 DEF TokenOf, LayoutToken
  <2> HIDE DEF A
  <2>3. QED BY <2>2
<1>4. <<Bar>> \in Text /\ Body(<<Bar>>) = <<>> BY <1>3, BodyOfLayout
<1>5. t.header \in Nat BY DEF TableBlock
<1>6. ASSUME NEW x \in CellPart(b, t)
      PROVE  <<Bar>> \o x \in RowPart(b, t) /\ RowWords(b, t)[<<Bar>> \o x] = x /\ x \in BlockText(b)
  <2> DEFINE w == <<Bar>> \o x
  <2>1. x \in BlockText(b) /\ t.header + 1 + Len(x) <= TokenLimit BY DEF CellPart
  <2>2. x \in Text /\ Body(x) = x /\ Len(x) \in Nat /\ x \in Seq(A) BY <2>1, BlockTextIs
  <2> HIDE DEF A
  <2>3. w \in Seq(A) /\ Len(w) = Len(<<Bar>>) + Len(x) BY <1>3, <2>2, ConcatParts
  <2>4. Body(w) = <<>> \o x BY <1>4, <2>2, BodyConcat
  <2>5. <<>> \o x = x BY <2>2 DEF Text
  <2> HIDE DEF w
  <2>6. t.header + Len(w) <= TokenLimit BY <1>3, <1>5, <2>1, <2>2, <2>3, SizePolicy
  <2>7. w \in RowPart(b, t) BY <2>3, <2>6 DEF RowPart, A
  <2>8. QED BY <2>1, <2>4, <2>5, <2>7 DEF RowWords, w
<1>7. QED BY <1>1, <1>2, <1>6

\* The parts of a row that is not refused have room and the words of the row.
LEMMA RowFragmentsSound ==
  ASSUME NEW b \in Nat, NEW t \in TableBlock, NEW row \in Seq(BlockText(b)),
         RowTooLong(t, row) => t.header + 1 < TokenLimit
  PROVE  /\ RowFragments(b, t, row) \in Seq(RowPart(b, t))
         /\ Worded(RowWords(b, t), RowFragments(b, t, row)) = Seqs!FlattenSeq(row)
<1> DEFINE C == CellPart(b, t)
           w == TokenLimit - t.header - 1
           Fragments(cell) == IF cell = <<>> THEN << <<>> >> ELSE Pieces(cell, w)
           gs == [k \in DOMAIN row |-> Fragments(row[k])]
           cut == IF RowTooLong(t, row) THEN Seqs!FlattenSeq(gs) ELSE << Seqs!FlattenSeq(row) >>
           r == RowFragments(b, t, row)
           A == TokenOf({b})
           B == BlockText(b)
           n == Len(row)
<1>1. t.header \in Nat BY DEF TableBlock
<1>2. n \in Nat /\ DOMAIN row = 1..n /\ (\A k \in 1..n : row[k] \in B) OBVIOUS
<1>3. Seqs!FlattenSeq(row) \in B BY BlockTextFlatten
<1>4. r = [k \in DOMAIN cut |-> <<Bar>> \o cut[k]] BY DEF RowFragments
<1>5. C \subseteq B /\ B \subseteq Seq(A) /\ B \subseteq Seq(WordToken) BY DEF CellPart, BlockText
<1> HIDE DEF B, A, C, r, n
<1>6. cut \in Seq(C) /\ Seqs!FlattenSeq(cut) = Seqs!FlattenSeq(row)
  <2>1. CASE RowTooLong(t, row)
    <3>1. w \in Nat \ {0} /\ t.header + 1 + w = TokenLimit
      <4>1. t.header + 1 < TokenLimit BY <2>1
      <4>2. QED BY <4>1, <1>1, SizePolicy
    <3> HIDE DEF w
    <3>2. ASSUME NEW cell \in B
          PROVE  Fragments(cell) \in Seq(C) /\ Seqs!FlattenSeq(Fragments(cell)) = cell
      <4>1. cell \in Seq(A) /\ cell \in Seq(WordToken) BY <1>5
      <4>2. CASE cell = <<>>
        <5>1. Len(cell) = 0 /\ t.header + 1 + 0 <= TokenLimit BY <4>2, <1>1, <3>1, SizePolicy
        <5>2. cell \in C BY <5>1 DEF C, CellPart, B
        <5>3. Fragments(cell) = <<cell>> BY <4>2
        <5>4. <<cell>> \in Seq(C) BY <5>2
        <5>5. Seqs!FlattenSeq(<<cell>>) = cell BY <4>1, FlattenOne
        <5>6. QED BY <5>3, <5>4, <5>5
      <4>3. CASE cell # <<>>
        <5> DEFINE p == Pieces(cell, w)
        <5>1. p \in Seq(Seq(A)) /\ (\A k \in 1..Len(p) : Len(p[k]) \in Nat /\ Len(p[k]) <= w) /\ Seqs!FlattenSeq(p) = cell
          BY <3>1, <4>1, PiecesOf
        <5>2. p \in Seq(Seq(WordToken)) BY <3>1, <4>1, PiecesOf
        <5>3. Fragments(cell) = p BY <4>3
        <5> HIDE DEF p
        <5>4. ASSUME NEW k \in 1..Len(p) PROVE p[k] \in C
          <6> DEFINE x == p[k]
          <6>1. x \in Seq(A) /\ x \in Seq(WordToken) /\ Len(x) \in Nat /\ Len(x) <= w BY <5>1, <5>2
          <6> HIDE DEF x
          <6>2. t.header + 1 + Len(x) <= TokenLimit BY <6>1, <3>1, <1>1, SizePolicy
          <6>3. x \in BlockText(b) BY <6>1 DEF BlockText, A
          <6>4. QED BY <6>2, <6>3 DEF C, CellPart, x
        <5>5. p = [k \in 1..Len(p) |-> p[k]] /\ Len(p) \in Nat BY <5>1
        <5>6. p \in Seq(C) BY <5>4, <5>5
        <5>7. QED BY <5>1, <5>3, <5>6
      <4>4. QED BY <4>2, <4>3
    <3>3. ASSUME NEW k \in 1..n PROVE gs[k] \in Seq(C) /\ Seqs!FlattenSeq(gs[k]) = row[k]
      <4> DEFINE x == row[k]
      <4>1. x \in B /\ gs[k] = Fragments(x) BY <1>2
      <4> HIDE DEF x, gs, Fragments
      <4>2. QED BY <3>2, <4>1 DEF x
    <3>4. gs \in Seq(Seq(C)) /\ DOMAIN gs = 1..n
      <4> DEFINE Y == Seq(C)
      <4>1. gs = [k \in 1..n |-> gs[k]] BY <1>2
      <4>2. \A k \in 1..n : gs[k] \in Y BY <3>3
      <4> HIDE DEF Y, gs
      <4>3. gs \in Seq(Y) /\ DOMAIN gs = 1..n BY <1>2, <4>1, <4>2
      <4>4. QED BY <4>3 DEF Y
    <3>5. cut = Seqs!FlattenSeq(gs) BY <2>1
    <3> HIDE DEF gs, cut
    <3>6. cut \in Seq(C) BY <3>4, <3>5, FlattenType
    <3>7. gs \in Seq(Seq(Seq(A)))
      <4>1. C \subseteq Seq(A) BY <1>5
      <4>2. Seq(C) \subseteq Seq(Seq(A)) BY <4>1, SeqMonotonic
      <4>3. Seq(Seq(C)) \subseteq Seq(Seq(Seq(A)))
        <5> DEFINE Y == Seq(C)
                   Z == Seq(Seq(A))
        <5>1. Y \subseteq Z BY <4>2
        <5> HIDE DEF Y, Z
        <5>2. Seq(Y) \subseteq Seq(Z) BY <5>1, SeqMonotonic
        <5>3. QED BY <5>2 DEF Y, Z
      <4>4. QED BY <3>4, <4>3
    <3>8. Seqs!FlattenSeq(Seqs!FlattenSeq(gs)) = Seqs!FlattenSeq([k \in DOMAIN gs |-> Seqs!FlattenSeq(gs[k])]) BY <3>7, FlattenTwice
    <3>9. [k \in DOMAIN gs |-> Seqs!FlattenSeq(gs[k])] = row
      <4>1. row = [k \in 1..n |-> row[k]] BY <1>2
      <4>2. QED BY <4>1, <3>3, <3>4
    <3>10. QED BY <3>5, <3>6, <3>8, <3>9
  <2>2. CASE ~RowTooLong(t, row)
    <3> DEFINE x == Seqs!FlattenSeq(row)
    <3>1. ~(t.header + 1 + Len(x) > TokenLimit) BY <2>2 DEF RowTooLong
    <3>2. cut = <<x>> /\ x \in B BY <1>3, <2>2
    <3> HIDE DEF x, cut
    <3>3. x \in Seq(A) /\ Len(x) \in Nat BY <1>5, <3>2
    <3>4. t.header + 1 + Len(x) <= TokenLimit BY <1>1, <3>1, <3>3, SizePolicy
    <3>5. x \in C BY <3>2, <3>4 DEF C, CellPart, B
    <3>6. <<x>> \in Seq(C) BY <3>5
    <3>7. Seqs!FlattenSeq(<<x>>) = x BY <3>3, FlattenOne
    <3>8. QED BY <3>2, <3>6, <3>7 DEF x
  <2>3. QED BY <2>1, <2>2
<1> DEFINE P == RowPart(b, t)
           f == RowWords(b, t)
           m == Len(cut)
<1> HIDE DEF cut
<1>7. m \in Nat /\ DOMAIN cut = 1..m /\ (\A k \in 1..m : cut[k] \in C) /\ cut = [k \in 1..m |-> cut[k]] BY <1>6
<1>8. ASSUME NEW k \in 1..m PROVE <<Bar>> \o cut[k] \in P /\ f[<<Bar>> \o cut[k]] = cut[k]
  <2> DEFINE x == cut[k]
  <2>1. x \in CellPart(b, t) BY <1>7 DEF C
  <2> HIDE DEF x
  <2>2. <<Bar>> \o x \in P /\ f[<<Bar>> \o x] = x BY <2>1, RowPartIs
  <2>3. QED BY <2>2 DEF x
<1> HIDE DEF P, f, m
<1>9. r \in Seq(P) /\ DOMAIN r = 1..m /\ \A k \in 1..m : r[k] = <<Bar>> \o cut[k]
  <2> DEFINE E(k) == <<Bar>> \o cut[k]
  <2>1. r = [k \in 1..m |-> E(k)] BY <1>4, <1>7
  <2>2. \A k \in 1..m : E(k) \in P BY <1>8
  <2>a. m \in Nat BY <1>7
  <2>3. r \in Seq(P)
    <3> HIDE DEF E
    <3>1. QED BY <2>a, <2>1, <2>2
  <2>4. DOMAIN r = 1..m BY <2>1
  <2>5. \A k \in 1..m : r[k] = <<Bar>> \o cut[k] BY <2>1
  <2>6. QED BY <2>3, <2>4, <2>5
<1>10. Mapped(f, r) = cut
  <2>1. \A k \in 1..m : f[r[k]] = cut[k] BY <1>8, <1>9
  <2>2. Mapped(f, r) = [k \in 1..m |-> f[r[k]]] BY <1>9 DEF Mapped
  <2>3. QED BY <2>1, <2>2, <1>7
<1>11. QED BY <1>6, <1>9, <1>10 DEF Worded, f, P, r

RowsChunk(b, t) == [s \in Seq(RowPart(b, t)) |-> TableChunk(b, t, s)]

\* The header of a table is layout: it is repeated in every chunk.
LEMMA HeaderIs ==
  ASSUME NEW b \in Nat, NEW t \in TableBlock
  PROVE  /\ Header(b, t) \in Seq(TokenOf({b})) /\ Header(b, t) \in Text /\ Body(Header(b, t)) = <<>>
         /\ Len(Header(b, t)) = t.header /\ t.header \in Nat
<1> DEFINE h == Header(b, t)
           A == TokenOf({b})
           n == t.header
<1>1. n \in Nat BY DEF TableBlock
<1>2. h = [i \in 1..n |-> Title(b)] BY DEF Header
<1>3. Title(b) \in A /\ Title(b) \in LayoutToken
  <2>1. Title(b) \in Token /\ ~IsWord(Title(b)) BY DEF Title, IsWord, Token
  <2>2. QED BY <2>1 DEF TokenOf, LayoutToken
<1> HIDE DEF h, A, n
<1>4. h \in Seq(A) /\ h \in Seq(LayoutToken) /\ Len(h) = n BY <1>1, <1>2, <1>3
<1>5. h \in Text /\ Body(h) = <<>> BY <1>4, BodyOfLayout
<1>6. QED BY <1>1, <1>4, <1>5 DEF h, A, n

\* A chunk of parts of rows has their words, and is sound if it fits.
LEMMA TableChunkSound ==
  ASSUME NEW b \in Nat, NEW t \in TableBlock, NEW rows \in Seq(RowPart(b, t))
  PROVE  LET z == TableChunk(b, t, rows)
         IN /\ z \in AnyChunk /\ Body(z.text) = Worded(RowWords(b, t), rows)
            /\ z.text = Header(b, t) \o Seqs!FlattenSeq(rows)
            /\ ~Over(z) => z \in SoundChunks({b})
<1> DEFINE A == TokenOf({b})
           P == RowPart(b, t)
           h == Header(b, t)
           y == Seqs!FlattenSeq(rows)
           q == h \o y
           z == TableChunk(b, t, rows)
<1>1. rows \in Seq(Seq(A)) /\ rows \in Seq(Text)
  <2>1. P \subseteq Seq(A) BY DEF RowPart
  <2>2. P \subseteq Text BY RowPartIs
  <2> HIDE DEF P, A
  <2>3. rows \in Seq(P) BY DEF P
  <2>4. QED BY <2>1, <2>2, <2>3, SeqMonotonic
<1>2. h \in Seq(A) /\ h \in Text /\ Body(h) = <<>> BY HeaderIs
<1>3. y \in Seq(A)
  <2> HIDE DEF A
  <2>1. QED BY <1>1, FlattenType
<1>4. y \in Text /\ Body(y) = Worded(BodyOf, rows) BY <1>1, BodyFlatten
<1>5. Worded(BodyOf, rows) = Worded(RowWords(b, t), rows)
  <2>1. \A k \in DOMAIN rows : rows[k] \in P /\ rows[k] \in Text BY <1>1
  <2> HIDE DEF P
  <2>2. \A k \in DOMAIN rows : BodyOf[rows[k]] = RowWords(b, t)[rows[k]] BY <2>1 DEF BodyOf, RowWords, P
  <2>3. Mapped(BodyOf, rows) = Mapped(RowWords(b, t), rows) BY <2>2 DEF Mapped
  <2>4. QED BY <2>3 DEF Worded
<1>6. z = [kind |-> "table", text |-> q, sources |-> {b}] BY DEF TableChunk, Candidate
<1> HIDE DEF h, y, A
<1>7. q \in Seq(A) BY <1>2, <1>3, ConcatParts
<1>8. q \in Text /\ Body(q) = <<>> \o Body(y) BY <1>2, <1>4, BodyConcat
<1>9. <<>> \o Body(y) = Body(y)
  <2>1. Body(y) \in Text BY <1>4, BodyType
  <2>2. QED BY <2>1 DEF Text
<1> HIDE DEF q
<1>10. z \in AnyChunk
  <2>1. {b} \in SUBSET Nat OBVIOUS
  <2>2. "table" \in Kinds BY DEF Kinds
  <2>3. QED BY <1>6, <1>8, <2>1, <2>2 DEF AnyChunk
<1>11. z.text = q /\ z.kind = "table" /\ z.sources = {b} BY <1>6
<1>12. ~Over(z) => z \in SoundChunks({b}) BY <1>7, <1>10, <1>11 DEF SoundChunks, Sound, A
<1>13. QED BY <1>4, <1>5, <1>8, <1>9, <1>10, <1>11, <1>12 DEF q, h, y

\* A table that is not refused is cut into chunks that fit and have its words in their order.
LEMMA TableCandidatesSound ==
  ASSUME NEW b \in Nat \ {0}, NEW t \in TableBlock, ~TableRefused(b, t)
  PROVE  /\ TableCandidates(b, t) \in Seq(SoundChunks({b}))
         /\ Gist(TableCandidates(b, t)) = Span(b, 0, Total(Seqs!FlattenSeq(t.rows)))
<1> DEFINE P == RowPart(b, t)
           f == RowWords(b, t)
           S == SoundChunks({b})
           rows == TableRows(b, t)
           n == Len(rows)
           parts == [r \in DOMAIN rows |-> RowFragments(b, t, rows[r])]
           cut == Seqs!FlattenSeq(parts)
           whole == [r \in Runs(cut) |-> TableChunk(b, t, Run(cut, r))]
           finer == [k \in DOMAIN cut |-> <<>>]
           B == BlockText(b)
           words == Span(b, 0, Total(Seqs!FlattenSeq(t.rows)))
<1>1. TableCandidates(b, t) = Pack(Len(cut), whole, finer) BY DEF TableCandidates
<1>2. /\ rows \in Seq(Seq(B)) /\ Len(rows) = Len(t.rows) /\ t.rows \in Seq(Seq(Nat))
      /\ Seqs!FlattenSeq([r \in DOMAIN rows |-> Seqs!FlattenSeq(rows[r])]) = words
  BY TableRowsIs DEF TableBlock
<1>3. ASSUME NEW r \in 1..n PROVE RowTooLong(t, rows[r]) => t.header + 1 < TokenLimit
  <2>1. r \in DOMAIN t.rows BY <1>2
  <2>2. RowTooLong(t, rows[r]) => ~(t.header + 1 >= TokenLimit) BY <2>1 DEF TableRefused
  <2>3. t.header + 1 \in Nat BY DEF TableBlock
  <2>4. QED BY <2>2, <2>3, SizePolicy
<1> HIDE DEF rows, words, P, f, S
<1>4. n \in Nat /\ DOMAIN rows = 1..n BY <1>2
<1>5. ASSUME NEW r \in 1..n
      PROVE  parts[r] \in Seq(P) /\ Worded(f, parts[r]) = Seqs!FlattenSeq(rows[r])
  <2> DEFINE x == rows[r]
  <2>1. x \in Seq(BlockText(b)) /\ parts[r] = RowFragments(b, t, x) BY <1>2, <1>4
  <2>2. RowTooLong(t, x) => t.header + 1 < TokenLimit BY <1>3
  <2> HIDE DEF x, parts
  <2>3. b \in Nat OBVIOUS
  <2>4. RowFragments(b, t, x) \in Seq(P) /\ Worded(f, RowFragments(b, t, x)) = Seqs!FlattenSeq(x)
    BY <2>1, <2>2, <2>3, RowFragmentsSound DEF P, f
  <2>5. QED BY <2>1, <2>4 DEF x
<1>6. parts \in Seq(Seq(P)) /\ DOMAIN parts = 1..n
  <2> DEFINE Y == Seq(P)
  <2>1. parts = [r \in 1..n |-> parts[r]] BY <1>4
  <2>2. \A r \in 1..n : parts[r] \in Y BY <1>5
  <2> HIDE DEF Y, parts, n
  <2>3. parts \in Seq(Y) BY <1>4, <2>1, <2>2
  <2>4. DOMAIN parts = 1..n BY <2>1
  <2>5. QED BY <2>3, <2>4 DEF Y
<1>7. f \in Maps(P, Text) /\ f \in Maps(P, Seq(Token))
  <2>1. b \in Nat OBVIOUS
  <2>2. f \in Maps(P, Text) BY <2>1, RowPartIs DEF f, P
  <2>3. QED BY <2>2 DEF Text
<1> HIDE DEF parts, n
<1>8. cut \in Seq(P) BY <1>6, FlattenType
<1>9. Worded(f, cut) = words
  <2>1. Worded(f, cut) = Seqs!FlattenSeq(PerGroup(f, parts)) BY <1>6, <1>7, WordedGroups
  <2>2. PerGroup(f, parts) = [r \in DOMAIN rows |-> Seqs!FlattenSeq(rows[r])] BY <1>4, <1>5, <1>6 DEF PerGroup
  <2>3. QED BY <1>2, <2>1, <2>2
<1> HIDE DEF cut
<1> DEFINE chunkOf == RowsChunk(b, t)
<1>10. ASSUME NEW s \in Seq(P)
       PROVE  /\ chunkOf[s] = TableChunk(b, t, s)
              /\ TableChunk(b, t, s) \in AnyChunk /\ Body(TableChunk(b, t, s).text) = Worded(f, s)
              /\ TableChunk(b, t, s).text = Header(b, t) \o Seqs!FlattenSeq(s)
              /\ ~Over(TableChunk(b, t, s)) => TableChunk(b, t, s) \in S
  <2>1. b \in Nat /\ s \in Seq(RowPart(b, t)) BY DEF P
  <2>2. QED BY <2>1, TableChunkSound DEF RowsChunk, P, f, S
<1>11. Bundles(NonEmpty(P), f, S, chunkOf)
  <2>1. \A s \in NonEmpty(P) : s \in Seq(P) BY DEF NonEmpty
  <2> HIDE DEF chunkOf
  <2>2. QED BY <1>10, <2>1 DEF Bundles
<1>12. ASSUME NEW r \in Runs(cut)
       PROVE  whole[r] = chunkOf[Run(cut, r)] /\ Run(cut, r) \in Seq(P) /\ whole[r] = TableChunk(b, t, Run(cut, r))
  <2>1. r[1] \in 1..Len(cut) /\ r[2] \in r[1]..Len(cut) BY <1>8 DEF Runs
  <2>2. Run(cut, r) \in Seq(P)
    <3>1. SubSeq(cut, r[1], r[2]) \in Seq(P) BY <1>8, <2>1, RunOf
    <3>2. QED BY <3>1 DEF Run
  <2>3. QED BY <2>2, <1>10
<1> HIDE DEF chunkOf, whole, finer
<1>13. ASSUME NEW k \in 1..Len(cut) PROVE finer[k] \in Seq(S) /\ ~Over(whole[<<k, k>>])
  <2>1. finer[k] = <<>> BY <1>8 DEF finer
  <2>2. <<>> \in Seq(S) OBVIOUS
  <2> DEFINE x == cut[k]
             h == Header(b, t)
  <2>3. <<k, k>> \in Runs(cut) /\ Run(cut, <<k, k>>) = SubSeq(cut, k, k)
    <3>1. k \in k..Len(cut) BY <1>8
    <3>2. QED BY <1>8, <3>1, RunOf
  <2>4. SubSeq(cut, k, k) = <<x>> /\ x \in P
    <3>1. k \in Nat \ {0} /\ k \in 0..Len(cut) /\ k <= k + 1 /\ k - k + 1 = 1 /\ k + 1 - 1 = k BY <1>8
    <3>2. SubSeq(cut, k, k) \in Seq(P) /\ Len(SubSeq(cut, k, k)) = 1 /\ SubSeq(cut, k, k)[1] = x
      <4>1. /\ SubSeq(cut, k, k) \in Seq(P) /\ Len(SubSeq(cut, k, k)) = k - k + 1
            /\ \A i \in 1..(k - k + 1) : SubSeq(cut, k, k)[i] = cut[k + i - 1]
        BY <1>8, <3>1, SubSeqType
      <4>2. 1 \in 1..(k - k + 1) BY <3>1
      <4>3. QED BY <3>1, <4>1, <4>2
    <3>3. x \in P BY <1>8
    <3> DEFINE y == SubSeq(cut, k, k)
    <3> HIDE DEF y, x
    <3>4. y \in Seq(P) /\ Len(y) = 1 /\ y[1] = x BY <3>2 DEF y
    <3>5. y = <<x>> BY <3>4
    <3>6. QED BY <3>3, <3>5 DEF y
  <2>5. whole[<<k, k>>] = TableChunk(b, t, <<x>>) /\ <<x>> \in Seq(P) BY <1>12, <2>3, <2>4
  <2> HIDE DEF x
  <2>6. x \in Seq(TokenOf({b})) /\ t.header + Len(x) <= TokenLimit BY <2>4 DEF P, RowPart
  <2>7. Seqs!FlattenSeq(<<x>>) = x BY <2>6, FlattenOne
  <2>8. h \in Seq(TokenOf({b})) /\ Len(h) = t.header
    <3>1. b \in Nat OBVIOUS
    <3>2. QED BY <3>1, HeaderIs
  <2> HIDE DEF h
  <2>9. TableChunk(b, t, <<x>>).text = h \o x BY <1>10, <2>5, <2>7 DEF h
  <2>10. Len(h \o x) = t.header + Len(x) /\ Len(h \o x) \in Nat BY <2>6, <2>8, ConcatParts, SMTT(60)
  <2>11. Len(h \o x) <= TokenLimit BY <2>6, <2>10
  <2>12. ~(Len(h \o x) > TokenLimit) BY <2>10, <2>11, SizePolicy
  <2>13. QED BY <2>1, <2>2, <2>5, <2>9, <2>12 DEF Over
<1>14. Pack(Len(cut), whole, finer) \in Seq(S) /\ Gist(Pack(Len(cut), whole, finer)) = Worded(f, cut)
  <2>1. ItemCuts(cut, f, S, whole, finer) BY <1>13 DEF ItemCuts
  <2>2. ItemRuns(cut, chunkOf, whole) BY <1>12 DEF ItemRuns
  <2>3. S \subseteq AnyChunk BY SoundAny DEF S
  <2>4. QED BY ONLY <1>7, <1>8, <1>11, <2>1, <2>2, <2>3, PackItems
<1>15. QED BY <1>1, <1>9, <1>14 DEF S, words

(***************************************************************************)
(* Text                                                                    *)
(***************************************************************************)
\* A text without empty lines, and one that has them only between other tokens and apart.
InkText(B) == {x \in Seq(TokenOf(B)) : x # <<>> /\ \A i \in DOMAIN x : x[i] # Break}
Airy(t) ==
  /\ t # <<>> /\ t[1] # Break /\ t[Len(t)] # Break
  /\ \A i \in 1..(Len(t) - 1) : t[i] # Break \/ t[i + 1] # Break

\* Parts with empty lines between them.
Lead(part)    == <<Break>> \o part
Spread(parts) == [k \in DOMAIN parts |-> IF k = 1 THEN parts[k] ELSE Lead(parts[k])]

\* Tokens of named blocks are tokens.
LEMMA TokenText ==
  ASSUME NEW B
  PROVE  TokenOf(B) \subseteq Token /\ Seq(TokenOf(B)) \subseteq Text
<1>1. TokenOf(B) \subseteq Token BY DEF TokenOf
<1>2. QED BY <1>1, SeqMonotonic DEF Text

\* Text without empty lines has none side by side.
LEMMA InkIsAiry ==
  ASSUME NEW B, NEW x \in InkText(B)
  PROVE  x \in Seq(TokenOf(B)) /\ x \in Text /\ Airy(x)
<1> DEFINE A == TokenOf(B)
<1>1. x \in Seq(A) /\ x # <<>> /\ \A i \in DOMAIN x : x[i] # Break BY DEF InkText
<1>2. x \in Text BY <1>1, TokenText
<1> HIDE DEF A
<1>3. Len(x) \in Nat \ {0} /\ DOMAIN x = 1..Len(x) BY <1>1
<1>4. Airy(x) BY <1>1, <1>3 DEF Airy
<1>5. QED BY <1>1, <1>2, <1>4 DEF A

\* Text that goes on after one empty line has none side by side either.
LEMMA AirySpread ==
  ASSUME NEW B, NEW u \in Seq(TokenOf(B)), Airy(u), NEW x \in InkText(B)
  PROVE  LET w == u \o Lead(x)
         IN w \in Seq(TokenOf(B)) /\ Airy(w) /\ Body(w) = Body(u) \o Body(x) /\ Lead(x) \in Seq(TokenOf(B))
<1> DEFINE A == TokenOf(B)
           v == Lead(x)
           w == u \o v
           m == Len(u)
           n == Len(x)
<1>1. x \in Seq(A) /\ x # <<>> /\ (\A i \in DOMAIN x : x[i] # Break) BY DEF InkText
<1>2. x \in Text /\ u \in Text BY <1>1, TokenText
<1>3. Break \in A BY BreakToken DEF TokenOf
<1> HIDE DEF A
<1>4. u \in Seq(A) BY DEF A
<1>5. <<Break>> \in Seq(A) /\ Len(<<Break>>) = 1 BY <1>3
<1>6. v \in Seq(A) /\ Len(v) = 1 + n /\ v[1] = Break /\ (\A i \in 1..n : v[1 + i] = x[i]) /\ n \in Nat
  <2> DEFINE e == <<Break>>
             q == e \o x
  <2>1. q \in Seq(A) /\ Len(q) = Len(e) + n /\ n \in Nat
        /\ (\A i \in 1..Len(e) : q[i] = e[i]) /\ (\A i \in 1..n : q[Len(e) + i] = x[i])
    BY <1>1, <1>5, ConcatParts
  <2>2. e[1] = Break /\ Len(e) = 1 OBVIOUS
  <2> HIDE DEF e, q, n
  <2>3. q \in Seq(A) /\ Len(q) = 1 + n /\ q[1] = Break /\ (\A i \in 1..n : q[1 + i] = x[i]) BY <2>1, <2>2
  <2>4. v = q BY DEF Lead, q, e
  <2> HIDE DEF v
  <2>5. QED BY <2>1, <2>3, <2>4
<1> HIDE DEF v
<1>7. w \in Seq(A) /\ Len(w) = m + Len(v) /\ m \in Nat
      /\ (\A i \in 1..m : w[i] = u[i]) /\ (\A i \in 1..Len(v) : w[m + i] = v[i])
  <2>1. v \in Seq(A) BY <1>6
  <2>2. u \o v \in Seq(A) /\ Len(u \o v) = Len(u) + Len(v) /\ Len(u) \in Nat
        /\ (\A i \in 1..Len(u) : (u \o v)[i] = u[i]) /\ (\A i \in 1..Len(v) : (u \o v)[Len(u) + i] = v[i])
    BY ONLY <1>4, <2>1, ConcatParts
  <2>3. QED BY <2>2
<1>8. m \in Nat \ {0} /\ n \in Nat \ {0}
  <2>1. u # <<>> BY DEF Airy
  <2>2. QED BY <1>1, <1>4, <2>1
<1>9. u[1] # Break /\ u[m] # Break /\ \A i \in 1..(m - 1) : u[i] # Break \/ u[i + 1] # Break BY DEF Airy
<1> HIDE DEF w, m, n
<1>10. Len(w) = m + 1 + n /\ w[m + 1] = Break
       /\ (\A i \in 1..n : w[m + 1 + i] = x[i]) /\ \A i \in 1..n : x[i] # Break
  <2>1. Len(w) = m + 1 + n BY <1>6, <1>7, <1>8
  <2>2. w[m + 1] = Break
    <3>1. 1 \in 1..Len(v) BY <1>6, <1>8
    <3>2. QED BY <1>6, <1>7, <3>1
  <2>3. ASSUME NEW i \in 1..n PROVE w[m + 1 + i] = x[i]
    <3>0. i \in Nat /\ 1 <= i /\ i <= n /\ Len(v) = 1 + n /\ m \in Nat /\ n \in Nat BY <1>6, <1>8
    <3>a. 1 + i \in 1..Len(v) BY ONLY <3>0
    <3>1. 1 + i \in 1..Len(v) /\ m + (1 + i) = m + 1 + i BY ONLY <3>0, <3>a
    <3>2. w[m + (1 + i)] = v[1 + i] BY <1>7, <3>1
    <3>3. QED BY <1>6, <3>1, <3>2
  <2>4. \A i \in 1..n : x[i] # Break BY <1>1 DEF n
  <2>5. QED BY <2>1, <2>2, <2>3, <2>4
<1>11. Airy(w)
  <2>1. w # <<>> /\ Len(w) \in Nat BY <1>7, <1>8, <1>10
  <2>2. w[1] # Break
    <3>1. 1 \in 1..m BY <1>8
    <3>2. QED BY <1>7, <1>9, <3>1
  <2>3. w[Len(w)] # Break
    <3>1. n \in 1..n BY <1>8
    <3>2. QED BY <1>10, <3>1
  <2>4. ASSUME NEW i \in 1..(Len(w) - 1) PROVE w[i] # Break \/ w[i + 1] # Break
    <3>0. i \in 1..(m + n) BY <1>8, <1>10
    <3>1. CASE i < m
      <4>1. i \in 1..(m - 1) /\ i \in 1..m /\ i + 1 \in 1..m BY <1>8, <3>0, <3>1
      <4>2. QED BY <1>7, <1>9, <4>1
    <3>2. CASE i = m
      <4>1. m \in 1..m BY <1>8
      <4>2. QED BY <1>7, <1>9, <3>2, <4>1
    <3>3. CASE i > m
      <4> DEFINE j == i - m
      <4>1. j \in 1..n /\ i + 1 = m + 1 + j BY <1>8, <3>0, <3>3
      <4> HIDE DEF j
      <4>2. w[i + 1] = x[j] /\ x[j] # Break BY <1>10, <4>1
      <4>3. QED BY <4>2
    <3>4. i \in Int /\ m \in Int BY <1>8
    <3>5. QED BY <3>1, <3>2, <3>3, <3>4
  <2>5. QED BY <2>1, <2>2, <2>3, <2>4 DEF Airy
<1>12. Body(w) = Body(u) \o Body(x)
  <2>1. v \in Text /\ Body(v) = <<>> \o Body(x)
    <3>1. v = <<Break>> \o x BY DEF v, Lead
    <3>2. <<Break>> \in Text /\ Body(<<Break>>) = <<>> BY BreakToken
    <3>3. <<Break>> \o x \in Text /\ Body(<<Break>> \o x) = Body(<<Break>>) \o Body(x) BY <1>2, <3>2, BodyConcat
    <3>4. QED BY <3>1, <3>2, <3>3
  <2>2. Body(x) \in Text BY <1>2, BodyType
  <2>3. <<>> \o Body(x) = Body(x) BY <2>2 DEF Text
  <2>4. Body(w) = Body(u) \o Body(v) BY <1>2, <2>1, BodyConcat DEF w
  <2>5. QED BY <2>1, <2>3, <2>4
<1>13. QED BY <1>6, <1>7, <1>11, <1>12 DEF w, v, A

\* Parts with empty lines between them make a text that has their words in their order.
LEMMA SpreadText ==
  ASSUME NEW B, NEW parts \in Seq(InkText(B)), parts # <<>>
  PROVE  LET w == Seqs!FlattenSeq(Spread(parts))
         IN w \in Seq(TokenOf(B)) /\ Airy(w) /\ Body(w) = Worded(BodyOf, parts)
<1> DEFINE A == TokenOf(B)
           I == InkText(B)
           J(p) == Seqs!FlattenSeq(Spread(p))
           Good(p) == Spread(p) \in Seq(Seq(A)) /\ J(p) \in Seq(A) /\ Airy(J(p)) /\ Body(J(p)) = Worded(BodyOf, p)
           T == {p \in Seq(I) : p # <<>> => Good(p)}
<1>1. <<>> \in T OBVIOUS
<1>2. ASSUME NEW t \in T, NEW x \in I, t \in Seq(I) PROVE Append(t, x) \in T
  <2> DEFINE u == Append(t, x)
             n == Len(t)
             y == IF n = 0 THEN x ELSE Lead(x)
             s == Spread(t)
             V == Seq(A)
  <2>1. n \in Nat /\ u \in Seq(I) /\ Len(u) = n + 1 /\ (\A k \in 1..n : u[k] = t[k]) /\ u[n + 1] = x /\ u # <<>>
    <3> HIDE DEF I
    <3>1. QED BY <1>2, AppendProperties
  <2>2. x \in InkText(B) OBVIOUS
  <2>3. x \in V /\ x \in Text /\ Airy(x) /\ BodyOf \in Maps(Text, Seq(Token)) /\ BodyOf[x] = Body(x)
    <3>1. x \in Seq(TokenOf(B)) /\ x \in Text /\ Airy(x) BY <2>2, InkIsAiry
    <3>2. BodyOf \in Maps(Text, Seq(Token))
      <4>1. <<>> \in Seq(Text) OBVIOUS
      <4>2. BodyOf \in Maps(Text, Text) BY <4>1, BodyFlatten
      <4>3. QED BY <4>2 DEF Text
    <3>3. QED BY <3>1, <3>2 DEF BodyOf
  <2>4. t \in Seq(Text)
    <3>1. I \subseteq Text BY InkIsAiry
    <3> HIDE DEF I
    <3>2. QED BY <1>2, <3>1, SeqMonotonic
  <2>5. CASE t = <<>>
    <3>1. u = <<x>> BY <2>5
    <3>2. Spread(<<x>>) = <<x>> BY DEF Spread
    <3> HIDE DEF u, I, V
    <3>3. <<x>> \in Seq(V) BY <2>3
    <3>4. Seqs!FlattenSeq(<<x>>) = x
      <4>1. x \in Seq(A) BY <2>3 DEF V
      <4> HIDE DEF A
      <4>2. QED BY <4>1, FlattenOne
    <3>5. Worded(BodyOf, <<x>>) = BodyOf[x] BY <2>3, WordedOne
    <3>6. Good(u) BY <2>3, <3>1, <3>2, <3>3, <3>4, <3>5 DEF V
    <3> HIDE DEF Good
    <3>7. QED BY <2>1, <3>6 DEF u
  <2>6. CASE t # <<>>
    <3>1. Good(t) BY <1>2, <2>6
    <3>2. s \in Seq(V) /\ Len(s) = n /\ \A k \in 1..n : s[k] = IF k = 1 THEN t[k] ELSE Lead(t[k])
      <4>1. s \in Seq(V) BY <3>1
      <4>2. DOMAIN t = 1..n /\ s = [k \in 1..n |-> IF k = 1 THEN t[k] ELSE Lead(t[k])] BY <1>2 DEF Spread
      <4> HIDE DEF s, n, V
      <4>3. Len(s) = n BY <2>1, <4>1, <4>2
      <4>4. QED BY <4>1, <4>2, <4>3
    <3>3. J(t) \in Seq(TokenOf(B)) /\ Airy(J(t)) /\ Body(J(t)) = Worded(BodyOf, t) BY <3>1
    <3> DEFINE j == J(t)
               l == Lead(x)
               a == Append(s, l)
    <3> HIDE DEF j
    <3>4. /\ j \o l \in Seq(TokenOf(B)) /\ Airy(j \o l) /\ Body(j \o l) = Body(j) \o Body(x) /\ l \in Seq(TokenOf(B))
      BY <2>2, <3>3, AirySpread DEF j
    <3> HIDE DEF l
    <3>5. a \in Seq(V) /\ Len(a) = n + 1 /\ (\A k \in 1..n : a[k] = s[k]) /\ a[n + 1] = l
      <4>1. l \in V BY <3>4
      <4> HIDE DEF V, n, s
      <4>2. /\ a \in Seq(V) /\ Len(a) = Len(s) + 1 /\ (\A k \in 1..Len(s) : a[k] = s[k]) /\ a[Len(s) + 1] = l
        BY <3>2, <4>1, AppendProperties
      <4> HIDE DEF a
      <4>3. QED BY <3>2, <4>2
    <3>6. Spread(u) = a
      <4>1. Spread(u) = [k \in 1..(n + 1) |-> IF k = 1 THEN u[k] ELSE Lead(u[k])]
        <5>1. DOMAIN u = 1..(n + 1) BY <2>1
        <5> HIDE DEF u, n
        <5>2. QED BY <5>1 DEF Spread
      <4>2. n # 0 BY <2>6, <1>2
      <4> HIDE DEF u, n, s, a
      <4>3. a = [k \in 1..(n + 1) |-> a[k]] BY <2>1, <3>5
      <4>4. ASSUME NEW k \in 1..(n + 1) PROVE a[k] = IF k = 1 THEN u[k] ELSE Lead(u[k])
        <5>1. CASE k = n + 1
          <6>1. k # 1 BY <2>1, <4>2, <5>1
          <6>2. QED BY <5>1, <6>1, <2>1, <3>5 DEF l
        <5>2. CASE k # n + 1
          <6>1. k \in 1..n BY <2>1, <5>2
          <6>2. QED BY <6>1, <2>1, <3>2, <3>5
        <5>3. QED BY <5>1, <5>2
      <4>5. QED BY <4>1, <4>3, <4>4
    <3>7. J(u) = j \o l
      <4>1. s \in Seq(Seq(A)) /\ l \in Seq(A) BY <3>2, <3>4
      <4> HIDE DEF s, A
      <4>2. Seqs!FlattenSeq(a) = Seqs!FlattenSeq(s) \o l BY <4>1, FlattenAppend
      <4>3. QED BY <3>6, <4>2 DEF j, s
    <3>8. Worded(BodyOf, u) = Worded(BodyOf, t) \o Body(x)
      <4>1. Append(t, x) = t \o <<x>> /\ <<x>> \in Seq(Text) BY <2>3, <2>4, AppendIsConcat
      <4>2. Worded(BodyOf, t \o <<x>>) = Worded(BodyOf, t) \o Worded(BodyOf, <<x>>)
        <5> DEFINE e == <<x>>
        <5>1. e \in Seq(Text) /\ BodyOf \in Maps(Text, Seq(Token)) BY <2>3, <4>1
        <5> HIDE DEF e
        <5>2. Worded(BodyOf, t \o e) = Worded(BodyOf, t) \o Worded(BodyOf, e) BY ONLY <2>4, <5>1, WordedConcat
        <5>3. QED BY <5>2 DEF e
      <4>3. Worded(BodyOf, <<x>>) = BodyOf[x] BY <2>3, WordedOne
      <4>4. QED BY <2>3, <4>1, <4>2, <4>3
    <3>9. Spread(u) \in Seq(Seq(A)) BY <3>5, <3>6
    <3> HIDE DEF u, J, s, a
    <3>10. J(u) \in Seq(A) /\ Airy(J(u)) BY <3>4, <3>7
    <3>11. Body(J(u)) = Worded(BodyOf, u) BY <3>3, <3>4, <3>7, <3>8 DEF j
    <3>12. Good(u) BY <3>9, <3>10, <3>11 DEF J
    <3> HIDE DEF Good
    <3>13. QED BY <2>1, <3>12 DEF u
  <2>7. QED BY <2>5, <2>6
<1>3. Seq(I) \subseteq T
  <2> HIDE DEF T, I
  <2>1. QED BY <1>1, <1>2, SeqInduction
<1>4. Good(parts) BY <1>3
<1>5. QED BY <1>4

\* A chunk of text before it is cut by force: long perhaps, but never empty lines in a row.
ProseKinds == {"paragraph", "list_item"}
LooseChunks(R) ==
  {c \in AnyChunk : c.sources \subseteq R /\ c.kind \in ProseKinds /\ c.text \in Seq(TokenOf(c.sources)) /\ Airy(c.text)}

\* The words of chunks as words of items.
LEMMA GistWorded ==
  ASSUME NEW cs \in Seq(AnyChunk)
  PROVE  /\ [c \in AnyChunk |-> Body(c.text)] \in Maps(AnyChunk, Text)
         /\ Gist(cs) = Worded([c \in AnyChunk |-> Body(c.text)], cs)
<1> DEFINE f == [c \in AnyChunk |-> Body(c.text)]
<1>1. f \in Maps(AnyChunk, Text)
  <2>1. \A c \in AnyChunk : c.text \in Text BY DEF AnyChunk
  <2>2. \A c \in AnyChunk : Body(c.text) \in Text BY <2>1, BodyType
  <2>3. QED BY <2>2 DEF Maps
<1>2. \A k \in DOMAIN cs : cs[k] \in AnyChunk OBVIOUS
<1>3. Mapped(f, cs) = [k \in DOMAIN cs |-> Body(cs[k].text)] BY <1>2 DEF Mapped
<1>4. QED BY <1>1, <1>3 DEF Worded, Gist

\* Forced cuts fit, keep every word and leave no chunk of empty lines alone.
LEMMA ForceSafeSound ==
  ASSUME NEW R, NEW c \in LooseChunks(R)
  PROVE  ForceSafe(c) \in Seq(SoundChunks(R)) /\ Gist(ForceSafe(c)) = Body(c.text)
<1> DEFINE A == TokenOf(c.sources)
           t == c.text
           S == SoundChunks(R)
           l == Len(t)
<1>1. /\ c \in AnyChunk /\ c.sources \subseteq R /\ c.kind \in ProseKinds /\ t \in Seq(A) /\ Airy(t)
  BY DEF LooseChunks
<1>2. c.kind \notin {"code", "table"} BY <1>1 DEF ProseKinds
<1>3. t \in Text BY <1>1, TokenText
<1>4. l \in Nat \ {0} /\ t[1] # Break /\ t[l] # Break /\ \A i \in 1..(l - 1) : t[i] # Break \/ t[i + 1] # Break
  <2>1. t # <<>> BY <1>1 DEF Airy
  <2>2. l \in Nat \ {0} BY <1>3, <2>1 DEF Text
  <2>3. QED BY <1>1, <2>2 DEF Airy
<1>5. CASE ~Over(c)
  <2>1. Clean(t)
    <3>1. 1 \in DOMAIN t /\ 1 <= 2 BY <1>3, <1>4 DEF Text
    <3>2. QED BY <1>4, <3>1 DEF Clean
  <2>2. c \in S BY <1>1, <1>5, <2>1 DEF SoundChunks, Sound
  <2>3. ForceSafe(c) = <<c>> BY <1>5 DEF ForceSafe
  <2> HIDE DEF S
  <2>4. <<c>> \in Seq(S) BY <2>2
  <2>5. Gist(<<c>>) = Body(t) BY <1>1, GistOne
  <2>6. QED BY <2>3, <2>4, <2>5 DEF S
<1>6. CASE Over(c)
  <2> DEFINE cut == Pieces(t, FallbackTokens)
             m == Len(cut)
             r == ForceSafe(c)
  <2>1. FallbackTokens \in Nat \ {0} /\ FallbackTokens >= 2 /\ FallbackTokens <= TokenLimit BY SizePolicy
  <2>2. /\ cut \in Seq(Seq(A))
        /\ \A k \in 1..m : /\ Len(cut[k]) \in Nat /\ Len(cut[k]) <= FallbackTokens
                           /\ \E a \in 1..l : \E b \in a..l :
                                /\ cut[k] = SubSeq(t, a, b) /\ b - a < FallbackTokens
                                /\ b - a = FallbackTokens - 1 \/ b = l
        /\ Seqs!FlattenSeq(cut) = t
    <3> HIDE DEF A, t
    <3>1. QED BY <1>1, <2>1, PiecesOf
  <2>3. r = [k \in DOMAIN cut |-> [c EXCEPT !.text = cut[k]]] BY <1>6 DEF ForceSafe
  <2> HIDE DEF cut, r
  <2>4. m \in Nat /\ DOMAIN cut = 1..m BY <2>2
  <2>5. ASSUME NEW k \in 1..m PROVE cut[k] \in Seq(A) /\ cut[k] \in Text /\ Clean(cut[k]) /\ Len(cut[k]) \in Nat /\ Len(cut[k]) <= TokenLimit
    <3> DEFINE x == cut[k]
    <3>1. x \in Seq(A) /\ Len(x) \in Nat /\ Len(x) <= TokenLimit
      <4>1. x \in Seq(A) BY <2>2
      <4>2. Len(x) \in Nat /\ Len(x) <= FallbackTokens BY <2>2
      <4> HIDE DEF x
      <4>3. Len(x) <= TokenLimit BY <2>1, <4>2, SizePolicy
      <4>4. QED BY <4>1, <4>2, <4>3
    <3>2. PICK a \in 1..l, b \in 1..l : /\ a <= b /\ x = SubSeq(t, a, b)
                                        /\ b - a = FallbackTokens - 1 \/ b = l
      <4>1. \E a \in 1..l : \E b \in a..l : x = SubSeq(t, a, b) /\ (b - a = FallbackTokens - 1 \/ b = l) BY <2>2
      <4>2. \A a \in 1..l : \A b \in a..l : b \in 1..l /\ a <= b BY <1>4
      <4> HIDE DEF x, l
      <4>3. QED BY <4>1, <4>2
    <3> HIDE DEF x, t, l, A
    <3>3. a \in Nat \ {0} /\ b \in 0..Len(t) /\ a <= b + 1 BY <1>4, <3>2 DEF l
    <3>4. Len(x) = b - a + 1 /\ \A i \in 1..(b - a + 1) : x[i] = t[a + i - 1] BY <1>1, <3>2, <3>3, SubSeqType
    <3>5. x[1] = t[a] /\ 1 \in DOMAIN x
      <4>1. 1 \in 1..(b - a + 1) /\ a + 1 - 1 = a BY <1>4, <3>2
      <4>2. DOMAIN x = 1..(b - a + 1) BY <3>1, <3>4
      <4>3. QED BY <3>4, <4>1, <4>2
    <3>6. Clean(x)
      <4>1. CASE a = b
        <5>1. b = l BY <1>4, <2>1, <3>2, <4>1
        <5>2. x[1] # Break BY <1>4, <3>5, <4>1, <5>1
        <5>3. QED BY <3>5, <5>2 DEF Clean
      <4>2. CASE a # b
        <5>1. 2 \in 1..(b - a + 1) /\ a + 2 - 1 = a + 1 /\ a \in 1..(l - 1) BY <1>4, <3>2, <4>2
        <5>2. x[2] = t[a + 1] /\ 2 \in DOMAIN x
          <6>1. DOMAIN x = 1..(b - a + 1) BY <3>1, <3>4
          <6>2. QED BY <3>4, <5>1, <6>1
        <5>3. x[1] # Break \/ x[2] # Break BY <1>4, <3>5, <5>1, <5>2
        <5>4. 1 <= 2 /\ 2 <= 2 OBVIOUS
        <5>5. QED BY <3>5, <5>2, <5>3, <5>4 DEF Clean
      <4>3. QED BY <4>1, <4>2
    <3>7. x \in Text BY <3>1, TokenText DEF A
    <3>8. QED BY <3>1, <3>6, <3>7 DEF x
  <2>6. ASSUME NEW k \in 1..m PROVE [c EXCEPT !.text = cut[k]] \in S /\ [c EXCEPT !.text = cut[k]].text = cut[k]
    <3> DEFINE x == cut[k]
               z == [c EXCEPT !.text = x]
    <3>1. x \in Seq(A) /\ x \in Text /\ Clean(x) /\ Len(x) \in Nat /\ Len(x) <= TokenLimit BY <2>5
    <3> HIDE DEF x
    <3>2. c.kind \in Kinds /\ c.sources \in SUBSET Nat /\ c = [kind |-> c.kind, text |-> c.text, sources |-> c.sources]
      BY <1>1 DEF AnyChunk
    <3>3. z = [kind |-> c.kind, text |-> x, sources |-> c.sources] BY <1>1 DEF AnyChunk
    <3> HIDE DEF z
    <3>4. z \in AnyChunk BY <3>1, <3>2, <3>3 DEF AnyChunk
    <3>5. z.kind = c.kind /\ z.text = x /\ z.sources = c.sources BY <3>3
    <3>6. ~Over(z) BY <3>1, <3>5, SizePolicy DEF Over
    <3>7. Sound(z) BY <3>1, <3>5, <3>6 DEF Sound
    <3>8. z \in S BY <1>1, <3>4, <3>5, <3>7 DEF SoundChunks
    <3>9. QED BY <3>5, <3>8 DEF z, x
  <2>7. r \in Seq(S) /\ DOMAIN r = 1..m /\ \A k \in 1..m : r[k].text = cut[k]
    <3> DEFINE E(k) == [c EXCEPT !.text = cut[k]]
    <3>1. r = [k \in 1..m |-> E(k)] BY <2>3, <2>4
    <3>2. \A k \in 1..m : E(k) \in S /\ E(k).text = cut[k] BY <2>6
    <3> HIDE DEF E, S, m
    <3>3. r \in Seq(S) BY <2>4, <3>1, <3>2
    <3>4. QED BY <3>1, <3>2, <3>3
  <2>8. Gist(r) = Worded(BodyOf, cut)
    <3>1. Gist(r) = Seqs!FlattenSeq([k \in 1..m |-> Body(r[k].text)]) BY <2>7 DEF Gist
    <3>2. Mapped(BodyOf, cut) = [k \in 1..m |-> Body(cut[k])]
      <4>1. \A k \in 1..m : BodyOf[cut[k]] = Body(cut[k]) BY <2>5 DEF BodyOf
      <4>2. QED BY <2>4, <4>1 DEF Mapped
    <3>3. [k \in 1..m |-> Body(r[k].text)] = [k \in 1..m |-> Body(cut[k])] BY <2>7
    <3>4. QED BY <3>1, <3>2, <3>3 DEF Worded
  <2>9. cut \in Seq(Text)
    <3>1. cut = [k \in 1..m |-> cut[k]] BY <2>2, <2>4
    <3> HIDE DEF m
    <3>2. QED BY <2>4, <2>5, <3>1
  <2>10. Body(t) = Worded(BodyOf, cut) BY <2>2, <2>9, BodyFlatten
  <2>11. QED BY <2>7, <2>8, <2>10 DEF r
<1>7. QED BY <1>5, <1>6

\* A sentence of a block, and its text.
UnitOf(R) == {u \in [block: R, kind: ProseKinds, text: Text] : u.text # <<>> /\ u.text \in BlockText(u.block)}
UnitText(R) == [u \in UnitOf(R) |-> u.text]

\* The fields of a unit and its words.
LEMMA UnitIs ==
  ASSUME NEW R, R \subseteq Nat \ {0}
  PROVE  /\ UnitText(R) \in Maps(UnitOf(R), Text)
         /\ \A u \in UnitOf(R) : /\ UnitText(R)[u] = u.text /\ u.text \in Text /\ u.text # <<>> /\ Body(u.text) = u.text
                                 /\ u.block \in R /\ u.block \in Nat /\ u.kind \in ProseKinds
                                 /\ u.text \in Seq(TokenOf({u.block})) /\ u.text \in Seq(WordToken)
<1>1. \A u \in UnitOf(R) : /\ u.text \in Text /\ u.text # <<>> /\ u.block \in R /\ u.kind \in ProseKinds
                           /\ u.text \in BlockText(u.block) /\ UnitText(R)[u] = u.text
  BY DEF UnitOf, UnitText
<1>2. UnitText(R) \in Maps(UnitOf(R), Text) BY <1>1 DEF UnitText, Maps
<1>3. ASSUME NEW u \in UnitOf(R)
      PROVE  u.block \in Nat /\ Body(u.text) = u.text /\ u.text \in Seq(TokenOf({u.block})) /\ u.text \in Seq(WordToken)
  <2> DEFINE b == u.block
             t == u.text
  <2>1. b \in Nat /\ t \in BlockText(b) BY <1>1
  <2> HIDE DEF b, t
  <2>2. Body(t) = t /\ t \in Seq(TokenOf({b})) BY <2>1, BlockTextIs
  <2>3. t \in Seq(WordToken) BY <2>1 DEF BlockText
  <2>4. QED BY <2>1, <2>2, <2>3 DEF b, t
<1>4. QED BY <1>1, <1>2, <1>3

\* A unit has no empty lines.
LEMMA UnitInk ==
  ASSUME NEW R, R \subseteq Nat \ {0}, NEW u \in UnitOf(R), NEW B, u.block \in B
  PROVE  u.text \in InkText(B)
<1> DEFINE t == u.text
           b == u.block
<1>1. t # <<>> /\ t \in Seq(TokenOf({b})) /\ t \in Seq(WordToken) /\ b \in B BY UnitIs
<1> HIDE DEF t, b
<1>2. TokenOf({b}) \subseteq TokenOf(B) BY <1>1 DEF TokenOf
<1>3. t \in Seq(TokenOf(B)) BY <1>1, <1>2, SeqMonotonic
<1>4. \A i \in DOMAIN t : t[i] \in WordToken BY <1>1
<1>5. \A a \in WordToken : a # Break BY DEF WordToken, Break, IsWord
<1>6. QED BY <1>1, <1>3, <1>4, <1>5 DEF InkText, t

\* The headings before a text have no words.
Titles(path) == [k \in DOMAIN path |-> Title(path[k])]

\* The headings of a path have neither empty lines nor words.
LEMMA TitlesInk ==
  ASSUME NEW B, NEW path \in Seq(Nat \ {0}), path # <<>>
  PROVE  Titles(path) \in InkText(B) /\ Titles(path) \in Text /\ Body(Titles(path)) = <<>>
<1> DEFINE n == Len(path)
           A == TokenOf(B)
           t == Titles(path)
<1>1. n \in Nat \ {0} /\ DOMAIN path = 1..n /\ \A k \in 1..n : path[k] \in Nat \ {0} OBVIOUS
<1>2. t = [k \in 1..n |-> Title(path[k])] BY <1>1 DEF Titles
<1>3. ASSUME NEW p \in Nat \ {0} PROVE Title(p) \in A /\ Title(p) \in LayoutToken /\ Title(p) # Break
  <2>1. Title(p) = <<p, 0>> /\ Break = <<0, 0>> BY DEF Title, Break
  <2>2. Title(p) \in Token /\ ~IsWord(Title(p)) BY <2>1 DEF IsWord, Token
  <2>3. Title(p) # Break BY <2>1
  <2>4. QED BY <2>2, <2>3 DEF TokenOf, LayoutToken
<1>4. \A k \in 1..n : Title(path[k]) \in A /\ Title(path[k]) \in LayoutToken /\ Title(path[k]) # Break BY <1>1, <1>3
<1> HIDE DEF n, A, t
<1>5. t \in Seq(A) /\ t \in Seq(LayoutToken) /\ t # <<>> /\ DOMAIN t = 1..n /\ \A k \in 1..n : t[k] # Break
  <2> DEFINE E(k) == Title(path[k])
  <2>1. \A k \in 1..n : E(k) \in A /\ E(k) \in LayoutToken /\ E(k) # Break BY <1>4
  <2>2. t = [k \in 1..n |-> E(k)] BY <1>2
  <2> HIDE DEF E
  <2>3. t \in Seq(A) BY <1>1, <2>1, <2>2
  <2>4. t \in Seq(LayoutToken) BY <1>1, <2>1, <2>2
  <2>5. DOMAIN t = 1..n /\ \A k \in 1..n : t[k] # Break BY <2>1, <2>2
  <2>6. t # <<>> BY <1>1, <2>5
  <2>7. QED BY <2>3, <2>4, <2>5, <2>6
<1>6. t \in InkText(B) BY <1>5 DEF InkText, A
<1>7. t \in Text /\ Body(t) = <<>> BY <1>5, BodyOfLayout
<1>8. QED BY <1>6, <1>7 DEF t

\* The chunk of some sentences of a region has their words in their order.
LEMMA RenderIs ==
  ASSUME NEW R, R \subseteq Nat \ {0}, NEW path \in Seq(Nat \ {0}), NEW units \in NonEmpty(UnitOf(R))
  PROVE  Render(path, units) \in LooseChunks(R) /\ Body(Render(path, units).text) = Worded(UnitText(R), units)
<1> DEFINE I == UnitOf(R)
           n == Len(units)
           B == {units[k].block : k \in DOMAIN units}
           K == InkText(B)
           titles == Titles(path)
           head == IF path = <<>> THEN <<>> ELSE <<titles>>
           texts == [k \in DOMAIN units |-> units[k].text]
           parts == head \o texts
           w == Seqs!FlattenSeq(Spread(parts))
           z == Render(path, units)
<1>1. units \in Seq(I) /\ units # <<>> BY DEF NonEmpty
<1>2. n \in Nat \ {0} /\ DOMAIN units = 1..n /\ \A k \in 1..n : units[k] \in I
  <2> HIDE DEF I
  <2>1. QED BY <1>1
<1>3. \A k \in 1..n : units[k].block \in B /\ units[k].block \in R /\ units[k].block \in Nat BY <1>2, UnitIs
<1>4. B \subseteq R /\ B \in SUBSET Nat BY <1>2, <1>3
<1>5. z = [kind |-> units[1].kind, text |-> w, sources |-> B] BY DEF Render, Candidate, Spread, Lead, Titles
<1> HIDE DEF B, z, titles
<1>6. texts \in Seq(K) /\ texts \in Seq(Text) /\ Len(texts) = n /\ \A k \in 1..n : texts[k] = units[k].text
  <2>1. \A k \in 1..n : units[k].text \in K BY <1>2, <1>3, UnitInk
  <2>2. \A k \in 1..n : units[k].text \in Text BY <1>2, UnitIs
  <2>3. texts = [k \in 1..n |-> units[k].text] BY <1>2
  <2> DEFINE E(k) == units[k].text
  <2>4. \A k \in 1..n : E(k) \in K /\ E(k) \in Text BY <2>1, <2>2
  <2>5. texts = [k \in 1..n |-> E(k)] BY <2>3
  <2>6. n \in Nat BY <1>2
  <2> HIDE DEF E, K, texts, n
  <2>7. texts \in Seq(K) BY <2>4, <2>5, <2>6
  <2>8. texts \in Seq(Text) BY <2>4, <2>5, <2>6
  <2>9. Len(texts) = n /\ \A k \in 1..n : texts[k] = E(k) BY <2>5, <2>6
  <2>10. QED BY <2>7, <2>8, <2>9 DEF E
<1>7. BodyOf \in Maps(Text, Seq(Token))
  <2>1. <<>> \in Seq(Text) OBVIOUS
  <2>2. BodyOf \in Maps(Text, Text) BY <2>1, BodyFlatten
  <2>3. QED BY <2>2 DEF Text
<1>8. head \in Seq(K) /\ head \in Seq(Text) /\ Worded(BodyOf, head) = <<>>
  <2>1. CASE path = <<>>
    <3>1. head = <<>> BY <2>1
    <3>2. <<>> \in Seq(K) /\ <<>> \in Seq(Text) OBVIOUS
    <3>3. Worded(BodyOf, <<>>) = <<>> BY <1>7, WordedEmpty
    <3>4. QED BY <3>1, <3>2, <3>3
  <2>2. CASE path # <<>>
    <3>1. titles \in K /\ titles \in Text /\ Body(titles) = <<>> BY <2>2, TitlesInk DEF titles
    <3>2. head = <<titles>> BY <2>2
    <3> HIDE DEF K, head
    <3>3. <<titles>> \in Seq(K) /\ <<titles>> \in Seq(Text) BY <3>1
    <3>4. Worded(BodyOf, <<titles>>) = BodyOf[titles] BY <1>7, <3>1, WordedOne
    <3>5. BodyOf[titles] = <<>> BY <3>1 DEF BodyOf
    <3>6. QED BY <3>2, <3>3, <3>4, <3>5
  <2>3. QED BY <2>1, <2>2
<1> HIDE DEF head, texts, K
<1>9. parts \in Seq(K) /\ parts # <<>> /\ Worded(BodyOf, parts) = <<>> \o Worded(BodyOf, texts)
  <2>1. parts \in Seq(K) /\ Len(parts) = Len(head) + Len(texts) /\ Len(head) \in Nat BY <1>6, <1>8, ConcatParts
  <2>2. parts # <<>>
    <3> HIDE DEF parts, n
    <3>1. Len(parts) # 0 BY <1>2, <1>6, <2>1
    <3>2. QED BY <3>1
  <2>3. Worded(BodyOf, head \o texts) = Worded(BodyOf, head) \o Worded(BodyOf, texts)
    <3>1. head \in Seq(Text) /\ texts \in Seq(Text) BY <1>6, <1>8
    <3>2. QED BY ONLY <1>7, <3>1, WordedConcat
  <2>4. QED BY <1>8, <2>1, <2>2, <2>3
<1> HIDE DEF parts
<1>10. w \in Seq(TokenOf(B)) /\ Airy(w) /\ Body(w) = Worded(BodyOf, parts)
  <2>1. parts \in Seq(InkText(B)) /\ parts # <<>> BY <1>9 DEF K
  <2>2. QED BY <2>1, SpreadText
<1>11. Worded(BodyOf, texts) = Worded(UnitText(R), units)
  <2>1. \A k \in 1..n : BodyOf[texts[k]] = units[k].text
    <3>1. \A k \in 1..n : texts[k] = units[k].text BY <1>6
    <3>2. \A k \in 1..n : units[k].text \in Text /\ Body(units[k].text) = units[k].text BY <1>2, UnitIs
    <3>3. ASSUME NEW k \in 1..n PROVE BodyOf[texts[k]] = units[k].text
      <4> DEFINE x == units[k].text
      <4>1. texts[k] = x /\ x \in Text /\ Body(x) = x BY <3>1, <3>2
      <4> HIDE DEF x
      <4>2. BodyOf[x] = Body(x) BY <4>1 DEF BodyOf
      <4>3. QED BY <4>1, <4>2 DEF x
    <3>4. QED BY <3>3
  <2>2. \A k \in 1..n : UnitText(R)[units[k]] = units[k].text BY <1>2, UnitIs
  <2>3. DOMAIN texts = 1..n BY <1>6
  <2>4. Mapped(BodyOf, texts) = [k \in 1..n |-> BodyOf[texts[k]]] BY <2>3 DEF Mapped
  <2>5. Mapped(UnitText(R), units) = [k \in 1..n |-> UnitText(R)[units[k]]] BY <1>2 DEF Mapped
  <2> HIDE DEF n, I
  <2>6. Mapped(BodyOf, texts) = Mapped(UnitText(R), units) BY <2>1, <2>2, <2>4, <2>5
  <2>7. QED BY <2>6 DEF Worded
<1>12. Worded(UnitText(R), units) \in Seq(Token)
  <2>1. UnitText(R) \in Maps(UnitOf(R), Seq(Token)) BY UnitIs DEF Text
  <2>2. QED BY <1>1, <2>1, WordedType
<1>13. <<>> \o Worded(UnitText(R), units) = Worded(UnitText(R), units) BY <1>12
<1> HIDE DEF w
<1>14. w \in Text BY <1>10, TokenText
<1>15. units[1].kind \in ProseKinds /\ units[1].kind \in Kinds
  <2>1. 1 \in 1..n BY <1>2
  <2>2. units[1].kind \in ProseKinds BY <1>2, <2>1, UnitIs
  <2>3. QED BY <2>2 DEF ProseKinds, Kinds
<1>16. z \in AnyChunk BY <1>4, <1>5, <1>14, <1>15 DEF AnyChunk
<1>17. z.kind = units[1].kind /\ z.text = w /\ z.sources = B BY <1>5
<1>18. z \in LooseChunks(R) BY <1>4, <1>10, <1>15, <1>16, <1>17 DEF LooseChunks
<1>19. QED BY <1>9, <1>10, <1>11, <1>13, <1>17, <1>18 DEF z

\* Chunks that may be too long are chunks.
LEMMA LooseAny ==
  ASSUME NEW R
  PROVE  LooseChunks(R) \subseteq AnyChunk
BY DEF LooseChunks

\* The words of sequences of chunks that follow each other.
ChunkWords == [c \in AnyChunk |-> Body(c.text)]

\* Chunks that are flattened keep their words.
LEMMA GistFlatten ==
  ASSUME NEW ss \in Seq(Seq(AnyChunk))
  PROVE  Gist(Seqs!FlattenSeq(ss)) = Seqs!FlattenSeq([k \in DOMAIN ss |-> Gist(ss[k])])
<1> DEFINE f == ChunkWords
           all == Seqs!FlattenSeq(ss)
           Y == Seq(AnyChunk)
<1>1. f \in Maps(AnyChunk, Text) /\ f \in Maps(AnyChunk, Seq(Token)) /\ \A cs \in Y : Gist(cs) = Worded(f, cs)
  <2>1. \A cs \in Y : f \in Maps(AnyChunk, Text) /\ Gist(cs) = Worded(f, cs) BY GistWorded DEF ChunkWords
  <2>2. <<>> \in Y OBVIOUS
  <2>3. f \in Maps(AnyChunk, Text) BY <2>1, <2>2
  <2>4. QED BY <2>1, <2>3 DEF Text
<1> HIDE DEF f
<1>2. all \in Y BY FlattenType
<1>3. Worded(f, all) = Seqs!FlattenSeq(PerGroup(f, ss)) BY <1>1, WordedGroups
<1>4. PerGroup(f, ss) = [k \in DOMAIN ss |-> Gist(ss[k])]
  <2>1. \A k \in DOMAIN ss : ss[k] \in Y OBVIOUS
  <2> HIDE DEF Y
  <2>2. \A k \in DOMAIN ss : Worded(f, ss[k]) = Gist(ss[k]) BY <1>1, <2>1
  <2>3. QED BY <2>2 DEF PerGroup
<1>5. QED BY <1>1, <1>2, <1>3, <1>4

\* The chunk of a sequence of sentences.
Rendered(path, R) == [s \in NonEmpty(UnitOf(R)) |-> Render(path, s)]

\* A segment is cut into chunks that fit and have its sentences' words in their order.
LEMMA TextCandidatesSound ==
  ASSUME NEW R, R \subseteq Nat \ {0}, NEW path \in Seq(Nat \ {0}), NEW units \in Seq(UnitOf(R))
  PROVE  /\ TextCandidates(path, units) \in Seq(SoundChunks(R))
         /\ Gist(TextCandidates(path, units)) = Worded(UnitText(R), units)
<1> DEFINE I == UnitOf(R)
           f == UnitText(R)
           L == LooseChunks(R)
           S == SoundChunks(R)
           n == Len(units)
           whole == [r \in Runs(units) |-> Render(path, Run(units, r))]
           finer == [k \in DOMAIN units |-> << Render(path, <<units[k]>>) >>]
           chunkOf == Rendered(path, R)
           split == Pack(n, whole, finer)
           safe == [k \in DOMAIN split |-> ForceSafe(split[k])]
<1>1. TextCandidates(path, units) = Seqs!FlattenSeq(safe) BY DEF TextCandidates
<1>2. n \in Nat /\ DOMAIN units = 1..n /\ \A k \in 1..n : units[k] \in I
  <2> HIDE DEF I
  <2>1. units \in Seq(I) BY DEF I
  <2>2. QED BY <2>1
<1>3. f \in Maps(I, Text) /\ L \subseteq AnyChunk BY UnitIs, LooseAny
<1>4. ASSUME NEW s \in NonEmpty(I)
      PROVE  chunkOf[s] = Render(path, s) /\ Render(path, s) \in L /\ Body(Render(path, s).text) = Worded(f, s)
  BY RenderIs DEF Rendered
<1>5. units \in Seq(I) OBVIOUS
<1> HIDE DEF I, f, chunkOf, L
<1>6. Bundles(NonEmpty(I), f, L, chunkOf)
  <2>1. \A s \in NonEmpty(I) : chunkOf[s] \in L /\ chunkOf[s] \in AnyChunk /\ Body(chunkOf[s].text) = Worded(f, s) BY <1>3, <1>4
  <2>2. QED BY <2>1 DEF Bundles
<1>7. ASSUME NEW r \in Runs(units) PROVE whole[r] = chunkOf[Run(units, r)]
  <2>1. r[1] \in 1..Len(units) /\ r[2] \in r[1]..Len(units) BY <1>5 DEF Runs
  <2>2. Run(units, r) \in NonEmpty(I)
    <3>1. SubSeq(units, r[1], r[2]) \in Seq(I) /\ SubSeq(units, r[1], r[2]) # <<>> BY <1>5, <2>1, RunOf
    <3>2. QED BY <3>1 DEF Run, NonEmpty
  <2>3. QED BY <2>2, <1>4
<1>8. ASSUME NEW k \in 1..n PROVE finer[k] \in Seq(L) /\ Gist(finer[k]) = f[units[k]]
  <2> DEFINE u == units[k]
             e == <<u>>
             c == Render(path, e)
  <2>1. u \in I /\ finer[k] = <<c>> BY <1>2
  <2> HIDE DEF u, finer
  <2>2. e \in NonEmpty(I)
    <3>1. e \in Seq(I) /\ e # <<>> BY <2>1
    <3>2. QED BY <3>1 DEF NonEmpty
  <2>3. Worded(f, e) = f[u]
    <3>1. f \in Maps(I, Seq(Token)) BY <1>3 DEF Text
    <3>2. QED BY <2>1, <3>1, WordedOne
  <2> HIDE DEF e
  <2>4. c \in L /\ Body(c.text) = Worded(f, e) BY <1>4, <2>2
  <2> HIDE DEF c
  <2>5. <<c>> \in Seq(L) /\ c \in AnyChunk BY <1>3, <2>4
  <2>6. Gist(<<c>>) = Body(c.text) BY <2>5, GistOne
  <2>7. QED BY <2>1, <2>3, <2>4, <2>5, <2>6 DEF u
<1> HIDE DEF whole, finer, n
<1>9. split \in Seq(L) /\ Gist(split) = Worded(f, units)
  <2>1. ItemCuts(units, f, L, whole, finer) BY <1>8 DEF n, ItemCuts
  <2>2. ItemRuns(units, chunkOf, whole) BY <1>7 DEF ItemRuns
  <2>3. Pack(Len(units), whole, finer) \in Seq(L) /\ Gist(Pack(Len(units), whole, finer)) = Worded(f, units)
    BY ONLY <1>3, <1>5, <1>6, <2>1, <2>2, PackItems, SMTT(60)
  <2>4. QED BY <2>3 DEF n
<1> HIDE DEF split, safe, S
<1> DEFINE m == Len(split)
<1>10. m \in Nat /\ DOMAIN split = 1..m /\ \A k \in 1..m : split[k] \in L BY <1>9
<1> HIDE DEF m
<1>11. ASSUME NEW k \in 1..m PROVE ForceSafe(split[k]) \in Seq(S) /\ Gist(ForceSafe(split[k])) = Body(split[k].text)
  <2> DEFINE c == split[k]
  <2>1. c \in LooseChunks(R) BY <1>10 DEF L
  <2> HIDE DEF c
  <2>2. ForceSafe(c) \in Seq(S) /\ Gist(ForceSafe(c)) = Body(c.text) BY <2>1, ForceSafeSound DEF S
  <2>3. QED BY <2>2 DEF c
<1>12. safe \in Seq(Seq(S)) /\ DOMAIN safe = 1..m /\ \A k \in 1..m : safe[k] = ForceSafe(split[k])
  <2> DEFINE Y == Seq(S)
             E(k) == ForceSafe(split[k])
  <2>1. \A k \in 1..m : E(k) \in Y BY <1>11
  <2>2. safe = [k \in 1..m |-> E(k)] BY <1>10 DEF safe
  <2> HIDE DEF E, Y
  <2>3. safe \in Seq(Y) BY <1>10, <2>1, <2>2
  <2>4. DOMAIN safe = 1..m /\ \A k \in 1..m : safe[k] = E(k) BY <2>2
  <2>5. QED BY <2>3, <2>4 DEF Y, E
<1>13. Seqs!FlattenSeq(safe) \in Seq(S) BY <1>12, FlattenType
<1>14. safe \in Seq(Seq(AnyChunk))
  <2>1. S \subseteq AnyChunk BY SoundAny DEF S
  <2>2. Seq(S) \subseteq Seq(AnyChunk) BY <2>1, SeqMonotonic
  <2> DEFINE Y == Seq(S)
             Z == Seq(AnyChunk)
  <2>3. safe \in Seq(Y) /\ Y \subseteq Z BY <1>12, <2>2
  <2> HIDE DEF Y, Z
  <2>4. safe \in Seq(Z) BY <2>3, SeqMonotonic
  <2>5. QED BY <2>4 DEF Z
<1>15. Gist(Seqs!FlattenSeq(safe)) = Gist(split)
  <2>1. Gist(Seqs!FlattenSeq(safe)) = Seqs!FlattenSeq([k \in DOMAIN safe |-> Gist(safe[k])]) BY <1>14, GistFlatten
  <2>2. \A k \in 1..m : Gist(safe[k]) = Body(split[k].text) BY <1>11, <1>12
  <2>3. [k \in DOMAIN safe |-> Gist(safe[k])] = [k \in DOMAIN split |-> Body(split[k].text)] BY <1>10, <1>12, <2>2
  <2>4. QED BY <2>1, <2>3 DEF Gist
<1>16. QED BY <1>1, <1>9, <1>13, <1>15 DEF S, f

(***************************************************************************)
(* Entries                                                                 *)
(***************************************************************************)
\* The entries made of sound chunks are sound, and have their chunks and words.
LEMMA EntriesSound ==
  ASSUME NEW R, NEW cs \in Seq(SoundChunks(R)), NEW x \in 0..Unscored, NEW y \in 0..Unscored
  PROVE  Entries(cs, x, y) \in Seq(SoundEntries(R)) /\ ChunksOf(Entries(cs, x, y)) = cs /\ EntriesGist(Entries(cs, x, y)) = Gist(cs)
<1> DEFINE n == Len(cs)
           es == Entries(cs, x, y)
           S == SoundChunks(R)
           E(k) == [chunk |-> cs[k], before |-> IF k = 1 THEN x ELSE Unscored, after |-> IF k = n THEN y ELSE Unscored]
           SE == SoundEntries(R)
<1>1. cs \in Seq(S) OBVIOUS
<1> HIDE DEF S
<1>2. n \in Nat /\ DOMAIN cs = 1..n /\ (\A k \in 1..n : cs[k] \in S) /\ cs = [k \in 1..n |-> cs[k]] BY <1>1
<1>3. es = [k \in 1..n |-> E(k)] BY <1>2 DEF Entries
<1>4. Unscored \in 0..Unscored BY DEF Unscored
<1>5. ASSUME NEW k \in 1..n PROVE E(k) \in SE /\ E(k).chunk = cs[k]
  <2> DEFINE u == IF k = 1 THEN x ELSE Unscored
             v == IF k = n THEN y ELSE Unscored
  <2>1. u \in 0..Unscored /\ v \in 0..Unscored BY <1>4
  <2>2. cs[k] \in SoundChunks(R) BY <1>2 DEF S
  <2>3. E(k) = [chunk |-> cs[k], before |-> u, after |-> v] OBVIOUS
  <2> HIDE DEF u, v, E
  <2>4. QED BY <2>1, <2>2, <2>3 DEF SoundEntries
<1> HIDE DEF E, es, SE, n
<1>6. es \in Seq(SE) /\ DOMAIN es = 1..n /\ \A k \in 1..n : es[k] = E(k)
  <2>1. es \in Seq(SE) BY <1>2, <1>3, <1>5
  <2>2. DOMAIN es = 1..n /\ \A k \in 1..n : es[k] = E(k) BY <1>3
  <2>3. QED BY <2>1, <2>2
<1>7. ChunksOf(es) = cs
  <2>1. \A k \in 1..n : es[k].chunk = cs[k] BY <1>5, <1>6
  <2>2. ChunksOf(es) = [k \in 1..n |-> es[k].chunk] BY <1>6 DEF ChunksOf
  <2>3. QED BY <1>2, <2>1, <2>2
<1>8. QED BY <1>6, <1>7 DEF EntriesGist, es, SE

\* The words of sequences of entries that follow each other.
LEMMA EntriesFlatten ==
  ASSUME NEW R, R \subseteq Nat, NEW ss \in Seq(Seq(SoundEntries(R)))
  PROVE  EntriesGist(Seqs!FlattenSeq(ss)) = Seqs!FlattenSeq([k \in DOMAIN ss |-> EntriesGist(ss[k])])
<1> DEFINE E == SoundEntries(R)
           f == [e \in E |-> Body(e.chunk.text)]
           Y == Seq(E)
           all == Seqs!FlattenSeq(ss)
<1>1. \A e \in E : e.chunk \in AnyChunk /\ Body(e.chunk.text) \in Text
  <2>1. ASSUME NEW e \in E PROVE e.chunk \in AnyChunk /\ Body(e.chunk.text) \in Text
    <3>1. e.chunk \in AnyChunk BY SoundEntry
    <3>2. e.chunk.text \in Text BY <3>1 DEF AnyChunk
    <3>3. QED BY <3>1, <3>2, BodyType
  <2>2. QED BY <2>1
<1>2. f \in Maps(E, Seq(Token))
  <2>1. f \in Maps(E, Text) BY <1>1 DEF Maps
  <2>2. QED BY <2>1 DEF Text
<1>3. ASSUME NEW es \in Y PROVE EntriesGist(es) = Worded(f, es)
  <2>1. es \in Seq(SoundEntries(R)) /\ \A k \in DOMAIN es : es[k] \in E OBVIOUS
  <2>2. Len(ChunksOf(es)) = Len(es) /\ ChunksOf(es) \in Seq(AnyChunk) /\ \A k \in 1..Len(es) : ChunksOf(es)[k] = es[k].chunk
    BY <2>1, ChunksOfEntries
  <2>3. DOMAIN ChunksOf(es) = DOMAIN es BY DEF ChunksOf
  <2>4. DOMAIN es = 1..Len(es) BY <2>1
  <2> HIDE DEF E
  <2>5. [k \in DOMAIN ChunksOf(es) |-> Body(ChunksOf(es)[k].text)] = Mapped(f, es) BY <2>1, <2>2, <2>3, <2>4 DEF Mapped
  <2>6. QED BY <2>5 DEF EntriesGist, Gist, Worded
<1> HIDE DEF f, E
<1>4. ss \in Seq(Seq(E)) BY DEF E
<1>5. all \in Y BY <1>4, FlattenType
<1>6. Worded(f, all) = Seqs!FlattenSeq(PerGroup(f, ss)) BY <1>2, <1>4, WordedGroups
<1>7. PerGroup(f, ss) = [k \in DOMAIN ss |-> EntriesGist(ss[k])]
  <2>1. \A k \in DOMAIN ss : ss[k] \in Y BY <1>4
  <2> HIDE DEF Y
  <2>2. \A k \in DOMAIN ss : Worded(f, ss[k]) = EntriesGist(ss[k]) BY <1>3, <2>1
  <2>3. QED BY <2>2 DEF PerGroup
<1>8. QED BY <1>3, <1>5, <1>6, <1>7

\* A sequence whose items are reached through their places.
AtPlaces(units, g)  == [k \in DOMAIN g |-> units[g[k]]]
OfPlaces(f, units) == [k \in 1..Len(units) |-> f[units[k]]]

\* Units named by their places have the same words.
LEMMA MappedPlaces ==
  ASSUME NEW I, NEW f \in Maps(I, Text), NEW units \in Seq(I), NEW g \in Seq(1..Len(units))
  PROVE  /\ OfPlaces(f, units) \in Maps(1..Len(units), Text) /\ AtPlaces(units, g) \in Seq(I)
         /\ Worded(f, AtPlaces(units, g)) = Worded(OfPlaces(f, units), g)
<1> DEFINE n == Len(units)
           N == 1..n
           V == Text
           h == [k \in N |-> f[units[k]]]
           s == [k \in DOMAIN g |-> units[g[k]]]
           m == Len(g)
<1>1. \A k \in N : units[k] \in I OBVIOUS
<1>2. g \in Seq(N) OBVIOUS
<1> HIDE DEF n, N, V
<1>3. m \in Nat /\ DOMAIN g = 1..m /\ \A k \in 1..m : g[k] \in N BY <1>2
<1>4. h \in Maps(N, V) BY <1>1 DEF Maps, V
<1>5. s \in Seq(I) /\ DOMAIN s = 1..m /\ \A k \in 1..m : s[k] = units[g[k]]
  <2>1. \A k \in 1..m : units[g[k]] \in I BY <1>1, <1>3
  <2>2. s = [k \in 1..m |-> units[g[k]]] BY <1>3
  <2> HIDE DEF s, m
  <2> DEFINE E(k) == units[g[k]]
  <2>3. (\A k \in 1..m : E(k) \in I) /\ s = [k \in 1..m |-> E(k)] BY <2>1, <2>2
  <2> HIDE DEF E
  <2>4. s \in Seq(I) BY <1>3, <2>3
  <2>5. QED BY <2>2, <2>4
<1>6. Mapped(f, s) = Mapped(h, g)
  <2>1. \A k \in 1..m : f[s[k]] = h[g[k]] BY <1>3, <1>5
  <2>2. Mapped(f, s) = [k \in 1..m |-> f[s[k]]] BY <1>5 DEF Mapped
  <2>3. Mapped(h, g) = [k \in 1..m |-> h[g[k]]] BY <1>3 DEF Mapped
  <2> HIDE DEF s, h, m
  <2>4. QED BY <2>1, <2>2, <2>3
<1>7. QED BY <1>4, <1>5, <1>6 DEF Worded, N, V, n, AtPlaces, OfPlaces

Scores(n) == [1..(n - 1) -> 0..2]

\* However the boundaries are scored, the entries of a text have its words in their order.
LEMMA TextEntriesSound ==
  ASSUME NEW R, R \subseteq Nat \ {0}, NEW path \in Seq(Nat \ {0}), NEW units \in Seq(UnitOf(R)), NEW score \in Scores(Len(units))
  PROVE  /\ TextEntries(path, units, score) \in Seq(SoundEntries(R))
         /\ EntriesGist(TextEntries(path, units, score)) = Worded(UnitText(R), units)
<1> DEFINE n == Len(units)
           N == 1..n
           I == UnitOf(R)
           f == UnitText(R)
           E == SoundEntries(R)
           places == [k \in DOMAIN units |-> k]
           starts == {k \in 2..Len(units) : score[k - 1] > 0}
           ss == Grouped(places, starts)
           Before(g) == IF g[1] = 1 THEN Unscored ELSE score[g[1] - 1]
           After(g)  == IF g[Len(g)] = Len(units) THEN Unscored ELSE score[g[Len(g)]]
           Segment(g) == [k \in DOMAIN g |-> units[g[k]]]
           EE(g) == Entries(TextCandidates(path, Segment(g)), Before(g), After(g))
           all == [s \in DOMAIN ss |-> EE(ss[s])]
           h == [k \in 1..Len(units) |-> f[units[k]]]
<1>1. TextEntries(path, units, score) = Seqs!FlattenSeq(all) BY DEF TextEntries
<1>2. f \in Maps(I, Text) /\ f \in Maps(I, Seq(Token))
  <2>1. f \in Maps(I, Text) BY UnitIs
  <2>2. QED BY <2>1 DEF Text
<1>3. units \in Seq(I) OBVIOUS
<1> HIDE DEF I, f, E
<1>4. n \in Nat /\ DOMAIN units = N BY <1>3
<1>5. places \in Seq(N) /\ places = [k \in N |-> k]
  <2>1. places = [k \in 1..n |-> k] BY <1>4
  <2> HIDE DEF places, n
  <2>2. QED BY <1>4, <2>1
<1>6. ss \in Seq(NonEmpty(N)) /\ ss \in Seq(Seq(N)) /\ Seqs!FlattenSeq(ss) = places
  <2> HIDE DEF places, starts, N
  <2>1. QED BY <1>5, GroupedItems
<1> HIDE DEF ss
<1>7. ASSUME NEW g \in NonEmpty(N)
      PROVE  EE(g) \in Seq(E) /\ EntriesGist(EE(g)) = Worded(h, g)
  <2>1. g \in Seq(1..Len(units)) /\ g # <<>> BY DEF NonEmpty
  <2>2. g[1] \in N /\ g[Len(g)] \in N
    <3>1. 1 \in 1..Len(g) /\ Len(g) \in 1..Len(g) BY <2>1
    <3>2. g \in Seq(N) BY <2>1
    <3> HIDE DEF N
    <3>3. QED BY <3>1, <3>2
  <2>3. Before(g) \in 0..Unscored /\ After(g) \in 0..Unscored
    <3> DEFINE i == g[1]
               j == g[Len(g)]
    <3>1. i \in 1..n /\ j \in 1..n BY <2>2
    <3>2. Before(g) = (IF i = 1 THEN Unscored ELSE score[i - 1]) /\ After(g) = (IF j = n THEN Unscored ELSE score[j]) OBVIOUS
    <3>3. score \in [1..(n - 1) -> 0..2] BY DEF Scores
    <3> HIDE DEF i, j, n, Before, After
    <3>4. (i # 1 => i - 1 \in 1..(n - 1)) /\ (j # n => j \in 1..(n - 1)) BY <1>4, <3>1
    <3>5. \A k \in 1..(n - 1) : score[k] \in 0..Unscored
      <4>1. \A k \in 1..(n - 1) : score[k] \in 0..2 BY <3>3
      <4>2. \A x \in 0..2 : x \in 0..Unscored BY DEF Unscored
      <4>3. QED BY <4>1, <4>2
    <3>6. Unscored \in 0..Unscored BY DEF Unscored
    <3>7. QED BY <3>2, <3>4, <3>5, <3>6
  <2>4. Segment(g) \in Seq(I) /\ Worded(f, Segment(g)) = Worded(h, g)
    <3> HIDE DEF N, n
    <3>1. AtPlaces(units, g) \in Seq(I) /\ Worded(f, AtPlaces(units, g)) = Worded(OfPlaces(f, units), g)
      <4>1. f \in Maps(I, Text) BY <1>2
      <4>2. g \in Seq(1..Len(units)) BY <2>1
      <4>3. QED BY ONLY <4>1, <1>3, <4>2, MappedPlaces
    <3>2. QED BY <3>1 DEF AtPlaces, OfPlaces
  <2> DEFINE s == Segment(g)
             cs == TextCandidates(path, s)
  <2>5. s \in Seq(UnitOf(R)) BY <2>4 DEF I
  <2> HIDE DEF s, Before, After, h
  <2>6. cs \in Seq(SoundChunks(R)) /\ Gist(cs) = Worded(f, s) BY <2>5, TextCandidatesSound DEF f
  <2> HIDE DEF cs
  <2>7. Entries(cs, Before(g), After(g)) \in Seq(SoundEntries(R)) /\ EntriesGist(Entries(cs, Before(g), After(g))) = Gist(cs)
    BY <2>3, <2>6, EntriesSound
  <2>8. QED BY <2>4, <2>6, <2>7 DEF E, cs, s
<1> DEFINE m == Len(ss)
<1>8. m \in Nat /\ DOMAIN ss = 1..m /\ \A k \in 1..m : ss[k] \in NonEmpty(N)
  <2> HIDE DEF N
  <2>1. QED BY <1>6
<1> HIDE DEF m, EE, h, places, N
<1>9. all \in Seq(Seq(E)) /\ DOMAIN all = 1..m /\ \A k \in 1..m : all[k] = EE(ss[k])
  <2> DEFINE Y == Seq(E)
             F(k) == EE(ss[k])
  <2>1. \A k \in 1..m : F(k) \in Y BY <1>7, <1>8
  <2>2. all = [k \in 1..m |-> F(k)] BY <1>8
  <2> HIDE DEF F, Y, all
  <2>3. all \in Seq(Y) BY <1>8, <2>1, <2>2
  <2>4. DOMAIN all = 1..m /\ \A k \in 1..m : all[k] = F(k) BY <2>2
  <2>5. QED BY <2>3, <2>4 DEF Y, F
<1> HIDE DEF all
<1>10. Seqs!FlattenSeq(all) \in Seq(E) BY <1>9, FlattenType
<1>11. EntriesGist(Seqs!FlattenSeq(all)) = Worded(h, places)
  <2>1. EntriesGist(Seqs!FlattenSeq(all)) = Seqs!FlattenSeq([k \in DOMAIN all |-> EntriesGist(all[k])])
    <3>1. R \subseteq Nat OBVIOUS
    <3>2. QED BY <1>9, <3>1, EntriesFlatten DEF E
  <2>2. \A k \in 1..m : EntriesGist(all[k]) = Worded(h, ss[k]) BY <1>7, <1>8, <1>9
  <2>3. [k \in DOMAIN all |-> EntriesGist(all[k])] = PerGroup(h, ss) BY <1>8, <1>9, <2>2 DEF PerGroup
  <2>4. h \in Maps(N, Seq(Token))
    <3>1. <<>> \in Seq(1..Len(units)) OBVIOUS
    <3>a. f \in Maps(I, Text) BY <1>2
    <3>2. OfPlaces(f, units) \in Maps(1..Len(units), Text) BY ONLY <3>a, <1>3, <3>1, MappedPlaces
    <3>3. QED BY <3>2 DEF h, N, Text, OfPlaces
  <2>5. Worded(h, Seqs!FlattenSeq(ss)) = Seqs!FlattenSeq(PerGroup(h, ss)) BY <1>6, <2>4, WordedGroups
  <2>6. QED BY <1>6, <2>1, <2>3, <2>5
<1>12. Worded(h, places) = Worded(f, units)
  <2>1. Mapped(h, places) = [k \in N |-> h[places[k]]] BY <1>5 DEF Mapped
  <2>2. \A k \in N : places[k] = k BY <1>5
  <2>3. \A k \in N : h[k] = f[units[k]] BY DEF h, N
  <2>4. Mapped(f, units) = [k \in N |-> f[units[k]]] BY <1>4 DEF Mapped
  <2>5. Mapped(h, places) = Mapped(f, units) BY <2>1, <2>2, <2>3, <2>4
  <2>6. QED BY <2>5 DEF Worded
<1>13. QED BY <1>1, <1>10, <1>11, <1>12 DEF E, f
===============================================================================
