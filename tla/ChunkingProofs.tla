---------------------------- MODULE ChunkingProofs ----------------------------
(* Proofs about Chunking, for every size policy and any document, however long: the       *)
(* regions of a document have its words, the loop that joins what is too short keeps them *)
(* and settles each pair of neighbours it passes, and so nothing is lost, repeated, too   *)
(* long, under a foreign name or left too short beside a neighbour that could take it.    *)
EXTENDS ChunkingLemmas

(***************************************************************************)
(* Documents                                                               *)
(***************************************************************************)
HeadingBlock == [type: {"heading"}, page: Nat, level: Nat \ {0}]
TitleBlock   == [type: {"slide_title"}, page: Nat]
ProseBlock   == [type: ProseKinds, page: Nat, sentences: Seq(Nat \ {0})]
Block == HeadingBlock \cup TitleBlock \cup ProseBlock \cup CodeBlock \cup TableBlock
File  == [deck: BOOLEAN, blocks: Seq(Block)]

\* The fields of each type of block.
LEMMA BlockCases ==
  ASSUME NEW b \in Block
  PROVE  /\ b.page \in Nat
         /\ b.type \in ProseKinds \cup {"heading", "slide_title", "code", "table"}
         /\ b.type = "heading" => b \in HeadingBlock /\ b.level \in Nat \ {0}
         /\ b.type = "code" => b \in CodeBlock /\ b.lines \in Seq(Nat)
         /\ b.type = "table" => b \in TableBlock /\ b.rows \in Seq(Seq(Nat))
         /\ b.type \in ProseKinds => b \in ProseBlock /\ b.sentences \in Seq(Nat \ {0}) /\ b.sentences \in Seq(Nat)
<1>1. CASE b \in HeadingBlock BY <1>1 DEF HeadingBlock, ProseKinds
<1>2. CASE b \in TitleBlock BY <1>2 DEF TitleBlock, ProseKinds
<1>3. CASE b \in ProseBlock
  <2> DEFINE s == b.sentences
  <2>1. s \in Seq(Nat \ {0}) /\ b.type \in ProseKinds /\ b.page \in Nat BY <1>3 DEF ProseBlock
  <2>2. Nat \ {0} \subseteq Nat OBVIOUS
  <2> HIDE DEF s
  <2>3. s \in Seq(Nat) BY <2>1, <2>2, SeqMonotonic
  <2>4. b.type \notin {"heading", "slide_title", "code", "table"} BY <2>1 DEF ProseKinds
  <2>5. QED BY <1>3, <2>1, <2>3, <2>4 DEF s
<1>4. CASE b \in CodeBlock BY <1>4 DEF CodeBlock, ProseKinds
<1>5. CASE b \in TableBlock BY <1>5 DEF TableBlock, ProseKinds
<1>6. QED BY <1>1, <1>2, <1>3, <1>4, <1>5 DEF Block

\* The number of words of a block, and the words.
LEMMA WordsType ==
  ASSUME NEW b \in Block
  PROVE  /\ Words(b) \in Nat
         /\ b.type \in {"heading", "slide_title"} => Words(b) = 0
         /\ b.type = "code" => Words(b) = Total(b.lines)
         /\ b.type = "table" => Words(b) = Total(Seqs!FlattenSeq(b.rows))
         /\ b.type \in ProseKinds => Words(b) = Total(b.sentences)
<1>1. CASE b.type \in {"heading", "slide_title"} BY <1>1 DEF Words, ProseKinds
<1>2. CASE b.type = "code"
  <2>1. b.lines \in Seq(Nat) BY <1>2, BlockCases
  <2>2. Words(b) = Total(b.lines) BY <1>2 DEF Words
  <2>3. QED BY <1>2, <2>1, <2>2, TotalOf DEF ProseKinds
<1>3. CASE b.type = "table"
  <2> DEFINE r == b.rows
             l == Seqs!FlattenSeq(r)
  <2>1. r \in Seq(Seq(Nat)) BY <1>3, BlockCases
  <2> HIDE DEF r
  <2>2. l \in Seq(Nat) BY <2>1, FlattenType
  <2>3. Words(b) = Total(l) BY <1>3 DEF Words, r
  <2> HIDE DEF l
  <2>4. Total(l) \in Nat BY <2>2, TotalOf
  <2>5. QED BY <1>3, <2>3, <2>4 DEF ProseKinds, l, r
<1>4. CASE b.type \in ProseKinds
  <2>1. b.sentences \in Seq(Nat) BY <1>4, BlockCases
  <2>2. Words(b) = Total(b.sentences) BY <1>4 DEF Words, ProseKinds
  <2>3. QED BY <1>4, <2>1, <2>2, TotalOf DEF ProseKinds
<1>5. QED BY <1>1, <1>2, <1>3, <1>4, BlockCases

\* The words of each block of a document.
BlockWording(blocks) == [i \in 1..Len(blocks) |-> BlockWords(blocks, i)]

\* The words of each block are a span of it.
LEMMA BlockWordingType ==
  ASSUME NEW blocks \in Seq(Block)
  PROVE  /\ BlockWording(blocks) \in Maps(1..Len(blocks), Text)
         /\ \A i \in 1..Len(blocks) : /\ BlockWording(blocks)[i] = Span(i, 0, Words(blocks[i])) /\ blocks[i] \in Block
                                      /\ Words(blocks[i]) \in Nat
<1> DEFINE n == Len(blocks)
<1>1. \A i \in 1..n : blocks[i] \in Block /\ i \in Nat \ {0} OBVIOUS
<1>2. \A i \in 1..n : Words(blocks[i]) \in Nat BY <1>1, WordsType
<1>3. \A i \in 1..n : Span(i, 0, Words(blocks[i])) \in Text
  <2>1. 0 \in Nat OBVIOUS
  <2>2. QED BY <1>1, <1>2, <2>1, SpanType
<1> HIDE DEF n
<1>4. \A i \in 1..n : BlockWords(blocks, i) = Span(i, 0, Words(blocks[i])) BY DEF BlockWords
<1>5. QED BY <1>1, <1>2, <1>3, <1>4 DEF BlockWording, Maps, n

(***************************************************************************)
(* The sentences of a region                                               *)
(***************************************************************************)
ToSet(s) == Seqs!ToSet(s)
IsProse(blocks) == {i \in 1..Len(blocks) : blocks[i].type \in ProseKinds}

\* The sentences of a block have its words.
LEMMA UnitsOfBlock ==
  ASSUME NEW R, R \subseteq Nat \ {0}, NEW b \in R, NEW block \in ProseBlock
  PROVE  LET texts == Measure(b, 0, block.sentences)
             us == [i \in DOMAIN texts |-> [block |-> b, kind |-> block.type, text |-> texts[i]]]
         IN us \in Seq(UnitOf(R)) /\ Worded(UnitText(R), us) = Span(b, 0, Total(block.sentences))
<1> DEFINE l == block.sentences
           kind == block.type
           texts == Measure(b, 0, l)
           n == Len(texts)
           E(i) == [block |-> b, kind |-> kind, text |-> texts[i]]
           us == [i \in DOMAIN texts |-> E(i)]
           I == UnitOf(R)
<1>1. b \in Nat \ {0} /\ l \in Seq(Nat \ {0}) /\ kind \in ProseKinds BY DEF ProseBlock
<1> HIDE DEF l, kind
<1>2. l \in Seq(Nat) /\ \A i \in 1..Len(l) : l[i] \in Nat \ {0}
  <2>1. Nat \ {0} \subseteq Nat OBVIOUS
  <2>2. QED BY <1>1, <2>1, SeqMonotonic
<1>3. /\ texts \in Seq(Text) /\ n = Len(l)
      /\ \A i \in 1..Len(l) : /\ texts[i] \in Seq(TokenOf({b})) /\ texts[i] \in Seq(WordToken)
                              /\ Len(texts[i]) = l[i]
      /\ Seqs!FlattenSeq(texts) = Span(b, 0, Total(l))
  <2>1. 0 \in Nat OBVIOUS
  <2>2. QED BY <1>1, <1>2, <2>1, MeasureWords, ZenonT(60)
<1> HIDE DEF texts
<1>4. n \in Nat /\ DOMAIN texts = 1..n /\ texts = [i \in 1..n |-> texts[i]] BY <1>3
<1>5. ASSUME NEW i \in 1..n PROVE E(i) \in I /\ UnitText(R)[E(i)] = texts[i]
  <2> DEFINE t == texts[i]
  <2>1. t \in Seq(TokenOf({b})) /\ t \in Seq(WordToken) /\ Len(t) = l[i] /\ l[i] \in Nat \ {0} /\ t \in Text
    <3>1. i \in 1..Len(l) BY <1>3
    <3>2. l[i] \in Nat \ {0} BY <1>2, <3>1
    <3>3. t \in Seq(TokenOf({b})) /\ t \in Seq(WordToken) /\ Len(t) = l[i] BY <1>3, <3>1
    <3>4. t \in Text BY <1>3
    <3>5. QED BY <3>2, <3>3, <3>4
  <2>2. E(i) = [block |-> b, kind |-> kind, text |-> t] OBVIOUS
  <2> HIDE DEF t, E
  <2>3. t # <<>> BY <2>1
  <2>4. t \in BlockText(b) BY <2>1 DEF BlockText
  <2>5. E(i).block = b /\ E(i).text = t BY <2>2
  <2>6. E(i) \in [block: R, kind: ProseKinds, text: Text] BY <1>1, <2>1, <2>2
  <2>7. E(i) \in I BY <2>3, <2>4, <2>5, <2>6 DEF UnitOf
  <2>8. QED BY <2>5, <2>7, UnitIs DEF t
<1>6. us = [i \in 1..n |-> E(i)] BY <1>4
<1> HIDE DEF E, us, I, n
<1>7. us \in Seq(I) /\ DOMAIN us = 1..n /\ \A i \in 1..n : us[i] = E(i)
  <2>1. us \in Seq(I) BY <1>4, <1>5, <1>6
  <2>2. QED BY <1>6, <2>1
<1>8. Mapped(UnitText(R), us) = texts
  <2>1. \A i \in 1..n : UnitText(R)[us[i]] = texts[i] BY <1>5, <1>7
  <2>2. Mapped(UnitText(R), us) = [i \in 1..n |-> UnitText(R)[us[i]]] BY <1>7 DEF Mapped
  <2>3. QED BY <1>4, <2>1, <2>2
<1>9. QED BY <1>3, <1>7, <1>8 DEF Worded, us, I, E, texts, l, kind

\* The sentences of a region of text have the words of its blocks.
LEMMA SemanticUnitsIs ==
  ASSUME NEW f \in File, NEW region, region.units \in Seq(IsProse(f.blocks))
  PROVE  LET R == ToSet(region.units)
         IN /\ R \subseteq Nat \ {0}
            /\ SemanticUnits(f, region) \in Seq(UnitOf(R))
            /\ Worded(UnitText(R), SemanticUnits(f, region)) = Worded(BlockWording(f.blocks), region.units)
<1> DEFINE blocks == f.blocks
           n == Len(blocks)
           u == region.units
           R == ToSet(u)
           I == UnitOf(R)
           m == Len(u)
           Us(k) == LET b == u[k]  texts == Measure(b, 0, blocks[b].sentences)
                    IN [i \in DOMAIN texts |-> [block |-> b, kind |-> blocks[b].type, text |-> texts[i]]]
           all == [k \in DOMAIN u |-> Us(k)]
           g == UnitText(R)
           bw == BlockWording(blocks)
<1>1. SemanticUnits(f, region) = Seqs!FlattenSeq(all) BY DEF SemanticUnits
<1>2. blocks \in Seq(Block) BY DEF File
<1>3. u \in Seq(IsProse(blocks)) OBVIOUS
<1> HIDE DEF blocks, u
<1>4. m \in Nat /\ DOMAIN u = 1..m /\ \A k \in 1..m : u[k] \in IsProse(blocks) BY <1>3
<1>5. \A b \in IsProse(blocks) : b \in 1..n /\ b \in Nat \ {0} /\ blocks[b] \in ProseBlock /\ blocks[b].type \in ProseKinds
  <2>1. \A b \in IsProse(blocks) : b \in 1..n /\ blocks[b].type \in ProseKinds BY DEF IsProse
  <2>2. \A b \in 1..n : blocks[b] \in Block /\ b \in Nat \ {0} BY <1>2
  <2>3. QED BY <2>1, <2>2, BlockCases
<1>6. (\A k \in 1..m : u[k] \in R) /\ R \subseteq Nat \ {0}
  <2>1. R = {u[k] : k \in DOMAIN u} BY DEF ToSet, Seqs!ToSet
  <2> HIDE DEF R
  <2>2. \A x \in R : x \in IsProse(blocks) BY <1>4, <2>1
  <2>3. QED BY <1>4, <1>5, <2>1, <2>2
<1> HIDE DEF R, I, g, m
<1>7. ASSUME NEW k \in 1..m PROVE Us(k) \in Seq(I) /\ Worded(g, Us(k)) = bw[u[k]]
  <2> DEFINE b == u[k]
             block == blocks[b]
  <2>1. b \in R /\ b \in 1..n /\ block \in ProseBlock /\ block.type \in ProseKinds BY <1>4, <1>5, <1>6
  <2> DEFINE texts == Measure(b, 0, block.sentences)
             us == [i \in DOMAIN texts |-> [block |-> b, kind |-> block.type, text |-> texts[i]]]
  <2>2. Us(k) = us OBVIOUS
  <2> HIDE DEF b, block
  <2>3. us \in Seq(UnitOf(R)) /\ Worded(UnitText(R), us) = Span(b, 0, Total(block.sentences)) BY <1>6, <2>1, UnitsOfBlock
  <2>4. bw[b] = Span(b, 0, Words(blocks[b])) /\ blocks[b] \in Block BY <1>2, <2>1, BlockWordingType
  <2>5. Words(block) = Total(block.sentences)
    <3>1. block \in Block BY <2>4 DEF block
    <3>2. QED BY <2>1, <3>1, WordsType
  <2>6. blocks[b] = block BY DEF block
  <2> HIDE DEF us, Us
  <2>7. QED BY <2>2, <2>3, <2>4, <2>5, <2>6 DEF I, g, b
<1> HIDE DEF Us, bw
<1>8. all \in Seq(Seq(I)) /\ DOMAIN all = 1..m /\ \A k \in 1..m : all[k] = Us(k)
  <2> DEFINE Y == Seq(I)
  <2>1. \A k \in 1..m : Us(k) \in Y BY <1>7
  <2>2. all = [k \in 1..m |-> Us(k)] BY <1>4
  <2> HIDE DEF Y, all
  <2>3. all \in Seq(Y) BY <1>4, <2>1, <2>2
  <2>4. DOMAIN all = 1..m /\ \A k \in 1..m : all[k] = Us(k) BY <2>2
  <2>5. QED BY <2>3, <2>4 DEF Y
<1> HIDE DEF all
<1>9. Seqs!FlattenSeq(all) \in Seq(I) BY <1>8, FlattenType
<1>10. g \in Maps(I, Seq(Token)) BY <1>6, UnitIs DEF g, I, Text
<1>11. Worded(g, Seqs!FlattenSeq(all)) = Seqs!FlattenSeq(PerGroup(g, all)) BY <1>8, <1>10, WordedGroups
<1>12. PerGroup(g, all) = Mapped(bw, u) BY <1>4, <1>7, <1>8 DEF PerGroup, Mapped
<1>13. QED BY <1>1, <1>6, <1>9, <1>11, <1>12 DEF Worded, R, I, g, bw, u, blocks

(***************************************************************************)
(* Regions                                                                 *)
(***************************************************************************)
\* A region of a document, and the regions gathered so far.
RegionOf(blocks) ==
  {r \in [kind: {"text", "code", "table"}, path: Seq(1..Len(blocks)), units: NonEmpty(1..Len(blocks))] :
     /\ r.kind = "text" => r.units \in Seq(IsProse(blocks))
     /\ r.kind # "text" => Len(r.units) = 1 /\ blocks[r.units[1]].type = r.kind}
Outlines(blocks) ==
  [regions: Seq(RegionOf(blocks)), units: Seq(IsProse(blocks)), path: Seq(1..Len(blocks)),
   stack: Seq(1..Len(blocks)), slide: Seq(1..Len(blocks)), page: Nat]

RegionWording(blocks) == [r \in RegionOf(blocks) |-> Worded(BlockWording(blocks), r.units)]
\* The words of the regions that are closed and of the open one.
Gathered(blocks, s) == Worded(RegionWording(blocks), s.regions) \o Worded(BlockWording(blocks), s.units)

\* The fields of a region and its words.
LEMMA RegionIs ==
  ASSUME NEW blocks \in Seq(Block)
  PROVE  /\ BlockWording(blocks) \in Maps(1..Len(blocks), Seq(Token))
         /\ RegionWording(blocks) \in Maps(RegionOf(blocks), Seq(Token))
         /\ IsProse(blocks) \subseteq 1..Len(blocks)
         /\ \A u \in Seq(IsProse(blocks)) : u \in Seq(1..Len(blocks))
         /\ \A r \in RegionOf(blocks) : /\ r.units \in Seq(1..Len(blocks)) /\ r.units # <<>> /\ r.path \in Seq(1..Len(blocks))
                                        /\ RegionWording(blocks)[r] = Worded(BlockWording(blocks), r.units)
<1> DEFINE N == 1..Len(blocks)
           bw == BlockWording(blocks)
<1>1. bw \in Maps(N, Seq(Token)) BY BlockWordingType DEF Text
<1>2. \A r \in RegionOf(blocks) : r.units \in Seq(N) /\ r.units # <<>> /\ r.path \in Seq(N)
  BY DEF RegionOf, NonEmpty
<1> HIDE DEF bw
<1>3. RegionWording(blocks) \in Maps(RegionOf(blocks), Seq(Token))
  <2> DEFINE V == Seq(Token)
  <2>1. ASSUME NEW r \in RegionOf(blocks) PROVE Worded(bw, r.units) \in V
    <3> DEFINE u == r.units
    <3>1. u \in Seq(N) BY <1>2
    <3> HIDE DEF u, N
    <3>2. Worded(bw, u) \in Seq(Token) BY <1>1, <3>1, WordedType
    <3>3. QED BY <3>2 DEF u
  <2> HIDE DEF V
  <2>2. QED BY <2>1 DEF RegionWording, Maps, bw, V
<1>4. IsProse(blocks) \subseteq N BY DEF IsProse
<1>5. \A u \in Seq(IsProse(blocks)) : u \in Seq(N)
  <2> HIDE DEF N
  <2>1. QED BY <1>4, SeqMonotonic
<1>6. QED BY <1>1, <1>2, <1>3, <1>4, <1>5 DEF RegionWording, bw

\* What is gathered at any time is typed.
LEMMA OutlineIs ==
  ASSUME NEW blocks \in Seq(Block), NEW s \in Outlines(blocks)
  PROVE  /\ s.regions \in Seq(RegionOf(blocks)) /\ s.units \in Seq(IsProse(blocks)) /\ s.units \in Seq(1..Len(blocks))
         /\ s.path \in Seq(1..Len(blocks)) /\ s.stack \in Seq(1..Len(blocks)) /\ s.slide \in Seq(1..Len(blocks)) /\ s.page \in Nat
         /\ s = [regions |-> s.regions, units |-> s.units, path |-> s.path, stack |-> s.stack, slide |-> s.slide, page |-> s.page]
         /\ Worded(RegionWording(blocks), s.regions) \in Seq(Token) /\ Worded(BlockWording(blocks), s.units) \in Seq(Token)
         /\ Gathered(blocks, s) \in Seq(Token)
<1>1. /\ s.regions \in Seq(RegionOf(blocks)) /\ s.units \in Seq(IsProse(blocks))
      /\ s.path \in Seq(1..Len(blocks)) /\ s.stack \in Seq(1..Len(blocks)) /\ s.slide \in Seq(1..Len(blocks)) /\ s.page \in Nat
      /\ s = [regions |-> s.regions, units |-> s.units, path |-> s.path, stack |-> s.stack, slide |-> s.slide, page |-> s.page]
  BY DEF Outlines
<1>2. s.units \in Seq(1..Len(blocks)) BY <1>1, RegionIs
<1> DEFINE rs == s.regions
           u == s.units
           rw == RegionWording(blocks)
           bw == BlockWording(blocks)
           N == 1..Len(blocks)
<1>3. rs \in Seq(RegionOf(blocks)) /\ u \in Seq(N) /\ rw \in Maps(RegionOf(blocks), Seq(Token)) /\ bw \in Maps(N, Seq(Token))
  BY <1>1, <1>2, RegionIs
<1> HIDE DEF rs, u, rw, bw, N
<1>4. Worded(rw, rs) \in Seq(Token) /\ Worded(bw, u) \in Seq(Token) BY <1>3, WordedType
<1>5. Worded(rw, rs) \o Worded(bw, u) \in Seq(Token) BY <1>4, ConcatParts
<1>6. QED BY <1>1, <1>2, <1>4, <1>5 DEF Gathered, rs, u, rw, bw

\* Closing the open region keeps all words.
LEMMA FlushKeeps ==
  ASSUME NEW blocks \in Seq(Block), NEW s \in Outlines(blocks)
  PROVE  /\ Flush(s) \in Outlines(blocks) /\ Flush(s).units = <<>>
         /\ Gathered(blocks, Flush(s)) = Gathered(blocks, s)
         /\ Flush(s).stack = s.stack /\ Flush(s).slide = s.slide /\ Flush(s).page = s.page
<1> DEFINE rs == s.regions
           u == s.units
           rw == RegionWording(blocks)
           bw == BlockWording(blocks)
           N == 1..Len(blocks)
           RO == RegionOf(blocks)
           r == [kind |-> "text", path |-> s.path, units |-> u]
           more == Append(rs, r)
           z == [regions |-> more, units |-> <<>>, path |-> <<>>, stack |-> s.stack, slide |-> s.slide, page |-> s.page]
<1>1. /\ rs \in Seq(RO) /\ u \in Seq(IsProse(blocks)) /\ u \in Seq(N)
      /\ s.path \in Seq(N) /\ s.stack \in Seq(N) /\ s.slide \in Seq(N) /\ s.page \in Nat
      /\ s = [regions |-> rs, units |-> u, path |-> s.path, stack |-> s.stack, slide |-> s.slide, page |-> s.page]
  BY OutlineIs
<1>2. rw \in Maps(RO, Seq(Token)) /\ bw \in Maps(N, Seq(Token)) BY RegionIs
<1>3. CASE s.units = <<>>
  <2>1. Flush(s) = s BY <1>3 DEF Flush
  <2>2. QED BY <1>3, <2>1
<1>4. CASE s.units # <<>>
  <2>1. Flush(s) = z
    <3>1. Flush(s) = [s EXCEPT !.regions = Append(@, [kind |-> "text", path |-> s.path, units |-> s.units]),
                               !.units = <<>>, !.path = <<>>]
      BY <1>4 DEF Flush
    <3>2. QED BY <1>1, <3>1
  <2>2. r \in RO
    <3>1. u \in NonEmpty(N) BY <1>1, <1>4 DEF NonEmpty
    <3>2. QED BY <1>1, <3>1 DEF RegionOf
  <2> HIDE DEF RO, rs, u, N, rw, bw
  <2>3. more \in Seq(RO) /\ more = rs \o <<r>> /\ <<r>> \in Seq(RO)
    <3> HIDE DEF r
    <3>1. QED BY <1>1, <2>2, AppendProperties, AppendIsConcat
  <2>4. z \in Outlines(blocks)
    <3>1. <<>> \in Seq(IsProse(blocks)) /\ <<>> \in Seq(N) OBVIOUS
    <3> HIDE DEF more, r
    <3>2. QED BY <1>1, <2>3, <3>1 DEF Outlines, N, RO
  <2>5. Worded(rw, more) = Worded(rw, rs) \o Worded(bw, u)
    <3>1. r.units = u OBVIOUS
    <3>a. RO = RegionOf(blocks) /\ rw = RegionWording(blocks) /\ bw = BlockWording(blocks) BY DEF RO, rw, bw
    <3> HIDE DEF r, more
    <3>2. Worded(rw, rs \o <<r>>) = Worded(rw, rs) \o Worded(rw, <<r>>)
      <4> DEFINE e == <<r>>
      <4>1. e \in Seq(RO) BY <2>3
      <4>2. rs \in Seq(RO) BY <1>1
      <4>3. rw \in Maps(RO, Seq(Token)) BY <1>2
      <4> HIDE DEF e
      <4>4. Worded(rw, rs \o e) = Worded(rw, rs) \o Worded(rw, e) BY ONLY <4>1, <4>2, <4>3, WordedConcat
      <4>5. QED BY <4>4 DEF e
    <3>3. Worded(rw, <<r>>) = rw[r] BY <1>2, <2>2, WordedOne
    <3>4. rw[r] = Worded(bw, r.units) BY <2>2, <3>a, RegionIs
    <3>5. QED BY <2>3, <3>1, <3>2, <3>3, <3>4
  <2>6. Worded(bw, <<>>) = <<>> BY <1>2, WordedEmpty
  <2>7. Worded(rw, more) \in Seq(Token) BY <1>2, <2>3, WordedType
  <2>8. Worded(rw, more) \o <<>> = Worded(rw, more)
    <3> DEFINE x == Worded(rw, more)
    <3>1. x \in Seq(Token) BY <2>7
    <3> HIDE DEF x
    <3>2. x \o <<>> = x BY <3>1
    <3>3. QED BY <3>2 DEF x
  <2>9. z.regions = more /\ z.units = <<>> /\ z.stack = s.stack /\ z.slide = s.slide /\ z.page = s.page OBVIOUS
  <2>10. Gathered(blocks, z) = Worded(rw, more) \o Worded(bw, <<>>) BY <2>9 DEF Gathered, rw, bw
  <2>11. Gathered(blocks, s) = Worded(rw, rs) \o Worded(bw, u) BY DEF Gathered, rw, bw, rs, u
  <2> HIDE DEF z, more
  <2>12. QED BY <2>1, <2>4, <2>5, <2>6, <2>8, <2>9, <2>10, <2>11
<1>5. QED BY <1>3, <1>4

\* A page of a deck may close the open region, which keeps all words.
LEMMA TurnPageKeeps ==
  ASSUME NEW f \in File, NEW s \in Outlines(f.blocks), NEW b \in Block
  PROVE  /\ TurnPage(s, f, b) \in Outlines(f.blocks)
         /\ Gathered(f.blocks, TurnPage(s, f, b)) = Gathered(f.blocks, s)
<1> DEFINE blocks == f.blocks
           O == Outlines(blocks)
           z == Flush(s)
           x == [s EXCEPT !.page = b.page]
           y == [z EXCEPT !.slide = <<>>, !.page = b.page]
<1>1. blocks \in Seq(Block) BY DEF File
<1>2. b.page \in Nat BY BlockCases
<1>3. z \in O /\ Gathered(blocks, z) = Gathered(blocks, s) BY <1>1, FlushKeeps
<1>4. x \in O /\ x.regions = s.regions /\ x.units = s.units BY <1>2 DEF Outlines
<1>5. y \in O /\ y.regions = z.regions /\ y.units = z.units
  <2> HIDE DEF z
  <2>1. <<>> \in Seq(1..Len(blocks)) OBVIOUS
  <2>2. QED BY <1>2, <1>3, <2>1 DEF Outlines
<1>6. Gathered(blocks, x) = Gathered(blocks, s) BY <1>4 DEF Gathered
<1>7. Gathered(blocks, y) = Gathered(blocks, z) BY <1>5 DEF Gathered
<1> HIDE DEF O
<1>8. TurnPage(s, f, b) = s \/ TurnPage(s, f, b) = x \/ TurnPage(s, f, b) = y BY DEF TurnPage
<1> HIDE DEF x, y, z
<1>9. s \in O BY DEF O
<1>10. QED BY <1>3, <1>4, <1>5, <1>6, <1>7, <1>8, <1>9 DEF O

\* The empty sequence changes nothing.
LEMMA ConcatEmpty ==
  ASSUME NEW S, NEW a \in Seq(S)
  PROVE  a \o <<>> = a /\ <<>> \o a = a
OBVIOUS

\* Words that a closed and an open region have when a region or a block is added.
LEMMA GatheredRegion ==
  ASSUME NEW blocks \in Seq(Block), NEW s \in Outlines(blocks), s.units = <<>>, NEW r \in RegionOf(blocks)
  PROVE  LET z == [s EXCEPT !.regions = Append(@, r)]
         IN z \in Outlines(blocks) /\ Gathered(blocks, z) = Gathered(blocks, s) \o Worded(BlockWording(blocks), r.units)
<1> DEFINE rs == s.regions
           rw == RegionWording(blocks)
           bw == BlockWording(blocks)
           RO == RegionOf(blocks)
           more == Append(rs, r)
           e == <<r>>
           z == [s EXCEPT !.regions = Append(@, r)]
<1>1. rs \in Seq(RO) /\ rw \in Maps(RO, Seq(Token)) /\ bw \in Maps(1..Len(blocks), Seq(Token)) /\ r \in RO
  BY OutlineIs, RegionIs
<1>2. rw[r] = Worded(bw, r.units) BY RegionIs
<1> HIDE DEF rs, rw, bw, RO
<1>3. e \in Seq(RO) /\ more \in Seq(RO) /\ more = rs \o e
  <2>1. more \in Seq(RO) /\ more = rs \o <<r>> BY <1>1, AppendProperties, AppendIsConcat
  <2>2. QED BY <1>1, <2>1
<1>4. Worded(rw, e) = rw[r] BY <1>1, WordedOne
<1> HIDE DEF e, more
<1>5. Worded(rw, rs \o e) = Worded(rw, rs) \o Worded(rw, e)
  <2>1. e \in Seq(RO) BY <1>3
  <2>2. rs \in Seq(RO) BY <1>1
  <2>3. rw \in Maps(RO, Seq(Token)) BY <1>1
  <2>4. QED BY ONLY <2>1, <2>2, <2>3, WordedConcat
<1>6. z \in Outlines(blocks) /\ z.regions = more /\ z.units = <<>> BY <1>3 DEF Outlines, more, rs, RO
<1>7. Worded(bw, <<>>) = <<>> BY <1>1, WordedEmpty
<1>8. Worded(rw, rs) \in Seq(Token) /\ Worded(rw, more) \in Seq(Token) BY <1>1, <1>3, WordedType
<1>9. Gathered(blocks, s) = Worded(rw, rs)
  <2>1. Gathered(blocks, s) = Worded(rw, rs) \o Worded(bw, <<>>) BY DEF Gathered, rw, bw, rs
  <2>2. QED BY <1>7, <1>8, <2>1, ConcatEmpty
<1> HIDE DEF z
<1>10. Gathered(blocks, z) = Worded(rw, more)
  <2>1. Gathered(blocks, z) = Worded(rw, more) \o Worded(bw, <<>>) BY <1>6 DEF Gathered, rw, bw
  <2>2. QED BY <1>7, <1>8, <2>1, ConcatEmpty
<1>11. QED BY <1>2, <1>3, <1>4, <1>5, <1>6, <1>9, <1>10 DEF z, bw

\* The open region gains a block with its words.
LEMMA GatheredUnit ==
  ASSUME NEW blocks \in Seq(Block), NEW s \in Outlines(blocks), NEW path \in Seq(1..Len(blocks)), NEW i \in IsProse(blocks)
  PROVE  LET z == [s EXCEPT !.path = path, !.units = Append(@, i)]
         IN z \in Outlines(blocks) /\ Gathered(blocks, z) = Gathered(blocks, s) \o BlockWording(blocks)[i]
<1> DEFINE u == s.units
           rs == s.regions
           rw == RegionWording(blocks)
           bw == BlockWording(blocks)
           N == 1..Len(blocks)
           P == IsProse(blocks)
           more == Append(u, i)
           e == <<i>>
           z == [s EXCEPT !.path = path, !.units = Append(@, i)]
<1>1. u \in Seq(P) /\ u \in Seq(N) /\ i \in P /\ i \in N BY OutlineIs, RegionIs
<1>2. bw \in Maps(N, Seq(Token)) BY RegionIs
<1>3. Worded(rw, rs) \in Seq(Token) /\ Worded(bw, u) \in Seq(Token) BY OutlineIs
<1> HIDE DEF u, rs, rw, bw, P
<1>4. more \in Seq(P) /\ more = u \o e /\ e \in Seq(N)
  <2>1. more \in Seq(P) /\ more = u \o <<i>> BY <1>1, AppendProperties, AppendIsConcat
  <2> HIDE DEF N
  <2>2. <<i>> \in Seq(N) BY <1>1
  <2>3. QED BY <2>1, <2>2
<1> HIDE DEF N
<1>5. Worded(bw, e) = bw[i] /\ bw[i] \in Seq(Token) BY <1>1, <1>2, WordedOne
<1> HIDE DEF e, more
<1>6. Worded(bw, u \o e) = Worded(bw, u) \o Worded(bw, e)
  <2>1. e \in Seq(N) BY <1>4
  <2>2. u \in Seq(N) BY <1>1
  <2>3. QED BY ONLY <1>2, <2>1, <2>2, WordedConcat
<1>7. z \in Outlines(blocks) /\ z.regions = rs /\ z.units = more BY <1>4 DEF Outlines, more, u, rs, P, N
<1> HIDE DEF z
<1>8. Gathered(blocks, z) = Worded(rw, rs) \o (Worded(bw, u) \o bw[i]) BY <1>4, <1>5, <1>6, <1>7 DEF Gathered, rw, bw
<1>9. Gathered(blocks, s) = Worded(rw, rs) \o Worded(bw, u) BY DEF Gathered, rw, bw, rs, u
<1>10. Worded(rw, rs) \o (Worded(bw, u) \o bw[i]) = (Worded(rw, rs) \o Worded(bw, u)) \o bw[i]
  <2> DEFINE x == Worded(rw, rs)
             y == Worded(bw, u)
             w == bw[i]
  <2>1. x \in Seq(Token) /\ y \in Seq(Token) /\ w \in Seq(Token) BY <1>3, <1>5
  <2> HIDE DEF x, y, w
  <2>2. x \o (y \o w) = (x \o y) \o w BY <2>1, Regroup
  <2>3. QED BY <2>2 DEF x, y, w
<1>11. QED BY <1>7, <1>8, <1>9, <1>10 DEF z, bw

\* A heading or the title of a slide closes the open region and changes the path only.
LEMMA AddHeading ==
  ASSUME NEW f \in File, NEW s \in Outlines(f.blocks), NEW i \in 1..Len(f.blocks), f.blocks[i] \in Block,
         f.blocks[i].type \in {"heading", "slide_title"}
  PROVE  AddBlock(s, f, i) \in Outlines(f.blocks) /\ Gathered(f.blocks, AddBlock(s, f, i)) = Gathered(f.blocks, s)
<1> DEFINE blocks == f.blocks
           b == blocks[i]
           t == TurnPage(s, f, b)
           z == Flush(t)
           N == 1..Len(blocks)
           m == Len(t.stack)
           upTo == Seqs!Min({b.level - 1, m})
           front == SubSeq(z.stack, 1, upTo)
           x == [z EXCEPT !.slide = <<i>>]
           y == [z EXCEPT !.stack = Append(SubSeq(@, 1, upTo), i)]
<1>1. blocks \in Seq(Block) BY DEF File
<1>2. t \in Outlines(blocks) /\ Gathered(blocks, t) = Gathered(blocks, s) BY TurnPageKeeps
<1> HIDE DEF t
<1>3. z \in Outlines(blocks) /\ Gathered(blocks, z) = Gathered(blocks, t) /\ z.stack = t.stack BY <1>1, <1>2, FlushKeeps
<1>4. z.stack \in Seq(N) BY <1>1, <1>3, OutlineIs
<1> HIDE DEF z
<1>5. CASE b.type = "slide_title"
  <2>1. AddBlock(s, f, i) = x BY <1>5 DEF AddBlock, t, z
  <2>2. <<i>> \in Seq(N) OBVIOUS
  <2>3. x \in Outlines(blocks) /\ x.regions = z.regions /\ x.units = z.units
    <3> DEFINE e == <<i>>
    <3> HIDE DEF e
    <3>1. QED BY <1>3, <2>2 DEF Outlines, e
  <2>4. Gathered(blocks, x) = Gathered(blocks, z) BY <2>3 DEF Gathered
  <2> HIDE DEF x
  <2>5. QED BY <1>2, <1>3, <2>1, <2>3, <2>4
<1>6. CASE b.type = "heading"
  <2>1. AddBlock(s, f, i) = y BY <1>6 DEF AddBlock, t, z
  <2>2. b.level - 1 \in Nat
    <3>1. b.level \in Nat \ {0} BY <1>6, BlockCases
    <3>2. QED BY <3>1
  <2>3. m \in Nat /\ m = Len(z.stack) BY <1>3, <1>4
  <2> DEFINE l == b.level - 1
  <2> HIDE DEF l, m
  <2>4. Seqs!Min({l, m}) \in 0..m
    <3>1. l \in Nat BY <2>2 DEF l
    <3>2. QED BY <2>3, <3>1, MinPair
  <2>5. upTo \in 0..Len(z.stack) BY <2>3, <2>4 DEF l
  <2> HIDE DEF upTo
  <2>6. front \in Seq(N)
    <3>1. 1 \in Nat \ {0} /\ 1 <= upTo + 1 BY <2>5
    <3> DEFINE k == z.stack
    <3>2. k \in Seq(N) /\ upTo \in 0..Len(k) BY <1>4, <2>5
    <3> HIDE DEF k, N
    <3>3. QED BY <3>1, <3>2, SubSeqType DEF k
  <2> HIDE DEF front
  <2>7. Append(front, i) \in Seq(N) BY <2>6, AppendProperties
  <2>8. y = [z EXCEPT !.stack = Append(front, i)] BY DEF front
  <2> DEFINE e == Append(front, i)
  <2> HIDE DEF y, e
  <2>9. y \in Outlines(blocks) /\ y.regions = z.regions /\ y.units = z.units
    <3>1. e \in Seq(N) /\ y = [z EXCEPT !.stack = e] BY <2>7, <2>8 DEF e
    <3>2. QED BY <1>3, <3>1 DEF Outlines
  <2>10. Gathered(blocks, y) = Gathered(blocks, z) BY <2>9 DEF Gathered
  <2>11. QED BY <1>2, <1>3, <2>1, <2>9, <2>10
<1>7. QED BY <1>5, <1>6

\* Code or a table closes the open region and is a region of its own.
LEMMA AddAlone ==
  ASSUME NEW f \in File, NEW s \in Outlines(f.blocks), NEW i \in 1..Len(f.blocks), f.blocks[i] \in Block,
         f.blocks[i].type \in {"code", "table"}
  PROVE  /\ AddBlock(s, f, i) \in Outlines(f.blocks)
         /\ Gathered(f.blocks, AddBlock(s, f, i)) = Gathered(f.blocks, s) \o BlockWording(f.blocks)[i]
<1> DEFINE blocks == f.blocks
           b == blocks[i]
           t == TurnPage(s, f, b)
           z == Flush(t)
           N == 1..Len(blocks)
           path == t.stack \o t.slide
           e == <<i>>
           r == [kind |-> b.type, path |-> path, units |-> e]
           x == [z EXCEPT !.regions = Append(@, r)]
           bw == BlockWording(blocks)
<1>1. blocks \in Seq(Block) BY DEF File
<1>2. t \in Outlines(blocks) /\ Gathered(blocks, t) = Gathered(blocks, s) BY TurnPageKeeps
<1>3. AddBlock(s, f, i) = x BY DEF AddBlock
<1> HIDE DEF t
<1>4. path \in Seq(N)
  <2>1. t.stack \in Seq(N) /\ t.slide \in Seq(N) BY <1>1, <1>2, OutlineIs
  <2> DEFINE p == t.stack
             q == t.slide
  <2> HIDE DEF p, q, N
  <2>2. p \in Seq(N) /\ q \in Seq(N) BY <2>1 DEF p, q
  <2>3. p \o q \in Seq(N) BY <2>2, ConcatParts
  <2>4. QED BY <2>3 DEF p, q
<1>5. z \in Outlines(blocks) /\ z.units = <<>> /\ Gathered(blocks, z) = Gathered(blocks, t) BY <1>1, <1>2, FlushKeeps
<1> HIDE DEF z, path
<1>6. e \in Seq(N) /\ e # <<>> /\ Len(e) = 1 /\ e[1] = i OBVIOUS
<1> HIDE DEF e
<1>7. r \in RegionOf(blocks) /\ r.units = e
  <2>1. e \in NonEmpty(N) BY <1>6 DEF NonEmpty
  <2>2. r \in [kind: {"text", "code", "table"}, path: Seq(N), units: NonEmpty(N)] BY <1>4, <2>1
  <2>3. r.kind = b.type /\ r.kind # "text" /\ r.units = e OBVIOUS
  <2>4. Len(r.units) = 1 /\ blocks[r.units[1]].type = r.kind BY <1>6, <2>3
  <2> HIDE DEF r
  <2>5. QED BY <2>2, <2>3, <2>4 DEF RegionOf
<1> HIDE DEF r
<1>8. x \in Outlines(blocks) /\ Gathered(blocks, x) = Gathered(blocks, z) \o Worded(bw, r.units)
  BY <1>1, <1>5, <1>7, GatheredRegion
<1>9. Worded(bw, e) = bw[i]
  <2>1. bw \in Maps(N, Seq(Token)) BY <1>1, RegionIs
  <2> HIDE DEF bw, N
  <2>2. i \in N BY DEF N
  <2>3. QED BY <2>1, <2>2, WordedOne DEF e
<1> HIDE DEF x
<1>10. QED BY <1>2, <1>3, <1>5, <1>7, <1>8, <1>9

\* Text is added to the open region, or to a new one under another heading.
LEMMA AddProse ==
  ASSUME NEW f \in File, NEW s \in Outlines(f.blocks), NEW i \in 1..Len(f.blocks), f.blocks[i] \in Block,
         f.blocks[i].type \in ProseKinds
  PROVE  /\ AddBlock(s, f, i) \in Outlines(f.blocks)
         /\ Gathered(f.blocks, AddBlock(s, f, i)) = Gathered(f.blocks, s) \o BlockWording(f.blocks)[i]
<1> DEFINE blocks == f.blocks
           b == blocks[i]
           t == TurnPage(s, f, b)
           N == 1..Len(blocks)
           path == t.stack \o t.slide
           z == IF t.path # path THEN Flush(t) ELSE t
           x == [z EXCEPT !.path = path, !.units = Append(@, i)]
<1>1. blocks \in Seq(Block) BY DEF File
<1>2. t \in Outlines(blocks) /\ Gathered(blocks, t) = Gathered(blocks, s) BY TurnPageKeeps, SMTT(60)
<1>3. AddBlock(s, f, i) = x
  <2>1. b.type # "slide_title" /\ b.type # "heading" /\ b.type \notin {"code", "table"} BY DEF ProseKinds
  <2>2. QED BY <2>1 DEF AddBlock
<1> HIDE DEF t
<1>4. path \in Seq(N)
  <2>1. t.stack \in Seq(N) /\ t.slide \in Seq(N) BY <1>1, <1>2, OutlineIs
  <2> DEFINE p == t.stack
             q == t.slide
  <2> HIDE DEF p, q, N
  <2>2. p \in Seq(N) /\ q \in Seq(N) BY <2>1 DEF p, q
  <2>3. p \o q \in Seq(N) BY <2>2, ConcatParts
  <2>4. QED BY <2>3 DEF p, q
<1>5. z \in Outlines(blocks) /\ Gathered(blocks, z) = Gathered(blocks, t)
  <2>1. Flush(t) \in Outlines(blocks) /\ Gathered(blocks, Flush(t)) = Gathered(blocks, t) BY <1>1, <1>2, FlushKeeps
  <2> HIDE DEF path
  <2>2. QED BY <1>2, <2>1
<1> HIDE DEF z, path
<1>6. i \in IsProse(blocks) BY DEF IsProse
<1>7. x \in Outlines(blocks) /\ Gathered(blocks, x) = Gathered(blocks, z) \o BlockWording(blocks)[i]
  BY <1>1, <1>4, <1>5, <1>6, GatheredUnit
<1> HIDE DEF x
<1>8. QED BY <1>2, <1>3, <1>5, <1>7

\* Each block adds its words to what is gathered.
LEMMA AddBlockKeeps ==
  ASSUME NEW f \in File, NEW s \in Outlines(f.blocks), NEW i \in 1..Len(f.blocks)
  PROVE  /\ AddBlock(s, f, i) \in Outlines(f.blocks)
         /\ Gathered(f.blocks, AddBlock(s, f, i)) = Gathered(f.blocks, s) \o BlockWording(f.blocks)[i]
<1> DEFINE blocks == f.blocks
           b == blocks[i]
           w == BlockWording(blocks)[i]
           x == AddBlock(s, f, i)
<1>1. blocks \in Seq(Block) BY DEF File
<1>2. w = Span(i, 0, Words(b)) /\ b \in Block BY <1>1, BlockWordingType
<1>3. b.type \in ProseKinds \cup {"heading", "slide_title", "code", "table"} BY <1>2, BlockCases
<1>4. CASE b.type \in {"heading", "slide_title"}
  <2>1. x \in Outlines(blocks) /\ Gathered(blocks, x) = Gathered(blocks, s) BY <1>2, <1>4, AddHeading
  <2>2. w = <<>>
    <3>1. Words(b) = 0 BY <1>2, <1>4, WordsType
    <3>2. w = Span(i, 0, 0) BY <1>2, <3>1
    <3>3. 1..0 = {} OBVIOUS
    <3>4. QED BY <3>2, <3>3 DEF Span
  <2>3. Gathered(blocks, s) \o <<>> = Gathered(blocks, s)
    <3>1. Gathered(blocks, s) \in Seq(Token) BY <1>1, OutlineIs
    <3>2. QED BY <3>1, ConcatEmpty
  <2> HIDE DEF x, w
  <2>4. QED BY <2>1, <2>2, <2>3 DEF x, w
<1>5. CASE b.type \in {"code", "table"} BY <1>2, <1>5, AddAlone
<1>6. CASE b.type \in ProseKinds BY <1>2, <1>6, AddProse
<1>7. QED BY <1>3, <1>4, <1>5, <1>6

\* At first nothing is gathered.
LEMMA NothingGathered ==
  ASSUME NEW blocks \in Seq(Block)
  PROVE  NoRegions \in Outlines(blocks) /\ Gathered(blocks, NoRegions) = <<>>
<1>1. NoRegions \in Outlines(blocks)
  <2>1. <<>> \in Seq(RegionOf(blocks)) /\ <<>> \in Seq(IsProse(blocks)) /\ <<>> \in Seq(1..Len(blocks)) /\ 0 \in Nat OBVIOUS
  <2>2. QED BY <2>1 DEF NoRegions, Outlines
<1> DEFINE rw == RegionWording(blocks)
           bw == BlockWording(blocks)
           N == 1..Len(blocks)
<1>2. rw \in Maps(RegionOf(blocks), Seq(Token)) /\ bw \in Maps(N, Seq(Token)) BY RegionIs
<1>3. NoRegions.regions = <<>> /\ NoRegions.units = <<>> BY DEF NoRegions
<1>4. Gathered(blocks, NoRegions) = Worded(rw, <<>>) \o Worded(bw, <<>>) BY <1>3 DEF Gathered
<1> HIDE DEF rw, bw, N
<1>5. Worded(rw, <<>>) = <<>> /\ Worded(bw, <<>>) = <<>> BY <1>2, WordedEmpty
<1>6. <<>> \o <<>> = <<>> OBVIOUS
<1>7. QED BY <1>1, <1>4, <1>5, <1>6

\* What is gathered of a document block by block.
OutlineTraces(f) ==
  {g \in [0..Len(f.blocks) -> Outlines(f.blocks)] :
     /\ g[0] = NoRegions
     /\ \A k \in 1..Len(f.blocks) : g[k] = AddBlock(g[k - 1], f, k)
     /\ Regions(f) = Flush(g[Len(f.blocks)]).regions}

\* What is gathered of a document forms a trace.
LEMMA OutlineSteps ==
  ASSUME NEW f \in File
  PROVE  \E g : g \in OutlineTraces(f)
<1> DEFINE items == f.blocks
           n == Len(items)
           V == Outlines(f.blocks)
           h == [p \in V \X (1..n) |-> AddBlock(p[1], f, p[2])]
           r == [k \in 1..n |-> k]
<1>0. items \in Seq(Block) /\ n \in Nat /\ DOMAIN items = 1..n BY DEF File
<1>1. NoRegions \in V BY <1>0, NothingGathered
<1>2. ASSUME NEW s \in V, NEW k \in 1..n PROVE AddBlock(s, f, k) \in V BY AddBlockKeeps
<1>3. h \in StepsOn(V, n)
  <2> HIDE DEF V, n
  <2>1. \A p \in V \X (1..n) : p[1] \in V /\ p[2] \in 1..n OBVIOUS
  <2>2. \A p \in V \X (1..n) : AddBlock(p[1], f, p[2]) \in V BY <1>2, <2>1
  <2>3. QED BY <2>2 DEF StepsOn
<1>4. PICK a : a \in FoldsOver(V, n, NoRegions, h)
  <2> HIDE DEF h, V, n
  <2>1. QED BY <1>0, <1>1, <1>3, FoldSteps
<1>5. \A v \in V, k \in 1..n : h[<<v, k>>] = AddBlock(v, f, k)
  <2> HIDE DEF V, n
  <2>1. QED OBVIOUS
<1>6. /\ a \in [SUBSET (1..n) -> V] /\ a[{}] = NoRegions
      /\ \A t \in SUBSET (1..n) :
           t # {} => /\ Seqs!Max(t) \in 1..n /\ t \ {Seqs!Max(t)} \in SUBSET (1..n)
                     /\ a[t] = AddBlock(a[t \ {Seqs!Max(t)}], f, Seqs!Max(t))
      /\ \A k \in 1..n : a[1..k] = AddBlock(a[1..(k - 1)], f, k)
  <2>1. /\ a \in [SUBSET (1..n) -> V] /\ a[{}] = NoRegions
        /\ \A t \in SUBSET (1..n) :
             t # {} => /\ Seqs!Max(t) \in 1..n /\ t \ {Seqs!Max(t)} \in SUBSET (1..n)
                       /\ a[t] = h[<<a[t \ {Seqs!Max(t)}], Seqs!Max(t)>>]
        /\ \A k \in 1..n : a[1..k] = h[<<a[1..(k - 1)], k>>]
    <3> HIDE DEF h, V, n
    <3>1. QED BY <1>4 DEF FoldsOver
  <2> HIDE DEF n
  <2>2. \A k \in 1..n : 1..(k - 1) \in SUBSET (1..n) BY <1>0
  <2> HIDE DEF h, V
  <2>3. QED BY <2>1, <2>2, <1>5
<1> DEFINE Iter(i) == i = [t \in SUBSET (1..n) |-> IF t = {} THEN NoRegions
                                                   ELSE AddBlock(i[t \ {Seqs!Max(t)}], f, r[Seqs!Max(t)])]
           c == CHOOSE i : Iter(i)
<1>7. Regions(f) = Flush(c[1..n]).regions
  <2>1. DOMAIN [k \in 1..n |-> k] = 1..n OBVIOUS
  <2>2. QED BY <1>0, <2>1 DEF Regions, Seqs!FoldLeftDomain, Seqs!FoldLeft, Seqs!MapThenFoldSet
<1> HIDE DEF n
<1>8. Iter(c)
  <2>1. \A t \in SUBSET (1..n) : a[t] = IF t = {} THEN NoRegions
                                        ELSE AddBlock(a[t \ {Seqs!Max(t)}], f, r[Seqs!Max(t)])
    BY <1>6
  <2>2. Iter(a)
    <3> HIDE DEF h, V, r, n
    <3>1. a = [t \in SUBSET (1..n) |-> a[t]] BY <1>6
    <3>2. QED BY <2>1, <3>1
  <2> HIDE DEF Iter
  <2>3. QED BY <2>2
<1>9. /\ c[{}] = NoRegions
      /\ \A t \in SUBSET (1..n) : t # {} => c[t] = AddBlock(c[t \ {Seqs!Max(t)}], f, Seqs!Max(t))
  <2>1. \A t \in SUBSET (1..n) : t # {} => r[Seqs!Max(t)] = Seqs!Max(t) BY <1>6
  <2> HIDE DEF c, r
  <2>2. QED BY <1>8, <2>1
<1>10. c[1..n] = a[1..n]
  <2>1. ASSUME NEW t \in SUBSET (1..n), t # {}, c[t \ {Seqs!Max(t)}] \in V
        PROVE  c[t] = h[<<c[t \ {Seqs!Max(t)}], Seqs!Max(t)>>]
    <3> HIDE DEF c, h, V, n
    <3>1. QED BY <1>5, <1>6, <1>9, <2>1
  <2> HIDE DEF c, h, V, n
  <2>2. Follows(c, n, V, NoRegions, h) BY <1>9, <2>1 DEF Follows
  <2>3. QED BY <1>0, <1>1, <1>3, <1>4, <2>2, FoldValue
<1> DEFINE g == [k \in 0..n |-> a[1..k]]
<1>11. g \in [0..n -> V] /\ g[0] = NoRegions /\ (\A k \in 1..n : g[k] = AddBlock(g[k - 1], f, k)) /\ g[n] = a[1..n]
  <2>1. \A k \in 0..n : 1..k \in SUBSET (1..n) BY <1>0
  <2>2. \A k \in 1..n : k \in 0..n /\ k - 1 \in 0..n BY <1>0
  <2>3. 1..0 = {} /\ 0 \in 0..n /\ n \in 0..n BY <1>0
  <2> HIDE DEF c, h, V, n
  <2>4. QED BY <1>6, <2>1, <2>2, <2>3
<1> HIDE DEF c, h, g
<1>12. g \in OutlineTraces(f) BY <1>7, <1>10, <1>11 DEF OutlineTraces, n
<1>13. QED BY <1>12

\* The regions of a document have its words, in their order.
LEMMA RegionsIs ==
  ASSUME NEW f \in File
  PROVE  /\ Regions(f) \in Seq(RegionOf(f.blocks))
         /\ Worded(RegionWording(f.blocks), Regions(f)) = Content(f.blocks)
<1> DEFINE blocks == f.blocks
           n == Len(blocks)
           V == Outlines(blocks)
           bw == BlockWording(blocks)
           rw == RegionWording(blocks)
<1>1. blocks \in Seq(Block) /\ n \in Nat /\ DOMAIN blocks = 1..n BY DEF File
<1>2. PICK g : g \in OutlineTraces(f) BY OutlineSteps
<1>3. /\ g \in [0..n -> V] /\ g[0] = NoRegions
      /\ \A k \in 1..n : g[k] = AddBlock(g[k - 1], f, k)
      /\ Regions(f) = Flush(g[n]).regions
  <2> HIDE DEF V
  <2>1. QED BY <1>2 DEF OutlineTraces, V
<1>4. bw = [i \in 1..n |-> BlockWords(blocks, i)] BY DEF BlockWording
<1>5. Content(blocks) = Seqs!FlattenSeq(bw)
  <2>1. bw = [i \in DOMAIN blocks |-> BlockWords(blocks, i)]
    <3> HIDE DEF bw
    <3>1. QED BY <1>1, <1>4
  <2>2. QED BY <2>1 DEF Content
<1>6. bw \in Seq(Seq(Token)) /\ Len(bw) = n
  <2> DEFINE Y == Seq(Token)
             E(i) == BlockWords(blocks, i)
  <2>1. bw \in Maps(1..n, Y) BY <1>1, BlockWordingType DEF Text
  <2> HIDE DEF Y, bw, n
  <2>2. bw \in [1..n -> Y] BY <2>1 DEF Maps
  <2>3. QED BY <1>1, <2>2 DEF Y
<1>7. PICK w : /\ w[0] = <<>> /\ \A k \in 1..n : w[k] = w[k - 1] \o bw[k]
               /\ Seqs!FlattenSeq(bw) = w[n]
  <2> DEFINE l == Len(bw)
  <2>1. bw \in Seq(Seq(Token)) /\ l = n BY <1>6
  <2> HIDE DEF bw, n
  <2>2. PICK w \in [0..Len(bw) -> Seq(Token)] :
          /\ w[0] = <<>> /\ \A k \in 1..Len(bw) : w[k] = w[k - 1] \o bw[k]
          /\ Seqs!FlattenSeq(bw) = w[Len(bw)]
    BY <2>1, FlattenSteps
  <2>3. (\A k \in 1..n : w[k] = w[k - 1] \o bw[k]) /\ Seqs!FlattenSeq(bw) = w[n] BY <2>1, <2>2
  <2>4. QED BY <2>2, <2>3
<1> DEFINE T == {k \in 0..n : Gathered(blocks, g[k]) = w[k]}
<1> HIDE DEF n, V
<1>8. 0 \in T
  <2>1. Gathered(blocks, NoRegions) = <<>> BY <1>1, NothingGathered
  <2>2. 0 \in 0..n BY <1>1
  <2>3. QED BY <1>3, <1>7, <2>1, <2>2
<1>9. ASSUME NEW m \in 0..(n - 1), m \in T PROVE m + 1 \in T
  <2> DEFINE k == m + 1
             s == g[m]
             x == AddBlock(s, f, k)
  <2>1. k \in 1..n /\ k \in 0..n /\ k - 1 = m /\ m \in 0..n BY <1>1
  <2>2. s \in V /\ Gathered(blocks, s) = w[m] BY <1>3, <1>9, <2>1
  <2> HIDE DEF k, s
  <2>3. Gathered(blocks, x) = Gathered(blocks, s) \o bw[k]
    <3>1. s \in Outlines(f.blocks) /\ k \in 1..Len(f.blocks) BY <2>1, <2>2 DEF V, n
    <3> HIDE DEF blocks, bw
    <3>2. Gathered(f.blocks, x) = Gathered(f.blocks, s) \o BlockWording(f.blocks)[k] BY <3>1, AddBlockKeeps
    <3>3. QED BY <3>2 DEF blocks, bw
  <2>4. g[k] = x BY <1>3, <2>1 DEF s
  <2>5. w[k] = w[m] \o bw[k] BY <1>7, <2>1
  <2> HIDE DEF x, bw
  <2>6. Gathered(blocks, g[k]) = w[k] BY <2>2, <2>3, <2>4, <2>5
  <2>7. QED BY <2>1, <2>6 DEF k
<1>10. n \in T
  <2> HIDE DEF T
  <2>1. QED BY <1>1, <1>8, <1>9, Induction
<1> DEFINE last == g[n]
           z == Flush(last)
           rs == z.regions
<1>11. last \in V /\ Gathered(blocks, last) = w[n]
  <2>1. n \in 0..n BY <1>1
  <2>2. QED BY <1>3, <1>10, <2>1
<1> HIDE DEF last
<1>12. z \in V /\ z.units = <<>> /\ Gathered(blocks, z) = Gathered(blocks, last) BY <1>1, <1>11, FlushKeeps DEF V
<1> HIDE DEF z, rw, bw
<1>13. z.regions \in Seq(RegionOf(blocks)) /\ Worded(rw, z.regions) \in Seq(Token)
  BY <1>1, <1>12, OutlineIs DEF V, rw
<1>14. Gathered(blocks, z) = Worded(rw, rs) \o Worded(bw, <<>>) BY <1>12 DEF Gathered, rw, bw
<1>15. Worded(bw, <<>>) = <<>>
  <2>1. bw \in Maps(1..n, Seq(Token)) BY <1>1, RegionIs DEF bw, n
  <2>2. QED BY <2>1, WordedEmpty
<1>16. Worded(rw, rs) \o <<>> = Worded(rw, rs) BY <1>13, ConcatEmpty
<1>17. Regions(f) = rs BY <1>3 DEF z, last
<1>18. Regions(f) \in Seq(RegionOf(blocks)) BY <1>13, <1>17
<1>19. Worded(rw, rs) = Gathered(blocks, z) BY <1>14, <1>15, <1>16
<1>20. Content(blocks) = w[n] BY <1>5, <1>7
<1>21. Worded(rw, Regions(f)) = Content(blocks)
  <2> HIDE DEF rs, blocks
  <2>1. QED BY <1>11, <1>12, <1>17, <1>19, <1>20
<1>22. QED BY <1>18, <1>21 DEF rw

(***************************************************************************)
(* The documents of the specification                                      *)
(***************************************************************************)
\* Sequences of bounded length are sequences.
LEMMA BoundedType ==
  ASSUME NEW S, NEW T, S \subseteq T, NEW n \in Nat
  PROVE  Seqs!BoundedSeq(S, n) \subseteq Seq(T)
<1>1. SUFFICES ASSUME NEW s \in Seqs!BoundedSeq(S, n) PROVE s \in Seq(T)
  OBVIOUS
<1>2. PICK m \in 0..n : s \in [1..m -> S] BY DEF Seqs!BoundedSeq, Seqs!SeqOf
<1>3. m \in Nat /\ s \in [1..m -> T] BY <1>2
<1>4. QED BY <1>3

\* The blocks of ordinary documents and of decks are blocks.
LEMMA OutlineType == Outline \subseteq Block /\ Slides \subseteq Block
<1>1. MinTokens \in Nat \ {0} /\ TokenLimit + 1 \in Nat \ {0} /\ 1 \in Nat \ {0} /\ 2 \in Nat \ {0} BY SizePolicy
<1> DEFINE P == Nat \ {0}
           SP == Seq(P)
<1>2. /\ <<1>> \in SP /\ <<1, 2>> \in SP /\ <<MinTokens, 1>> \in SP /\ <<TokenLimit + 1>> \in SP
  BY <1>1
<1>3. \A p \in P, s \in SP, t \in ProseKinds : Prose(t, p, s) \in Block
  <2>1. ProseBlock = [type: ProseKinds, page: Nat, sentences: SP] BY DEF ProseBlock
  <2> HIDE DEF SP
  <2>2. QED BY <2>1 DEF Prose, Block
<1>4. Heading(1) \in Block /\ Heading(2) \in Block BY DEF Heading, Block, HeadingBlock
<1>5. Code(TRUE, <<2>>, {}) \in Block
  <2>1. <<2>> \in Seq(Nat) OBVIOUS
  <2>2. QED BY <2>1 DEF Code, Block, CodeBlock
<1>6. Table(1, TRUE, << <<1, 1>> >>) \in Block
  <2> DEFINE c == <<1, 1>>
             SN == Seq(Nat)
  <2>1. c \in SN OBVIOUS
  <2> HIDE DEF c, SN
  <2>2. <<c>> \in Seq(SN) BY <2>1
  <2>3. TableBlock = [type: {"table"}, page: Nat, header: Nat, piped: BOOLEAN, rows: Seq(SN)] BY DEF TableBlock, SN
  <2> DEFINE r == <<c>>
             SS == Seq(SN)
  <2> HIDE DEF r, SS
  <2>4. [type |-> "table", page |-> 1, header |-> 1, piped |-> TRUE, rows |-> r] \in TableBlock
    <3>1. TableBlock = [type: {"table"}, page: Nat, header: Nat, piped: BOOLEAN, rows: SS] BY <2>3 DEF SS
    <3>2. r \in SS BY <2>2 DEF r, SS
    <3>3. QED BY <3>1, <3>2
  <2>5. QED BY <2>4 DEF Table, Block, r, c
<1>7. \A p \in 1..2 : SlideTitle(p) \in Block BY DEF SlideTitle, Block, TitleBlock
<1> DEFINE s1 == <<1>>
           s2 == <<1, 2>>
           s3 == <<MinTokens, 1>>
           s4 == <<TokenLimit + 1>>
<1>8. 1 \in P /\ 2 \in P /\ s1 \in SP /\ s2 \in SP /\ s3 \in SP /\ s4 \in SP BY <1>1, <1>2
<1>9. "paragraph" \in ProseKinds /\ "list_item" \in ProseKinds BY DEF ProseKinds
<1>10. Outline = {Heading(1), Heading(2), Prose("paragraph", 1, s1), Prose("paragraph", 1, s2),
                  Prose("paragraph", 1, s3), Prose("paragraph", 1, s4),
                  Prose("list_item", 1, s1), Code(TRUE, <<2>>, {}), Table(1, TRUE, << <<1, 1>> >>)} BY DEF Outline
<1>11. Slides = {SlideTitle(p) : p \in 1..2} \cup {Prose("paragraph", p, s1) : p \in 1..2} BY DEF Slides
<1> HIDE DEF s1, s2, s3, s4, SP
<1>12. Outline \subseteq Block BY <1>3, <1>4, <1>5, <1>6, <1>8, <1>9, <1>10
<1>13. Slides \subseteq Block
  <2>1. \A p \in 1..2 : p \in P OBVIOUS
  <2> HIDE DEF P
  <2>2. QED BY <1>3, <1>7, <1>8, <1>9, <1>11, <2>1
<1>14. QED BY <1>12, <1>13

\* The blocks of code of the listings are blocks.
LEMMA ListingsType == Listings \subseteq Block
<1> DEFINE With(k) == {Code(f, n, d) : n \in [1..k -> {0, 1, TokenLimit}], d \in SUBSET (1..k), f \in BOOLEAN}
<1>1. SUFFICES ASSUME NEW k \in 1..MaxLines, NEW n \in [1..k -> {0, 1, TokenLimit}], NEW d \in SUBSET (1..k), NEW f \in BOOLEAN
               PROVE  Code(f, n, d) \in Block
  <2>1. Listings = UNION {With(k) : k \in 1..MaxLines} BY DEF Listings
  <2>2. ASSUME NEW b \in Listings PROVE \E k \in 1..MaxLines : b \in With(k)
    <3> HIDE DEF With
    <3>1. QED BY <2>1
  <2>3. ASSUME NEW k \in 1..MaxLines, NEW b \in With(k)
        PROVE  \E n \in [1..k -> {0, 1, TokenLimit}], d \in SUBSET (1..k), f \in BOOLEAN : b = Code(f, n, d)
    OBVIOUS
  <2> HIDE DEF With
  <2>4. ASSUME NEW b \in Listings PROVE b \in Block
    <3>1. PICK k \in 1..MaxLines : b \in With(k) BY <2>2
    <3>2. PICK n \in [1..k -> {0, 1, TokenLimit}], d \in SUBSET (1..k), f \in BOOLEAN : b = Code(f, n, d) BY <2>3, <3>1
    <3>3. QED BY <1>1, <3>2
  <2>5. QED BY <2>4
<1>2. k \in Nat /\ n \in [1..k -> Nat] BY SizePolicy
<1>3. n \in Seq(Nat) BY <1>2
<1>4. d \in SUBSET Nat OBVIOUS
<1>5. QED BY <1>3, <1>4 DEF Code, Block, CodeBlock

\* The rows of a table are sequences of lengths.
LEMMA RowsType == Seqs!BoundedSeq(Rows, 2) \subseteq Seq(Seq(Nat))
<1> DEFINE S == {0, 1, TokenLimit + 1}
           SN == Seq(Nat)
           all == Seqs!BoundedSeq(S, Columns)
<1>1. S \subseteq Nat /\ Columns \in Nat /\ 2 \in Nat BY SizePolicy
<1>2. all \subseteq SN
  <2> HIDE DEF S
  <2>1. QED BY <1>1, BoundedType
<1> HIDE DEF all, SN
<1>3. Rows \subseteq SN BY <1>2 DEF Rows, all
<1>4. QED BY <1>1, <1>3, BoundedType DEF SN

\* Every document of the specification is one the lemmas are about.
LEMMA FilesType == Files \subseteq File
<1>1. SUFFICES ASSUME NEW f \in Files PROVE f \in File
  OBVIOUS
<1>2. Seqs!BoundedSeq(Outline, MaxBlocks) \subseteq Seq(Block) /\ Seqs!BoundedSeq(Slides, MaxBlocks) \subseteq Seq(Block)
  <2>1. MaxBlocks \in Nat BY SizePolicy
  <2>2. QED BY <2>1, OutlineType, BoundedType
<1>3. \A p \in BOOLEAN, h \in {1, TokenLimit}, r \in Seqs!BoundedSeq(Rows, 2) : Table(h, p, r) \in Block
  <2> DEFINE B == Seqs!BoundedSeq(Rows, 2)
             SS == Seq(Seq(Nat))
  <2>1. B \subseteq SS BY RowsType
  <2>2. TableBlock = [type: {"table"}, page: Nat, header: Nat, piped: BOOLEAN, rows: SS] BY DEF TableBlock
  <2> HIDE DEF B, SS
  <2>3. \A p \in BOOLEAN, h \in {1, TokenLimit}, r \in B : Table(h, p, r) \in Block
    BY <2>1, <2>2, SizePolicy DEF Table, Block
  <2>4. QED BY <2>3 DEF B
<1>4. CASE \E s \in Seqs!BoundedSeq(Outline, MaxBlocks) : f = [deck |-> FALSE, blocks |-> s]
  <2>1. PICK s \in Seqs!BoundedSeq(Outline, MaxBlocks) : f = [deck |-> FALSE, blocks |-> s] BY <1>4
  <2>2. s \in Seq(Block) BY <1>2
  <2>3. QED BY <2>1, <2>2 DEF File
<1>5. CASE \E s \in Seqs!BoundedSeq(Slides, MaxBlocks) : f = [deck |-> TRUE, blocks |-> s]
  <2>1. PICK s \in Seqs!BoundedSeq(Slides, MaxBlocks) : f = [deck |-> TRUE, blocks |-> s] BY <1>5
  <2>2. s \in Seq(Block) BY <1>2
  <2>3. QED BY <2>1, <2>2 DEF File
<1>6. CASE \E b \in Block : f = [deck |-> FALSE, blocks |-> <<b>>]
  <2>1. PICK b \in Block : f = [deck |-> FALSE, blocks |-> <<b>>] BY <1>6
  <2> DEFINE s == <<b>>
  <2>2. s \in Seq(Block) /\ f = [deck |-> FALSE, blocks |-> s]
    <3> DEFINE Bl == Block
    <3>1. b \in Bl OBVIOUS
    <3> HIDE DEF Bl
    <3>2. <<b>> \in Seq(Bl) BY <3>1
    <3>3. QED BY <2>1, <3>2 DEF Bl
  <2> HIDE DEF s
  <2>3. QED BY <2>2 DEF File
<1>7. \/ \E s \in Seqs!BoundedSeq(Outline, MaxBlocks) : f = [deck |-> FALSE, blocks |-> s]
      \/ \E s \in Seqs!BoundedSeq(Slides, MaxBlocks) : f = [deck |-> TRUE, blocks |-> s]
      \/ \E b \in Block : f = [deck |-> FALSE, blocks |-> <<b>>]
  <2> DEFINE A == {[deck |-> FALSE, blocks |-> s] : s \in Seqs!BoundedSeq(Outline, MaxBlocks) \ {<<>>}}
             D == {t \in Seqs!BoundedSeq(Slides, MaxBlocks) \ {<<>>} : \A i, j \in DOMAIN t : i < j => t[i].page <= t[j].page}
             B == {[deck |-> TRUE, blocks |-> s] : s \in D}
             L == {l \in Listings : \A i \in l.defs : l.lines[i] > 0}
             R == Seqs!BoundedSeq(Rows, 2)
             E == {Table(h, p, r) : h \in {1, TokenLimit}, p \in BOOLEAN, r \in R}
             G == L \cup E
             C == {[deck |-> FALSE, blocks |-> <<b>>] : b \in G}
  <2>1. Files = A \cup B \cup C BY DEF Files
  <2>2. ASSUME NEW b \in L PROVE b \in Listings OBVIOUS
  <2>3. ASSUME NEW b \in E PROVE \E h \in {1, TokenLimit}, p \in BOOLEAN, r \in R : b = Table(h, p, r) OBVIOUS
  <2>4. \A b \in E : b \in Block
    <3> HIDE DEF E, R
    <3>1. SUFFICES ASSUME NEW b \in E PROVE b \in Block OBVIOUS
    <3>2. PICK h \in {1, TokenLimit}, p \in BOOLEAN, r \in R : b = Table(h, p, r) BY <2>3
    <3>3. QED BY <1>3, <3>2 DEF R
  <2>5. \A b \in G : b \in Block
    <3> HIDE DEF E, L
    <3>1. QED BY <2>2, <2>4, ListingsType
  <2>6. \A x \in A : \E s \in Seqs!BoundedSeq(Outline, MaxBlocks) : x = [deck |-> FALSE, blocks |-> s] OBVIOUS
  <2>7. \A x \in B : \E s \in Seqs!BoundedSeq(Slides, MaxBlocks) : x = [deck |-> TRUE, blocks |-> s]
    <3>1. \A s \in D : s \in Seqs!BoundedSeq(Slides, MaxBlocks) OBVIOUS
    <3> HIDE DEF D
    <3>2. QED BY <3>1
  <2> HIDE DEF G
  <2>8. \A x \in C : \E b \in G : x = [deck |-> FALSE, blocks |-> <<b>>] OBVIOUS
  <2> HIDE DEF A, B, C
  <2>9. f \in A \/ f \in B \/ f \in C BY <2>1
  <2>10. QED BY <2>5, <2>6, <2>7, <2>8, <2>9
<1>8. QED BY <1>4, <1>5, <1>6, <1>7

(***************************************************************************)
(* The invariant                                                           *)
(***************************************************************************)
Stages == {"region", "merge", "unavailable", "refused", "done"}
\* The words of the first k regions, and the chunks that name the blocks of one region.
CutWords(f, k)  == Worded(RegionWording(f.blocks), SubSeq(Regions(f), 1, k))
RegionChunks(f) == {c \in AnyChunk : \E r \in ToSet(Regions(f)) : c \in SoundChunks(ToSet(r.units))}

\* The entries of the region that is cut have its words, and what the loop passed is settled.
Merging(c) ==
  /\ c.region <= Len(Regions(c.file))
  /\ c.entries \in Seq(SoundEntries(ToSet(Regions(c.file)[c.region].units)))
  /\ EntriesGist(c.entries) = RegionWording(c.file.blocks)[Regions(c.file)[c.region]]
  /\ c.index \in 1..(Len(c.entries) + 1)
  /\ Settled(c.entries, c.index)

\* The chunks of the regions that are cut have their words.
Cutting(c) ==
  /\ c.at \in Stages /\ c.file \in File /\ c.region \in 1..(Len(Regions(c.file)) + 1)
  /\ c.chunks \in Seq(RegionChunks(c.file))
  /\ Gist(c.chunks) = CutWords(c.file, c.region - 1)
  /\ c.at # "merge" => c.entries = <<>>
  /\ c.at = "done" => c.region = Len(Regions(c.file)) + 1

Shaped(c) == c = [at |-> c.at, file |-> c.file, region |-> c.region, entries |-> c.entries, index |-> c.index, chunks |-> c.chunks]

Good(c) == Shaped(c) /\ Cutting(c) /\ (c.at = "merge" => Merging(c))

ChunkingIInv == Good(chunking)

\* The regions of a document and the blocks they name.
LEMMA RegionHere ==
  ASSUME NEW f \in File
  PROVE  /\ f \in File /\ f.blocks \in Seq(Block) /\ Regions(f) \in Seq(RegionOf(f.blocks))
         /\ \A k \in 1..Len(Regions(f)) : /\ Regions(f)[k] \in RegionOf(f.blocks) /\ Regions(f)[k] \in ToSet(Regions(f))
                                         /\ ToSet(Regions(f)[k].units) \subseteq Nat \ {0} /\ ToSet(Regions(f)[k].units) \subseteq Nat
<1> DEFINE rs == Regions(f)
           RO == RegionOf(f.blocks)
<1>1. f \in File OBVIOUS
<1>2. f.blocks \in Seq(Block) BY <1>1 DEF File
<1>3. rs \in Seq(RO) BY <1>1, RegionsIs
<1> HIDE DEF rs, RO
<1>4. \A k \in 1..Len(rs) : rs[k] \in RO /\ rs[k] \in ToSet(rs)
  <2>1. DOMAIN rs = 1..Len(rs) /\ \A k \in 1..Len(rs) : rs[k] \in RO BY <1>3
  <2>2. QED BY <2>1 DEF ToSet, Seqs!ToSet
<1>5. \A r \in RO : ToSet(r.units) \subseteq Nat \ {0} /\ ToSet(r.units) \subseteq Nat
  <2>1. SUFFICES ASSUME NEW r \in RO PROVE ToSet(r.units) \subseteq Nat \ {0}
    OBVIOUS
  <2> DEFINE u == r.units
             N == 1..Len(f.blocks)
  <2>2. u \in Seq(N) BY <1>2, RegionIs DEF RO
  <2>3. N \subseteq Nat \ {0} BY <1>2
  <2> HIDE DEF u, N
  <2>4. \A i \in DOMAIN u : u[i] \in N BY <2>2
  <2>5. ToSet(u) = {u[i] : i \in DOMAIN u} BY DEF ToSet, Seqs!ToSet
  <2>6. ToSet(u) \subseteq Nat \ {0} BY <2>3, <2>4, <2>5
  <2>7. QED BY <2>6 DEF u
<1>6. QED BY <1>1, <1>2, <1>3, <1>4, <1>5 DEF rs, RO

\* The words of the regions grow by those of the next one.
LEMMA CutWordsGrow ==
  ASSUME NEW f \in File, NEW k \in 1..Len(Regions(f))
  PROVE  /\ CutWords(f, k) = CutWords(f, k - 1) \o RegionWording(f.blocks)[Regions(f)[k]]
         /\ CutWords(f, k - 1) \in Text
<1> DEFINE rs == Regions(f)
           RO == RegionOf(f.blocks)
           rw == RegionWording(f.blocks)
           a == SubSeq(rs, 1, k - 1)
           x == rs[k]
           e == <<x>>
<1>1. rs \in Seq(RO) /\ rw \in Maps(RO, Seq(Token)) /\ k \in 1..Len(rs) BY RegionHere, RegionIs
<1> HIDE DEF rs, RO, rw
<1>2. SubSeq(rs, 1, k) = Append(a, x) /\ a \in Seq(RO) /\ x \in RO BY <1>1, PrefixParts
<1> HIDE DEF a, x
<1>3. Append(a, x) = a \o e /\ e \in Seq(RO) BY <1>2, AppendIsConcat
<1>4. Worded(rw, e) = rw[x] BY <1>1, <1>2, WordedOne
<1> HIDE DEF e
<1>5. Worded(rw, a \o e) = Worded(rw, a) \o Worded(rw, e)
  <2>1. e \in Seq(RO) BY <1>3
  <2>2. a \in Seq(RO) BY <1>2
  <2>3. rw \in Maps(RO, Seq(Token)) BY <1>1
  <2>4. QED BY ONLY <2>1, <2>2, <2>3, WordedConcat
<1>6. Worded(rw, a) \in Seq(Token) BY <1>1, <1>2, WordedType
<1>7. Worded(rw, SubSeq(rs, 1, k)) = Worded(rw, a) \o rw[x] BY <1>2, <1>3, <1>4, <1>5
<1>8. QED BY <1>6, <1>7 DEF CutWords, Text, rs, rw, a, x

\* Before the first region there are no words, behind the last one those of the document.
LEMMA NothingCut ==
  ASSUME NEW f \in File
  PROVE  CutWords(f, 0) = <<>> /\ CutWords(f, Len(Regions(f))) = Content(f.blocks)
<1> DEFINE rs == Regions(f)
           rw == RegionWording(f.blocks)
           RO == RegionOf(f.blocks)
<1>1. f \in File /\ f.blocks \in Seq(Block) /\ rs \in Seq(RO) BY RegionHere
<1>2. Worded(rw, rs) = Content(f.blocks) BY <1>1, RegionsIs
<1>3. rw \in Maps(RO, Seq(Token)) BY <1>1, RegionIs
<1> HIDE DEF rs, rw, RO
<1>4. Worded(rw, <<>>) = <<>> BY <1>3, WordedEmpty
<1>5. SubSeq(rs, 1, 0) = <<>> /\ SubSeq(rs, 1, Len(rs)) = rs
  <2>1. SubSeq(rs, 1, 0) = <<>> BY <1>1
  <2>2. QED BY <1>1, <2>1, SubSeqFull
<1>6. QED BY <1>2, <1>4, <1>5 DEF CutWords, rs, rw

(***************************************************************************)
(* Steps                                                                   *)
(***************************************************************************)
HereOf(c)   == Regions(c.file)[c.region]
BlocksOf(c) == ToSet(HereOf(c).units)

\* Updates of the record, field by field.
Record(at, f, k, es, i, cs) == [at |-> at, file |-> f, region |-> k, entries |-> es, index |-> i, chunks |-> cs]

\* The record after a join.
LEMMA EntriesUpdate ==
  ASSUME NEW c, Shaped(c), NEW es, NEW i
  PROVE  [c EXCEPT !.entries = es, !.index = i] = Record(c.at, c.file, c.region, es, i, c.chunks)
<1> DEFINE d == [c EXCEPT !.entries = es]
<1>1. [c EXCEPT !.entries = es, !.index = i] = [d EXCEPT !.index = i] OBVIOUS
<1>2. d = Record(c.at, c.file, c.region, es, c.index, c.chunks) BY DEF Shaped, Record
<1> HIDE DEF d
<1>3. [d EXCEPT !.index = i] = Record(c.at, c.file, c.region, es, i, c.chunks) BY <1>2 DEF Record
<1>4. QED BY <1>1, <1>3

\* The record when a region is cut.
LEMMA GuardUpdate ==
  ASSUME NEW c, Shaped(c), NEW es
  PROVE  [c EXCEPT !.at = "merge", !.entries = es, !.index = 1] = Record("merge", c.file, c.region, es, 1, c.chunks)
<1> DEFINE a == [c EXCEPT !.at = "merge"]
           d == [a EXCEPT !.entries = es]
<1>1. [c EXCEPT !.at = "merge", !.entries = es, !.index = 1] = [d EXCEPT !.index = 1] OBVIOUS
<1>2. a = Record("merge", c.file, c.region, c.entries, c.index, c.chunks) BY DEF Shaped, Record
<1> HIDE DEF a
<1>3. d = Record("merge", c.file, c.region, es, c.index, c.chunks) BY <1>2 DEF Record
<1> HIDE DEF d
<1>4. [d EXCEPT !.index = 1] = Record("merge", c.file, c.region, es, 1, c.chunks) BY <1>3 DEF Record
<1>5. QED BY <1>1, <1>4

\* The record when a region is left.
LEMMA LeaveUpdate ==
  ASSUME NEW c, Shaped(c), NEW k, NEW cs
  PROVE  [c EXCEPT !.at = "region", !.region = k, !.entries = <<>>, !.chunks = cs] = Record("region", c.file, k, <<>>, c.index, cs)
<1> DEFINE a == [c EXCEPT !.at = "region"]
           b == [a EXCEPT !.region = k]
           d == [b EXCEPT !.entries = <<>>]
<1>1. [c EXCEPT !.at = "region", !.region = k, !.entries = <<>>, !.chunks = cs] = [d EXCEPT !.chunks = cs] OBVIOUS
<1>2. a = Record("region", c.file, c.region, c.entries, c.index, c.chunks) BY DEF Shaped, Record
<1> HIDE DEF a
<1>3. b = Record("region", c.file, k, c.entries, c.index, c.chunks) BY <1>2 DEF Record
<1> HIDE DEF b
<1>4. d = Record("region", c.file, k, <<>>, c.index, c.chunks) BY <1>3 DEF Record
<1> HIDE DEF d
<1>5. [d EXCEPT !.chunks = cs] = Record("region", c.file, k, <<>>, c.index, cs) BY <1>4 DEF Record
<1>6. QED BY <1>1, <1>5

\* The parts of the invariant.
LEMMA GoodIs ==
  ASSUME NEW c, Good(c)
  PROVE  /\ c = [at |-> c.at, file |-> c.file, region |-> c.region, entries |-> c.entries, index |-> c.index, chunks |-> c.chunks]
         /\ c.at \in Stages /\ c.file \in File /\ c.region \in 1..(Len(Regions(c.file)) + 1)
         /\ c.chunks \in Seq(RegionChunks(c.file)) /\ Gist(c.chunks) = CutWords(c.file, c.region - 1)
         /\ c.at # "merge" => c.entries = <<>>
         /\ c.at = "done" => c.region = Len(Regions(c.file)) + 1
         /\ c.at = "merge" => /\ c.region \in 1..Len(Regions(c.file))
                              /\ c.entries \in Seq(SoundEntries(BlocksOf(c))) /\ BlocksOf(c) \subseteq Nat
                              /\ EntriesGist(c.entries) = RegionWording(c.file.blocks)[HereOf(c)]
                              /\ c.index \in 1..(Len(c.entries) + 1) /\ Settled(c.entries, c.index)
<1>1. /\ Shaped(c) /\ c.at \in Stages /\ c.file \in File /\ c.region \in 1..(Len(Regions(c.file)) + 1)
      /\ c.chunks \in Seq(RegionChunks(c.file)) /\ Gist(c.chunks) = CutWords(c.file, c.region - 1)
      /\ c.at # "merge" => c.entries = <<>>
      /\ c.at = "done" => c.region = Len(Regions(c.file)) + 1
  BY DEF Good, Cutting
<1>2. c = [at |-> c.at, file |-> c.file, region |-> c.region, entries |-> c.entries, index |-> c.index, chunks |-> c.chunks]
  BY <1>1 DEF Shaped
<1>3. ASSUME c.at = "merge"
      PROVE  /\ c.region \in 1..Len(Regions(c.file))
             /\ c.entries \in Seq(SoundEntries(BlocksOf(c))) /\ BlocksOf(c) \subseteq Nat
             /\ EntriesGist(c.entries) = RegionWording(c.file.blocks)[HereOf(c)]
             /\ c.index \in 1..(Len(c.entries) + 1) /\ Settled(c.entries, c.index)
  <2>1. Merging(c) BY <1>3 DEF Good
  <2>2. c.region <= Len(Regions(c.file)) BY <2>1 DEF Merging
  <2>3. /\ c.entries \in Seq(SoundEntries(BlocksOf(c))) /\ EntriesGist(c.entries) = RegionWording(c.file.blocks)[HereOf(c)]
        /\ c.index \in 1..(Len(c.entries) + 1) /\ Settled(c.entries, c.index)
    BY <2>1 DEF Merging, HereOf, BlocksOf
  <2> DEFINE l == Len(Regions(c.file))
  <2>4. l \in Nat
    <3>1. Regions(c.file) \in Seq(RegionOf(c.file.blocks)) BY <1>1, RegionHere
    <3>2. QED BY <3>1
  <2>5. c.region \in 1..l
    <3>1. c.region \in 1..(l + 1) /\ c.region <= l BY <1>1, <2>2
    <3> HIDE DEF l
    <3>2. QED BY <2>4, <3>1
  <2>6. BlocksOf(c) \subseteq Nat BY <1>1, <2>5, RegionHere DEF BlocksOf, HereOf
  <2>7. QED BY <2>3, <2>5, <2>6
<1>4. QED BY <1>1, <1>2, <1>3

\* A region of the document that is cut.
LEMMA GoodHere ==
  ASSUME NEW c, Good(c), c.region <= Len(Regions(c.file))
  PROVE  /\ c.region \in 1..Len(Regions(c.file)) /\ HereOf(c) \in RegionOf(c.file.blocks)
         /\ HereOf(c) \in ToSet(Regions(c.file)) /\ BlocksOf(c) \subseteq Nat \ {0} /\ BlocksOf(c) \subseteq Nat
<1> DEFINE l == Len(Regions(c.file))
<1>1. c.file \in File /\ c.region \in 1..(l + 1) /\ c.region <= l BY GoodIs
<1>2. Regions(c.file) \in Seq(RegionOf(c.file.blocks)) BY <1>1, RegionHere
<1>3. l \in Nat BY <1>2
<1>4. c.region \in 1..l
  <2> HIDE DEF l
  <2>1. QED BY <1>1, <1>3
<1>5. QED BY <1>1, <1>4, RegionHere DEF HereOf, BlocksOf

\* The loop starts with nothing settled.
LEMMA GuardKeeps ==
  ASSUME NEW c, Good(c), c.at = "region", c.region <= Len(Regions(c.file)), NEW es \in Seq(SoundEntries(BlocksOf(c))),
         EntriesGist(es) = RegionWording(c.file.blocks)[HereOf(c)]
  PROVE  Good([c EXCEPT !.at = "merge", !.entries = es, !.index = 1])
<1> DEFINE d == [c EXCEPT !.at = "merge", !.entries = es, !.index = 1]
<1>1. /\ c = [at |-> c.at, file |-> c.file, region |-> c.region, entries |-> c.entries, index |-> c.index, chunks |-> c.chunks]
      /\ c.file \in File /\ c.region \in 1..(Len(Regions(c.file)) + 1)
      /\ c.chunks \in Seq(RegionChunks(c.file)) /\ Gist(c.chunks) = CutWords(c.file, c.region - 1)
  BY GoodIs
<1>2. d = [at |-> "merge", file |-> c.file, region |-> c.region, entries |-> es, index |-> 1, chunks |-> c.chunks]
  <2>1. Shaped(c) BY <1>1 DEF Shaped
  <2>2. QED BY <2>1, GuardUpdate DEF Record
<1>3. d.at = "merge" /\ d.file = c.file /\ d.region = c.region /\ d.entries = es /\ d.index = 1 /\ d.chunks = c.chunks BY <1>2
<1> HIDE DEF d
<1>4. Shaped(d) BY <1>2, <1>3 DEF Shaped
<1>5. Cutting(d) BY <1>1, <1>3 DEF Cutting, Stages
<1>6. Merging(d)
  <2>1. Len(es) \in Nat /\ 1 \in 1..(Len(es) + 1) OBVIOUS
  <2>2. \A k \in 1..(Len(es) - 1) : k + 1 # 1 /\ ~ (k + 1 < 1) BY <2>1
  <2>3. Settled(es, 1) BY <2>2 DEF Settled
  <2>4. QED BY <1>3, <2>1, <2>3 DEF Merging, HereOf, BlocksOf
<1>7. QED BY <1>4, <1>5, <1>6 DEF Good, d

\* A document that is given up keeps what is cut.
LEMMA StopKeeps ==
  ASSUME NEW c, Good(c), c.at = "region", NEW at \in {"unavailable", "refused"}
  PROVE  Good([c EXCEPT !.at = at])
<1> DEFINE d == [c EXCEPT !.at = at]
<1>1. /\ c = [at |-> c.at, file |-> c.file, region |-> c.region, entries |-> c.entries, index |-> c.index, chunks |-> c.chunks]
      /\ c.file \in File /\ c.region \in 1..(Len(Regions(c.file)) + 1) /\ c.entries = <<>>
      /\ c.chunks \in Seq(RegionChunks(c.file)) /\ Gist(c.chunks) = CutWords(c.file, c.region - 1)
  BY GoodIs
<1>2. d = [at |-> at, file |-> c.file, region |-> c.region, entries |-> c.entries, index |-> c.index, chunks |-> c.chunks] BY <1>1
<1>3. d.at = at /\ d.file = c.file /\ d.region = c.region /\ d.entries = c.entries /\ d.index = c.index /\ d.chunks = c.chunks BY <1>2
<1> HIDE DEF d
<1>4. Shaped(d) BY <1>2, <1>3 DEF Shaped
<1>5. Cutting(d) BY <1>1, <1>3 DEF Cutting, Stages
<1>6. QED BY <1>3, <1>4, <1>5 DEF Good, d

\* A document is done behind its last region.
LEMMA EndKeeps ==
  ASSUME NEW c, Good(c), c.at = "region", c.region > Len(Regions(c.file))
  PROVE  Good([c EXCEPT !.at = "done"])
<1> DEFINE d == [c EXCEPT !.at = "done"]
           l == Len(Regions(c.file))
<1>1. /\ c = [at |-> c.at, file |-> c.file, region |-> c.region, entries |-> c.entries, index |-> c.index, chunks |-> c.chunks]
      /\ c.file \in File /\ c.region \in 1..(l + 1) /\ c.entries = <<>>
      /\ c.chunks \in Seq(RegionChunks(c.file)) /\ Gist(c.chunks) = CutWords(c.file, c.region - 1)
  BY GoodIs
<1>2. d = [at |-> "done", file |-> c.file, region |-> c.region, entries |-> c.entries, index |-> c.index, chunks |-> c.chunks] BY <1>1
<1>3. d.at = "done" /\ d.file = c.file /\ d.region = c.region /\ d.entries = c.entries /\ d.index = c.index /\ d.chunks = c.chunks BY <1>2
<1>4. c.region = l + 1
  <2>1. Regions(c.file) \in Seq(RegionOf(c.file.blocks)) BY <1>1, RegionHere
  <2>2. l \in Nat BY <2>1
  <2>3. c.region > l OBVIOUS
  <2> HIDE DEF l
  <2>4. QED BY <1>1, <2>2, <2>3
<1> HIDE DEF d
<1>5. Shaped(d) BY <1>2, <1>3 DEF Shaped
<1>6. Cutting(d) BY <1>1, <1>3, <1>4 DEF Cutting, Stages
<1>7. QED BY <1>3, <1>5, <1>6 DEF Good, d

\* A join keeps the words of the region, and what was settled before it.
LEMMA JoinKeeps ==
  ASSUME NEW c, Good(c), c.at = "merge", NEW p \in 1..(Len(c.entries) - 1), NEW e,
         e = [chunk |-> Joined(c.entries[p].chunk, c.entries[p + 1].chunk), before |-> c.entries[p].before,
              after |-> c.entries[p + 1].after],
         Joinable(c.entries[p].chunk, c.entries[p + 1].chunk), p \in {c.index - 1, c.index}
  PROVE  /\ Good([c EXCEPT !.entries = JoinAt(c.entries, p, e), !.index = p])
         /\ Seqs!ReplaceAt(Seqs!RemoveAt(c.entries, p + 1), p, e) = JoinAt(c.entries, p, e)
         /\ Seqs!RemoveAt(Seqs!ReplaceAt(c.entries, p + 1, e), p) = JoinAt(c.entries, p, e)
         /\ Len(JoinAt(c.entries, p, e)) = Len(c.entries) - 1
<1> DEFINE es == c.entries
           n == Len(es)
           R == BlocksOf(c)
           E == SoundEntries(R)
           j == JoinAt(es, p, e)
           d == [c EXCEPT !.entries = j, !.index = p]
           i == c.index
           l == es[p].chunk
           r == es[p + 1].chunk
<1>1. /\ c = [at |-> c.at, file |-> c.file, region |-> c.region, entries |-> es, index |-> i, chunks |-> c.chunks]
      /\ c.file \in File /\ c.region \in 1..(Len(Regions(c.file)) + 1)
      /\ c.chunks \in Seq(RegionChunks(c.file)) /\ Gist(c.chunks) = CutWords(c.file, c.region - 1)
  BY GoodIs
<1>2. /\ es \in Seq(E) /\ R \subseteq Nat /\ EntriesGist(es) = RegionWording(c.file.blocks)[HereOf(c)]
      /\ i \in 1..(n + 1) /\ Settled(es, i)
  BY GoodIs
<1>3. c.region <= Len(Regions(c.file)) BY DEF Good, Merging
<1>4. p \in 1..(n - 1) /\ Joinable(l, r) /\ p \in {i - 1, i} OBVIOUS
<1>5. e = [chunk |-> Joined(l, r), before |-> es[p].before, after |-> es[p + 1].after] OBVIOUS
<1> HIDE DEF es, R, i
<1>6. n \in Nat /\ p \in 1..n /\ p + 1 \in 1..n /\ es[p] \in E /\ es[p + 1] \in E
  <2>1. n \in Nat BY <1>2
  <2>2. p \in 1..n /\ p + 1 \in 1..n BY <1>4, <2>1
  <2>3. QED BY <1>2, <2>1, <2>2
<1>7. l \in SoundChunks(R) /\ r \in SoundChunks(R) /\ es[p].before \in 0..Unscored /\ es[p + 1].after \in 0..Unscored
  BY <1>2, <1>6, SoundEntry
<1>8. Joined(l, r) \in SoundChunks(R) /\ Body(Joined(l, r).text) = Body(l.text) \o Body(r.text)
  <2> HIDE DEF l, r
  <2>1. QED BY <1>2, <1>4, <1>7, JoinedSound
<1>9. e \in E /\ e.chunk = Joined(l, r) BY <1>5, <1>7, <1>8 DEF SoundEntries
<1> HIDE DEF E
<1>10. j \in Seq(E) /\ Len(j) = n - 1
  <2>1. es \in Seq(E) /\ p \in 1..(Len(es) - 1) /\ e \in E BY <1>2, <1>4, <1>9
  <2>2. JoinAt(es, p, e) \in Seq(E) /\ Len(JoinAt(es, p, e)) = Len(es) - 1 BY ONLY <2>1, JoinAtIs
  <2>3. QED BY <2>2
<1>11. Seqs!ReplaceAt(Seqs!RemoveAt(es, p + 1), p, e) = j BY <1>2, <1>4, <1>9, JoinLeftIs
<1>12. Seqs!RemoveAt(Seqs!ReplaceAt(es, p + 1, e), p) = j BY <1>2, <1>4, <1>9, JoinRightIs, SMTT(60)
<1>13. EntriesGist(j) = EntriesGist(es)
  <2>1. Body(e.chunk.text) = Body(es[p].chunk.text) \o Body(es[p + 1].chunk.text) BY <1>8, <1>9
  <2> HIDE DEF j
  <2>2. QED BY <1>2, <1>4, <1>9, <2>1, JoinAtGist DEF E, j
<1>14. Settled(j, p)
  <2>1. ASSUME NEW k \in 1..(p - 1)
        PROVE  (k + 1 < p => Apart(es[k].chunk, es[k + 1].chunk)) /\ LeftApart(es[k].chunk, es[k + 1].chunk)
    <3>1. k \in 1..(n - 1) /\ k + 1 <= i /\ (k + 1 < p => k + 1 < i) /\ (k + 1 < i \/ k + 1 = i) BY <1>2, <1>4, <1>6
    <3>2. /\ k + 1 < i => Apart(es[k].chunk, es[k + 1].chunk)
          /\ k + 1 = i => LeftApart(es[k].chunk, es[k + 1].chunk)
      BY <1>2, <3>1 DEF Settled
    <3>3. Apart(es[k].chunk, es[k + 1].chunk) => LeftApart(es[k].chunk, es[k + 1].chunk) BY DEF Apart, LeftApart
    <3>4. QED BY <3>1, <3>2, <3>3
  <2>2. Joinable(es[p].chunk, es[p + 1].chunk) /\ e.chunk = Joined(es[p].chunk, es[p + 1].chunk) BY <1>4, <1>9
  <2> HIDE DEF j
  <2>3. QED BY <1>2, <1>4, <1>9, <2>1, <2>2, JoinSettles DEF E, j
<1> HIDE DEF j
<1>15. d = [at |-> "merge", file |-> c.file, region |-> c.region, entries |-> j, index |-> p, chunks |-> c.chunks]
  <2>1. Shaped(c) BY DEF Good
  <2>2. d = Record(c.at, c.file, c.region, j, p, c.chunks) BY <2>1, EntriesUpdate
  <2>3. QED BY <2>2 DEF Record
<1>16. d.at = "merge" /\ d.file = c.file /\ d.region = c.region /\ d.entries = j /\ d.index = p /\ d.chunks = c.chunks BY <1>15
<1> HIDE DEF d
<1>17. Shaped(d) BY <1>15, <1>16 DEF Shaped
<1>18. Cutting(d) BY <1>1, <1>16 DEF Cutting, Stages
<1>19. Merging(d)
  <2>1. p \in 1..(Len(j) + 1) BY <1>4, <1>6, <1>10
  <2>2. HereOf(d) = HereOf(c) /\ BlocksOf(d) = R BY <1>16 DEF HereOf, BlocksOf, R
  <2>3. QED BY <1>2, <1>3, <1>10, <1>13, <1>14, <1>16, <2>1, <2>2 DEF Merging, E, HereOf, BlocksOf
<1>20. Good(d) BY <1>17, <1>18, <1>19 DEF Good
<1>21. QED BY <1>10, <1>11, <1>12, <1>20 DEF d, j, es

\* The loop passes an entry that is long enough, or that neither neighbour can take.
LEMMA PassKeeps ==
  ASSUME NEW c, Good(c), c.at = "merge", c.index <= Len(c.entries),
         Tiny(c.entries[c.index].chunk) =>
           /\ c.index > 1 => ~Joinable(c.entries[c.index - 1].chunk, c.entries[c.index].chunk)
           /\ c.index < Len(c.entries) => ~Joinable(c.entries[c.index].chunk, c.entries[c.index + 1].chunk)
  PROVE  Good([c EXCEPT !.index = @ + 1])
<1> DEFINE es == c.entries
           n == Len(es)
           i == c.index
           d == [c EXCEPT !.index = @ + 1]
<1>1. /\ c = [at |-> c.at, file |-> c.file, region |-> c.region, entries |-> es, index |-> i, chunks |-> c.chunks]
      /\ c.file \in File /\ c.region \in 1..(Len(Regions(c.file)) + 1)
      /\ c.chunks \in Seq(RegionChunks(c.file)) /\ Gist(c.chunks) = CutWords(c.file, c.region - 1)
  BY GoodIs
<1>2. /\ es \in Seq(SoundEntries(BlocksOf(c))) /\ EntriesGist(es) = RegionWording(c.file.blocks)[HereOf(c)]
      /\ i \in 1..(n + 1) /\ Settled(es, i)
  BY GoodIs
<1>3. c.region <= Len(Regions(c.file)) BY DEF Good, Merging
<1>4. /\ Tiny(es[i].chunk) => /\ i > 1 => ~Joinable(es[i - 1].chunk, es[i].chunk)
                              /\ i < n => ~Joinable(es[i].chunk, es[i + 1].chunk)
      /\ i <= n
  OBVIOUS
<1>5. n \in Nat BY <1>2
<1> HIDE DEF es, n, i
<1>6. ASSUME NEW k \in 1..(n - 1)
      PROVE  /\ k + 1 < i + 1 => Apart(es[k].chunk, es[k + 1].chunk)
             /\ k + 1 = i + 1 => LeftApart(es[k].chunk, es[k + 1].chunk)
  <2>1. k \in Nat /\ i \in Nat BY <1>2, <1>5
  <2>2. CASE k + 1 < i
    <3>1. Apart(es[k].chunk, es[k + 1].chunk) BY <1>2, <2>2 DEF Settled, n
    <3>2. k + 1 # i + 1 BY <2>1, <2>2
    <3>3. QED BY <3>1, <3>2
  <2>3. CASE k + 1 = i
    <3>1. LeftApart(es[k].chunk, es[k + 1].chunk) BY <1>2, <2>3 DEF Settled, n
    <3>2. i > 1 /\ i - 1 = k /\ k + 1 # i + 1 BY <2>1, <2>3
    <3>3. Tiny(es[k + 1].chunk) => ~Joinable(es[k].chunk, es[k + 1].chunk) BY <1>4, <2>3, <3>2
    <3>4. Apart(es[k].chunk, es[k + 1].chunk) BY <3>1, <3>3 DEF Apart, LeftApart
    <3>5. QED BY <3>2, <3>4
  <2>4. CASE k = i
    <3>1. i < n BY <1>5, <2>4
    <3>2. LeftApart(es[k].chunk, es[k + 1].chunk) BY <1>4, <2>4, <3>1 DEF LeftApart
    <3>3. ~ (k + 1 < i + 1) BY <2>1, <2>4
    <3>4. QED BY <3>2, <3>3
  <2>5. CASE k > i
    <3>1. ~ (k + 1 < i + 1) /\ k + 1 # i + 1 BY <2>1, <2>5
    <3>2. QED BY <3>1
  <2>6. QED BY <2>1, <2>2, <2>3, <2>4, <2>5
<1>7. Settled(es, i + 1) BY <1>6 DEF Settled, n
<1>8. d = [at |-> "merge", file |-> c.file, region |-> c.region, entries |-> es, index |-> i + 1, chunks |-> c.chunks]
  BY <1>1 DEF i
<1>9. d.at = "merge" /\ d.file = c.file /\ d.region = c.region /\ d.entries = es /\ d.index = i + 1 /\ d.chunks = c.chunks BY <1>8
<1> HIDE DEF d
<1>10. Shaped(d) BY <1>8, <1>9 DEF Shaped
<1>11. Cutting(d) BY <1>1, <1>9 DEF Cutting, Stages
<1>12. Merging(d)
  <2>1. i + 1 \in 1..(n + 1) BY <1>2, <1>4, <1>5
  <2>2. HereOf(d) = HereOf(c) /\ BlocksOf(d) = BlocksOf(c) BY <1>9 DEF HereOf, BlocksOf
  <2>3. QED BY <1>2, <1>3, <1>7, <1>9, <2>1, <2>2 DEF Merging, HereOf, BlocksOf, n
<1>13. QED BY <1>10, <1>11, <1>12 DEF Good, d

\* The chunks of a region follow those of the regions before it.
LEMMA LeaveKeeps ==
  ASSUME NEW c, Good(c), c.at = "merge"
  PROVE  Good([c EXCEPT !.at = "region", !.region = @ + 1, !.entries = <<>>, !.chunks = @ \o ChunksOf(c.entries)])
<1> DEFINE es == c.entries
           cs == ChunksOf(es)
           k == c.region
           f == c.file
           all == c.chunks \o cs
           d == [c EXCEPT !.at = "region", !.region = @ + 1, !.entries = <<>>, !.chunks = @ \o ChunksOf(c.entries)]
           R == BlocksOf(c)
           RC == RegionChunks(f)
<1>1. /\ c = [at |-> c.at, file |-> f, region |-> k, entries |-> es, index |-> c.index, chunks |-> c.chunks]
      /\ f \in File /\ k \in 1..(Len(Regions(f)) + 1)
      /\ c.chunks \in Seq(RC) /\ Gist(c.chunks) = CutWords(f, k - 1)
  BY GoodIs
<1>2. k \in 1..Len(Regions(f)) /\ es \in Seq(SoundEntries(R)) /\ R \subseteq Nat /\ EntriesGist(es) = RegionWording(f.blocks)[HereOf(c)]
  BY GoodIs
<1>3. HereOf(c) = Regions(f)[k] /\ HereOf(c) \in ToSet(Regions(f)) /\ R = ToSet(HereOf(c).units)
  BY <1>1, <1>2, RegionHere DEF HereOf, BlocksOf
<1>4. d = [at |-> "region", file |-> f, region |-> k + 1, entries |-> <<>>, index |-> c.index, chunks |-> all]
  <2>1. Shaped(c) BY DEF Good
  <2>2. QED BY <2>1, LeaveUpdate DEF Record
<1> HIDE DEF es, k, f, R, d
<1>5. cs \in Seq(SoundChunks(R)) /\ cs \in Seq(AnyChunk) /\ Gist(cs) = EntriesGist(es)
  BY <1>2, ChunksOfEntries DEF EntriesGist
<1>6. SoundChunks(R) \subseteq RC /\ RC \subseteq AnyChunk BY <1>3 DEF RegionChunks, SoundChunks
<1> DEFINE old == c.chunks
<1> HIDE DEF cs, RC, old
<1>7. cs \in Seq(RC) /\ old \in Seq(RC) /\ old \in Seq(AnyChunk) BY <1>1, <1>5, <1>6, SeqMonotonic DEF old
<1>8. old \o cs \in Seq(RC) BY <1>7, ConcatParts
<1>9. Gist(old \o cs) = Gist(old) \o Gist(cs) BY <1>5, <1>7, GistConcat
<1>10. CutWords(f, k) = CutWords(f, k - 1) \o RegionWording(f.blocks)[Regions(f)[k]] BY <1>1, <1>2, CutWordsGrow
<1>11. Gist(old \o cs) = CutWords(f, k) BY <1>1, <1>2, <1>3, <1>5, <1>9, <1>10 DEF old
<1>12. all = old \o cs BY DEF old
<1> HIDE DEF all
<1>13. /\ d.at = "region" /\ d.file = f /\ d.region = k + 1 /\ d.entries = <<>> /\ d.index = c.index /\ d.chunks = all BY <1>4
<1>14. Shaped(d) BY <1>4, <1>13 DEF Shaped
<1>15. Cutting(d)
  <2> DEFINE l == Len(Regions(f))
  <2>1. Regions(f) \in Seq(RegionOf(f.blocks)) BY <1>1, RegionHere
  <2>2. l \in Nat BY <2>1
  <2>3. k \in 1..l BY <1>2
  <2> HIDE DEF l
  <2>4. k + 1 \in 1..(l + 1) /\ (k + 1) - 1 = k BY <2>2, <2>3
  <2>5. QED BY <1>1, <1>8, <1>11, <1>12, <1>13, <2>4 DEF Cutting, Stages, l, RC
<1>16. QED BY <1>13, <1>14, <1>15 DEF Good, d

\* At first nothing is cut.
LEMMA StartGood ==
  ASSUME NEW f \in File
  PROVE  Good(NotCut(f))
<1> DEFINE d == NotCut(f)
           l == Len(Regions(f))
<1>1. d = [at |-> "region", file |-> f, region |-> 1, entries |-> <<>>, index |-> 1, chunks |-> <<>>] BY DEF NotCut
<1>2. d.at = "region" /\ d.file = f /\ d.region = 1 /\ d.entries = <<>> /\ d.index = 1 /\ d.chunks = <<>> BY <1>1
<1> HIDE DEF d
<1>3. Shaped(d) BY <1>1, <1>2 DEF Shaped
<1>4. l \in Nat
  <2>1. Regions(f) \in Seq(RegionOf(f.blocks)) BY RegionHere
  <2>2. QED BY <2>1
<1>5. Cutting(d)
  <2> HIDE DEF l
  <2>1. 1 \in 1..(l + 1) /\ 1 - 1 = 0 BY <1>4
  <2>2. Gist(<<>>) = CutWords(f, 0) BY GistEmpty, NothingCut
  <2>3. <<>> \in Seq(RegionChunks(f)) OBVIOUS
  <2>4. QED BY <1>2, <2>1, <2>2, <2>3 DEF Cutting, Stages, l
<1>6. QED BY <1>2, <1>3, <1>5 DEF Good, d

\* A region of code or of a table is one block, whose words are those of the region.
LEMMA AloneIs ==
  ASSUME NEW c, Good(c), c.region <= Len(Regions(c.file)), HereOf(c).kind \in {"code", "table"}
  PROVE  LET b == HereOf(c).units[1]  block == c.file.blocks[b]
         IN /\ b \in Nat \ {0} /\ BlocksOf(c) = {b} /\ block \in Block /\ block.type = HereOf(c).kind
            /\ RegionWording(c.file.blocks)[HereOf(c)] = Span(b, 0, Words(block))
<1> DEFINE blocks == c.file.blocks
           N == 1..Len(blocks)
           r == HereOf(c)
           u == r.units
           b == u[1]
           bw == BlockWording(blocks)
<1>1. blocks \in Seq(Block)
  <2>1. c.file \in File BY GoodIs
  <2>2. QED BY <2>1, RegionHere
<1>2. r \in RegionOf(blocks) BY GoodHere
<1>3. u \in Seq(N) /\ RegionWording(blocks)[r] = Worded(bw, u) BY <1>1, <1>2, RegionIs
<1>4. Len(u) = 1 /\ blocks[b].type = r.kind
  <2>1. r.kind # "text" OBVIOUS
  <2>2. QED BY <1>2, <2>1 DEF RegionOf
<1>5. bw \in Maps(N, Seq(Token)) BY <1>1, RegionIs
<1>6. BlocksOf(c) = ToSet(u) BY DEF BlocksOf
<1> HIDE DEF u, bw, blocks
<1>7. u = <<b>> /\ b \in N BY <1>3, <1>4
<1>8. ToSet(u) = {b}
  <2>1. DOMAIN u = {1} BY <1>3, <1>4
  <2>2. QED BY <2>1 DEF ToSet, Seqs!ToSet
<1>9. b \in Nat \ {0} /\ blocks[b] \in Block /\ bw[b] = Span(b, 0, Words(blocks[b]))
  <2>1. blocks[b] \in Block /\ bw[b] = Span(b, 0, Words(blocks[b])) BY <1>1, <1>7, BlockWordingType DEF bw
  <2>2. b \in Nat \ {0} BY <1>1, <1>7
  <2>3. QED BY <2>1, <2>2
<1>10. Worded(bw, u) = bw[b]
  <2> HIDE DEF b, N
  <2>1. QED BY <1>5, <1>7, WordedOne
<1>11. QED BY <1>3, <1>4, <1>6, <1>8, <1>9, <1>10 DEF u, blocks

\* However a region is cut, the loop starts with entries that have its words.
LEMMA TextKeeps == ChunkingIInv /\ CutText => ChunkingIInv'
<1>1. SUFFICES ASSUME Good(chunking), CutText PROVE Good(chunking')
  BY DEF ChunkingIInv
<1> DEFINE c == chunking
           f == c.file
           r == HereOf(c)
           R == BlocksOf(c)
           units == SemanticUnits(f, r)
<1>2. c.at = "region" /\ c.region <= Len(Regions(f)) /\ r.kind = "text"
  BY <1>1 DEF CutText, InRegion, Stage, Here, HereOf
<1>3. PICK score \in Scores(Len(units)) :
        c' = [c EXCEPT !.at = "merge", !.entries = TextEntries(r.path, units, score), !.index = 1]
  BY <1>1 DEF CutText, Guard, Here, HereOf, Scores
<1>4. f \in File /\ f.blocks \in Seq(Block) /\ r \in RegionOf(f.blocks) /\ R \subseteq Nat \ {0} /\ R = ToSet(r.units)
  <2>1. f \in File BY <1>1, GoodIs
  <2>2. QED BY <1>1, <1>2, <2>1, GoodHere, RegionHere DEF BlocksOf
<1>5. r.units \in Seq(IsProse(f.blocks)) BY <1>2, <1>4 DEF RegionOf
<1>6. units \in Seq(UnitOf(R)) /\ Worded(UnitText(R), units) = Worded(BlockWording(f.blocks), r.units)
  BY <1>4, <1>5, SemanticUnitsIs
<1>7. RegionWording(f.blocks)[r] = Worded(BlockWording(f.blocks), r.units) BY <1>4, RegionIs
<1>8. r.path \in Seq(Nat \ {0})
  <2> DEFINE N == 1..Len(f.blocks)
             p == r.path
  <2>1. p \in Seq(N) BY <1>4, RegionIs
  <2>2. N \subseteq Nat \ {0} BY <1>4
  <2> HIDE DEF N, p
  <2>3. p \in Seq(Nat \ {0}) BY <2>1, <2>2, SeqMonotonic
  <2>4. QED BY <2>3 DEF p
<1> DEFINE path == r.path
           es == TextEntries(path, units, score)
<1>9. es \in Seq(SoundEntries(R)) /\ EntriesGist(es) = Worded(UnitText(R), units)
  <2>1. path \in Seq(Nat \ {0}) /\ R \subseteq Nat \ {0} /\ units \in Seq(UnitOf(R)) /\ score \in Scores(Len(units))
    BY <1>3, <1>4, <1>6, <1>8
  <2> HIDE DEF path, R, units
  <2>2. QED BY <2>1, TextEntriesSound
<1>10. c' = [c EXCEPT !.at = "merge", !.entries = es, !.index = 1] BY <1>3
<1> HIDE DEF es, units
<1>11. es \in Seq(SoundEntries(BlocksOf(c))) /\ EntriesGist(es) = RegionWording(c.file.blocks)[HereOf(c)] BY <1>6, <1>7, <1>9
<1>12. Good([c EXCEPT !.at = "merge", !.entries = es, !.index = 1]) BY <1>1, <1>2, <1>11, GuardKeeps
<1>13. QED BY <1>10, <1>12

\* What is code or a table is guarded with the candidates of one block.
LEMMA AloneKeeps ==
  ASSUME Good(chunking), InRegion("code") \/ InRegion("table"),
         NEW candidates \in Seq(SoundChunks({Here.units[1]})),
         Gist(candidates) = Span(Here.units[1], 0, Words(Alone)),
         Guard(Entries(candidates, Unscored, Unscored))
  PROVE  Good(chunking')
<1> DEFINE c == chunking
           R == BlocksOf(c)
           es == Entries(candidates, Unscored, Unscored)
<1>1. c.at = "region" /\ c.region <= Len(Regions(c.file)) /\ HereOf(c).kind \in {"code", "table"} /\ Here = HereOf(c)
  BY DEF InRegion, Stage, Here, HereOf
<1>2. /\ R = {Here.units[1]}
      /\ RegionWording(c.file.blocks)[HereOf(c)] = Span(Here.units[1], 0, Words(Alone))
  BY <1>1, AloneIs DEF Alone
<1>3. candidates \in Seq(SoundChunks(R)) /\ Unscored \in 0..Unscored BY <1>2 DEF Unscored
<1>4. es \in Seq(SoundEntries(R)) /\ EntriesGist(es) = Gist(candidates)
  <2> HIDE DEF R
  <2>1. QED BY <1>3, EntriesSound
<1>5. c' = [c EXCEPT !.at = "merge", !.entries = es, !.index = 1] BY DEF Guard
<1> HIDE DEF es
<1>6. es \in Seq(SoundEntries(BlocksOf(c))) /\ EntriesGist(es) = RegionWording(c.file.blocks)[HereOf(c)] BY <1>2, <1>4
<1>7. Good([c EXCEPT !.at = "merge", !.entries = es, !.index = 1]) BY <1>1, <1>6, GuardKeeps
<1>8. QED BY <1>5, <1>7

\* CutCode keeps the invariant.
LEMMA CodeKeeps == ChunkingIInv /\ CutCode => ChunkingIInv'
<1>1. SUFFICES ASSUME Good(chunking), CutCode PROVE Good(chunking')
  BY DEF ChunkingIInv
<1> DEFINE b == Here.units[1]
           block == Alone
           candidates == CodeCandidates(b, block)
<1>2. InRegion("code") /\ Guard(Entries(candidates, Unscored, Unscored)) BY <1>1 DEF CutCode
<1>3. /\ chunking.region <= Len(Regions(chunking.file)) /\ HereOf(chunking).kind = "code" /\ Here = HereOf(chunking)
  BY <1>2 DEF InRegion, Here, HereOf
<1>4. b \in Nat \ {0} /\ block \in Block /\ block.type = "code" BY <1>1, <1>3, AloneIs DEF Alone
<1> HIDE DEF b, block
<1>5. block \in CodeBlock /\ Words(block) = Total(block.lines) BY <1>4, BlockCases, WordsType
<1>6. candidates \in Seq(SoundChunks({b})) /\ Gist(candidates) = Span(b, 0, Total(block.lines)) BY <1>4, <1>5, CodeCandidatesSound
<1> HIDE DEF candidates
<1>7. candidates \in Seq(SoundChunks({Here.units[1]})) /\ Gist(candidates) = Span(Here.units[1], 0, Words(Alone))
  BY <1>5, <1>6 DEF b, block
<1>8. QED BY <1>1, <1>2, <1>7, AloneKeeps

\* CutTable keeps the invariant.
LEMMA TableKeeps == ChunkingIInv /\ CutTable => ChunkingIInv'
<1>1. SUFFICES ASSUME Good(chunking), CutTable PROVE Good(chunking')
  BY DEF ChunkingIInv
<1> DEFINE b == Here.units[1]
           block == Alone
           candidates == TableCandidates(b, block)
<1>2. InRegion("table") /\ ~TableRefused(b, block) /\ Guard(Entries(candidates, Unscored, Unscored)) BY <1>1 DEF CutTable
<1>3. /\ chunking.region <= Len(Regions(chunking.file)) /\ HereOf(chunking).kind = "table" /\ Here = HereOf(chunking)
  BY <1>2 DEF InRegion, Here, HereOf
<1>4. b \in Nat \ {0} /\ block \in Block /\ block.type = "table" BY <1>1, <1>3, AloneIs DEF Alone
<1> HIDE DEF b, block
<1>5. block \in TableBlock /\ Words(block) = Total(Seqs!FlattenSeq(block.rows)) BY <1>4, BlockCases, WordsType
<1>6. candidates \in Seq(SoundChunks({b})) /\ Gist(candidates) = Span(b, 0, Total(Seqs!FlattenSeq(block.rows)))
  BY <1>2, <1>4, <1>5, TableCandidatesSound
<1> HIDE DEF candidates
<1>7. candidates \in Seq(SoundChunks({Here.units[1]})) /\ Gist(candidates) = Span(Here.units[1], 0, Words(Alone))
  BY <1>5, <1>6 DEF b, block
<1>8. QED BY <1>1, <1>2, <1>7, AloneKeeps

\* The entry the loop looks at is there.
LEMMA LoopIndex ==
  ASSUME Good(chunking), Looks
  PROVE  /\ chunking.at = "merge" /\ Len(chunking.entries) \in Nat
         /\ chunking.index \in 1..Len(chunking.entries)
<1>1. chunking.at = "merge" /\ chunking.index <= Len(chunking.entries) BY DEF Looks, Stage
<1>2. chunking.entries \in Seq(SoundEntries(BlocksOf(chunking))) /\ chunking.index \in 1..(Len(chunking.entries) + 1)
  BY <1>1, GoodIs
<1> DEFINE n == Len(chunking.entries)
           i == chunking.index
<1>3. n \in Nat BY <1>2
<1>4. i \in 1..n
  <2>1. i \in 1..(n + 1) /\ i <= n BY <1>1, <1>2
  <2> HIDE DEF i, n
  <2>2. QED BY <1>3, <2>1
<1>5. QED BY <1>1, <1>3, <1>4

\* JoinLeft keeps the invariant: the joined entry is looked at again.
LEMMA LeftKeeps == ChunkingIInv /\ JoinLeft => ChunkingIInv'
<1>1. SUFFICES ASSUME Good(chunking), JoinLeft PROVE Good(chunking')
  BY DEF ChunkingIInv
<1> DEFINE c == chunking
           es == c.entries
           i == c.index
           p == i - 1
           e == [chunk |-> Joined(es[p].chunk, es[p + 1].chunk), before |-> es[p].before, after |-> es[p + 1].after]
           j == JoinAt(es, p, e)
           joined == [chunk |-> Joined(Left.chunk, Entry.chunk), before |-> Left.before, after |-> Entry.after]
<1>2. Looks /\ i > 1 /\ Joinable(Left.chunk, Entry.chunk) BY <1>1 DEF JoinLeft, ChooseLeft, LeftJoinable
<1>3. c.at = "merge" /\ Len(es) \in Nat /\ i \in 1..Len(es) BY <1>1, <1>2, LoopIndex
<1>4. p \in 1..(Len(es) - 1) /\ p + 1 = i
  <2> HIDE DEF es
  <2>1. i \in Nat /\ i > 1 BY <1>2, <1>3
  <2> HIDE DEF i
  <2>2. QED BY <1>3, <2>1
<1>5. Left = es[p] /\ Entry = es[p + 1]
  <2>1. Left = es[i - 1] /\ Entry = es[i] BY DEF Left, Entry
  <2>2. QED BY <1>4, <2>1
<1>6. Joinable(es[p].chunk, es[p + 1].chunk) BY <1>2, <1>5
<1>7. joined = e BY <1>5
<1>8. c' = [c EXCEPT !.entries = Seqs!ReplaceAt(Seqs!RemoveAt(@, i), i - 1, joined), !.index = i - 1] BY <1>1 DEF JoinLeft
<1>9. c' = [c EXCEPT !.entries = Seqs!ReplaceAt(Seqs!RemoveAt(es, p + 1), p, e), !.index = p] BY <1>4, <1>7, <1>8
<1>10. Good([c EXCEPT !.entries = j, !.index = p]) /\ Seqs!ReplaceAt(Seqs!RemoveAt(es, p + 1), p, e) = j
  <2>1. p \in {i - 1, i} OBVIOUS
  <2> HIDE DEF p, e
  <2>2. e = [chunk |-> Joined(es[p].chunk, es[p + 1].chunk), before |-> es[p].before, after |-> es[p + 1].after] BY DEF e
  <2>3. QED BY <1>1, <1>3, <1>4, <1>6, <2>1, <2>2, JoinKeeps
<1> HIDE DEF j, e, p, es
<1>11. QED BY <1>9, <1>10

\* JoinRight keeps the invariant: the entry it joins to the right is looked at again.
LEMMA RightKeeps == ChunkingIInv /\ JoinRight => ChunkingIInv'
<1>1. SUFFICES ASSUME Good(chunking), JoinRight PROVE Good(chunking')
  BY DEF ChunkingIInv
<1> DEFINE c == chunking
           es == c.entries
           p == c.index
           e == [chunk |-> Joined(es[p].chunk, es[p + 1].chunk), before |-> es[p].before, after |-> es[p + 1].after]
           j == JoinAt(es, p, e)
<1>2. Looks /\ p < Len(es) /\ Joinable(Entry.chunk, Right.chunk) BY <1>1 DEF JoinRight, RightJoinable
<1>3. c.at = "merge" /\ Len(es) \in Nat /\ p \in 1..Len(es) BY <1>1, <1>2, LoopIndex
<1>4. p \in 1..(Len(es) - 1)
  <2> HIDE DEF es, p
  <2>1. QED BY <1>2, <1>3
<1>5. Entry = es[p] /\ Right = es[p + 1] BY DEF Right, Entry
<1>6. Joinable(es[p].chunk, es[p + 1].chunk) BY <1>2, <1>5
<1>7. RightJoined = e BY <1>5 DEF RightJoined
<1>8. c' = [c EXCEPT !.entries = Seqs!RemoveAt(Seqs!ReplaceAt(es, p + 1, e), p), !.index = p]
  BY <1>1, <1>7 DEF JoinRight, AfterRight
<1>9. Good([c EXCEPT !.entries = j, !.index = p]) /\ Seqs!RemoveAt(Seqs!ReplaceAt(es, p + 1, e), p) = j
  <2>1. p \in {c.index - 1, c.index} OBVIOUS
  <2> HIDE DEF p, e
  <2>2. e = [chunk |-> Joined(es[p].chunk, es[p + 1].chunk), before |-> es[p].before, after |-> es[p + 1].after] BY DEF e
  <2>3. QED BY <1>1, <1>3, <1>4, <1>6, <2>1, <2>2, JoinKeeps
<1> HIDE DEF j, e, p, es
<1>10. QED BY <1>8, <1>9

\* Keep passes an entry that is settled.
LEMMA KeepKeeps == ChunkingIInv /\ Keep => ChunkingIInv'
<1>1. SUFFICES ASSUME Good(chunking), Keep PROVE Good(chunking')
  BY DEF ChunkingIInv
<1> DEFINE c == chunking
<1>2. Looks /\ (Tiny(Entry.chunk) => ~ChooseLeft /\ ~RightJoinable) /\ c' = [c EXCEPT !.index = @ + 1] BY <1>1 DEF Keep
<1>3. c.at = "merge" /\ c.index <= Len(c.entries) BY <1>2 DEF Looks, Stage
<1>4. Tiny(c.entries[c.index].chunk) =>
           /\ c.index > 1 => ~Joinable(c.entries[c.index - 1].chunk, c.entries[c.index].chunk)
           /\ c.index < Len(c.entries) => ~Joinable(c.entries[c.index].chunk, c.entries[c.index + 1].chunk)
  <2>1. Tiny(Entry.chunk) => ~LeftJoinable /\ ~RightJoinable BY <1>2 DEF ChooseLeft
  <2>2. QED BY <2>1 DEF Entry, Left, Right, LeftJoinable, RightJoinable
<1>5. QED BY <1>1, <1>2, <1>3, <1>4, PassKeeps

\* NextRegion keeps the invariant.
LEMMA RegionKeeps == ChunkingIInv /\ NextRegion => ChunkingIInv'
<1>1. SUFFICES ASSUME Good(chunking), NextRegion PROVE Good(chunking')
  BY DEF ChunkingIInv
<1> DEFINE c == chunking
           cs == ChunksOf(c.entries)
<1>2. c.at = "merge" BY <1>1 DEF NextRegion, Stage
<1>3. c' = [c EXCEPT !.at = "region", !.region = @ + 1, !.entries = <<>>, !.chunks = @ \o cs]
  BY <1>1 DEF NextRegion, ChunksOf
<1>4. Good([c EXCEPT !.at = "region", !.region = @ + 1, !.entries = <<>>, !.chunks = @ \o cs]) BY <1>1, <1>2, LeaveKeeps
<1>5. QED BY <1>3, <1>4

\* The steps that end a document keep the invariant.
LEMMA StopsKeep == ChunkingIInv /\ (EncoderUnavailable \/ RefuseTable \/ Chunked) => ChunkingIInv'
<1>1. SUFFICES ASSUME Good(chunking), EncoderUnavailable \/ RefuseTable \/ Chunked PROVE Good(chunking')
  BY DEF ChunkingIInv
<1> DEFINE c == chunking
<1>2. CASE EncoderUnavailable
  <2>1. c.at = "region" /\ c' = [c EXCEPT !.at = "unavailable"] BY <1>2 DEF EncoderUnavailable, InRegion, Stage
  <2>2. QED BY <1>1, <2>1, StopKeeps
<1>3. CASE RefuseTable
  <2>1. c.at = "region" /\ c' = [c EXCEPT !.at = "refused"] BY <1>3 DEF RefuseTable, InRegion, Stage
  <2>2. QED BY <1>1, <2>1, StopKeeps
<1>4. CASE Chunked
  <2>1. c.at = "region" /\ c.region > Len(Regions(c.file)) /\ c' = [c EXCEPT !.at = "done"] BY <1>4 DEF Chunked, Stage
  <2>2. QED BY <1>1, <2>1, EndKeeps
<1>5. QED BY <1>1, <1>2, <1>3, <1>4

\* The pipeline on any document at all, whatever its blocks, their number and their lengths.
AnyDocumentSpec == (\E f \in File : chunking = NotCut(f)) /\ [][ChunkingNext]_chunkingVars

\* The specification is the case of the documents within its bounds.
LEMMA BoundedDocuments == ChunkingSpec => AnyDocumentSpec
<1>1. ChunkingInit => \E f \in File : chunking = NotCut(f) BY FilesType DEF ChunkingInit
<1>2. QED BY <1>1, PTL DEF ChunkingSpec, AnyDocumentSpec

\* However a document is cut and joined, every state satisfies the invariant.
THEOREM ChunkingInvariant == AnyDocumentSpec => []ChunkingIInv
<1>1. (\E f \in File : chunking = NotCut(f)) => ChunkingIInv
  <2>1. SUFFICES ASSUME NEW f \in File, chunking = NotCut(f) PROVE Good(chunking)
    BY DEF ChunkingIInv
  <2>2. QED BY <2>1, StartGood
<1>2. ChunkingIInv /\ [ChunkingNext]_chunkingVars => ChunkingIInv'
  <2>1. CASE UNCHANGED chunkingVars
    <3>1. chunking' = chunking BY <2>1 DEF chunkingVars
    <3>2. QED BY <3>1 DEF ChunkingIInv
  <2>2. CASE ChunkingNext
    BY <2>2, TextKeeps, CodeKeeps, TableKeeps, LeftKeeps, RightKeeps, KeepKeeps, RegionKeeps, StopsKeep DEF ChunkingNext
  <2>3. QED BY <2>1, <2>2
<1>3. QED BY <1>1, <1>2, PTL DEF AnyDocumentSpec

(***************************************************************************)
(* Properties                                                              *)
(***************************************************************************)
\* The words of a sound text are those of the blocks it names.
LEMMA WordsNamed ==
  ASSUME NEW B, NEW t \in Seq(TokenOf(B)), NEW a \in Seqs!ToSet(Body(t))
  PROVE  a[1] \in B
<1> DEFINE X == {x \in Token : x[1] \in B}
           E(i) == IF IsWord(t[i]) THEN <<t[i]>> ELSE <<>>
           ss == [i \in DOMAIN t |-> E(i)]
           Y == Seq(X)
<1>1. \A i \in DOMAIN t : t[i] \in Token /\ (IsWord(t[i]) => t[i][1] \in B) BY DEF TokenOf
<1>2. \A i \in DOMAIN t : E(i) \in Y
  <2>1. SUFFICES ASSUME NEW i \in DOMAIN t PROVE E(i) \in Y OBVIOUS
  <2> DEFINE x == t[i]
  <2>2. x \in Token /\ (IsWord(x) => x[1] \in B) BY <1>1
  <2>3. E(i) = IF IsWord(x) THEN <<x>> ELSE <<>> OBVIOUS
  <2> HIDE DEF x, E
  <2>4. CASE IsWord(x)
    <3>1. x \in X BY <2>2, <2>4
    <3> HIDE DEF X
    <3>2. <<x>> \in Seq(X) BY <3>1
    <3>3. QED BY <2>3, <2>4, <3>2
  <2>5. CASE ~IsWord(x)
    <3> HIDE DEF X
    <3>1. QED BY <2>3, <2>5
  <2>6. QED BY <2>4, <2>5
<1>3. DOMAIN t = 1..Len(t) /\ Len(t) \in Nat OBVIOUS
<1>4. ss \in Seq(Y)
  <2> HIDE DEF Y, E
  <2>1. QED BY <1>2, <1>3
<1>5. Body(t) = Seqs!FlattenSeq(ss) BY DEF Body
<1> HIDE DEF ss, X
<1>6. Body(t) \in Seq(X) BY <1>4, <1>5, FlattenType
<1>7. a \in X
  <2> DEFINE s == Body(t)
  <2>1. s \in Seq(X) BY <1>6
  <2>2. a \in {s[i] : i \in DOMAIN s} BY DEF Seqs!ToSet
  <2> HIDE DEF s
  <2>3. QED BY <2>1, <2>2
<1>8. QED BY <1>7 DEF X

\* Each chunk there is, in the loop or behind it, is of one region.
LEMMA CutSoFarType == ChunkingIInv => CutSoFar \in Seq(RegionChunks(chunking.file))
<1>1. SUFFICES ASSUME Good(chunking) PROVE CutSoFar \in Seq(RegionChunks(chunking.file))
  BY DEF ChunkingIInv
<1> DEFINE c == chunking
           RC == RegionChunks(c.file)
           old == c.chunks
           cs == ChunksOf(c.entries)
<1>2. old \in Seq(RC) BY <1>1, GoodIs
<1>3. cs \in Seq(RC)
  <2>1. CASE c.at = "merge"
    <3> DEFINE R == BlocksOf(c)
               es == c.entries
    <3>1. es \in Seq(SoundEntries(R)) /\ R \subseteq Nat /\ c.region <= Len(Regions(c.file))
      BY <1>1, <2>1, GoodIs DEF Good, Merging
    <3>2. SoundChunks(R) \subseteq RC
      <4>1. HereOf(c) \in ToSet(Regions(c.file)) /\ R = ToSet(HereOf(c).units) BY <1>1, <3>1, GoodHere DEF BlocksOf
      <4>2. QED BY <4>1 DEF RegionChunks, SoundChunks
    <3> HIDE DEF R, es, RC
    <3>3. ChunksOf(es) \in Seq(SoundChunks(R)) BY <3>1, ChunksOfEntries
    <3> DEFINE z == ChunksOf(es)
               S == SoundChunks(R)
    <3>4. z \in Seq(S) /\ S \subseteq RC BY <3>2, <3>3
    <3> HIDE DEF z, S
    <3>5. z \in Seq(RC) BY <3>4, SeqMonotonic
    <3>6. QED BY <3>5 DEF z, es
  <2>2. CASE c.at # "merge"
    <3>1. c.entries = <<>> BY <1>1, <2>2, GoodIs
    <3>2. ChunksOf(<<>>) = <<>> BY DEF ChunksOf
    <3>3. cs = <<>> BY <3>1, <3>2
    <3> HIDE DEF RC, cs
    <3>4. QED BY <3>3
  <2>3. QED BY <2>1, <2>2
<1>4. CutSoFar = old \o cs BY DEF CutSoFar, ChunksOf
<1> HIDE DEF old, cs, RC
<1>5. old \o cs \in Seq(RC) BY <1>2, <1>3, ConcatParts
<1>6. QED BY <1>4, <1>5 DEF RC

\* No chunk, joined or not, is longer than the model takes, mixes regions or hides a block
\* its words come from.
THEOREM ChunksAreSound == AnyDocumentSpec => []ChunksSound
<1>1. ChunkingIInv => ChunksSound
  <2>1. SUFFICES ASSUME ChunkingIInv, NEW k \in DOMAIN CutSoFar
                 PROVE  LET c == CutSoFar[k]
                        IN /\ ~Over(c)
                           /\ {a[1] : a \in Seqs!ToSet(Body(c.text))} \subseteq c.sources
                           /\ \E r \in Seqs!ToSet(Regions(chunking.file)) : c.sources \subseteq Seqs!ToSet(r.units)
    BY DEF ChunksSound
  <2> DEFINE c == CutSoFar[k]
             all == CutSoFar
             RC == RegionChunks(chunking.file)
  <2>2. c \in RC
    <3>1. all \in Seq(RC) BY <2>1, CutSoFarType
    <3>2. k \in DOMAIN all OBVIOUS
    <3> HIDE DEF all, RC
    <3>3. all[k] \in RC BY <3>1, <3>2
    <3>4. QED BY <3>3 DEF all
  <2>3. PICK r \in ToSet(Regions(chunking.file)) : c \in SoundChunks(ToSet(r.units)) BY <2>2 DEF RegionChunks
  <2> HIDE DEF c
  <2>4. c.sources \subseteq ToSet(r.units) /\ ~Over(c) /\ c.text \in Seq(TokenOf(c.sources)) BY <2>3 DEF SoundChunks, Sound
  <2>5. \A a \in Seqs!ToSet(Body(c.text)) : a[1] \in c.sources
    <3> DEFINE t == c.text
               B == c.sources
    <3>1. t \in Seq(TokenOf(B)) BY <2>4
    <3> HIDE DEF t, B
    <3>2. \A a \in Seqs!ToSet(Body(t)) : a[1] \in B BY <3>1, WordsNamed
    <3>3. QED BY <3>2 DEF t, B
  <2>6. {a[1] : a \in Seqs!ToSet(Body(c.text))} \subseteq c.sources BY <2>5
  <2>7. \E q \in Seqs!ToSet(Regions(chunking.file)) : c.sources \subseteq Seqs!ToSet(q.units)
    <3>1. r \in Seqs!ToSet(Regions(chunking.file)) /\ c.sources \subseteq Seqs!ToSet(r.units) BY <2>3, <2>4 DEF ToSet
    <3>2. QED BY <3>1
  <2>8. QED BY <2>4, <2>6, <2>7 DEF c
<1>2. QED BY <1>1, ChunkingInvariant, PTL

\* A chunked document has each of its words once, in order.
THEOREM NoWordLost == AnyDocumentSpec => []WordsKept
<1>1. ChunkingIInv => WordsKept
  <2>1. SUFFICES ASSUME Good(chunking), chunking.at = "done" PROVE Gist(chunking.chunks) = Content(chunking.file.blocks)
    BY DEF ChunkingIInv, WordsKept, Stage
  <2> DEFINE c == chunking
             l == Len(Regions(c.file))
  <2>2. c.file \in File /\ Gist(c.chunks) = CutWords(c.file, c.region - 1) /\ c.region = l + 1 BY <2>1, GoodIs
  <2>3. l \in Nat
    <3>1. Regions(c.file) \in Seq(RegionOf(c.file.blocks)) BY <2>2, RegionHere
    <3>2. QED BY <3>1
  <2>4. c.region - 1 = l
    <3> HIDE DEF l
    <3>1. QED BY <2>2, <2>3
  <2>5. CutWords(c.file, l) = Content(c.file.blocks) BY <2>2, NothingCut
  <2>6. QED BY <2>2, <2>4, <2>5
<1>2. QED BY <1>1, ChunkingInvariant, PTL

\* What a document is cut into is faithful to it.
THEOREM ChunksAreFaithful == AnyDocumentSpec => []ChunksFaithful
<1>1. WordsKept /\ ChunksSound => ChunksFaithful BY DEF ChunksFaithful
<1>2. QED BY <1>1, NoWordLost, ChunksAreSound, PTL

\* When the size guard leaves a region, nothing too short in it could still be joined.
THEOREM NothingTinyLeft == AnyDocumentSpec => []NoTinyLeft
<1>1. ChunkingIInv => NoTinyLeft
  <2>1. SUFFICES ASSUME Good(chunking), Stage("merge"), chunking.index > Len(chunking.entries),
                        NEW k \in 1..(Len(chunking.entries) - 1)
                 PROVE  Apart(chunking.entries[k].chunk, chunking.entries[k + 1].chunk)
    BY DEF ChunkingIInv, NoTinyLeft, Apart
  <2> DEFINE es == chunking.entries
             i == chunking.index
             n == Len(es)
  <2>2. Settled(es, i) /\ es \in Seq(SoundEntries(BlocksOf(chunking))) /\ i \in 1..(n + 1) /\ i > n
    BY <2>1, GoodIs DEF Stage
  <2>3. n \in Nat BY <2>2
  <2>4. k \in 1..(n - 1) BY <2>1
  <2> HIDE DEF es, i
  <2>5. k + 1 < i
    <3> HIDE DEF n
    <3>1. QED BY <2>2, <2>3, <2>4
  <2>6. QED BY <2>2, <2>4, <2>5 DEF Settled, es
<1>2. QED BY <1>1, ChunkingInvariant, PTL

\* What is left to the loop: it passes an entry or makes one of two in each step.
LoopLeft == 2 * Len(chunking.entries) + 1 - chunking.index

\* The loop that edits the list it walks comes to its end, although a join moves it back:
\* each of its steps lowers a number that is never below zero.
LoopAdvances == Stage("merge") /\ Stage("merge")' => LoopLeft \in Nat /\ LoopLeft' \in Nat /\ LoopLeft' < LoopLeft

\* The entries after a join and the place where the loop goes on.
LEMMA JoinAdvances ==
  ASSUME ChunkingIInv, JoinLeft \/ JoinRight
  PROVE  /\ Len(chunking.entries') = Len(chunking.entries) - 1 /\ Len(chunking.entries) \in Nat
         /\ chunking.index' \in {chunking.index - 1, chunking.index} /\ chunking.index \in 1..Len(chunking.entries)
<1> DEFINE c == chunking
           es == c.entries
           i == c.index
           J(p) == JoinAt(es, p, [chunk |-> Joined(es[p].chunk, es[p + 1].chunk), before |-> es[p].before, after |-> es[p + 1].after])
<1>1. Good(c) /\ Looks BY DEF ChunkingIInv, JoinLeft, JoinRight
<1>2. c.at = "merge" /\ Len(es) \in Nat /\ i \in 1..Len(es) BY <1>1, LoopIndex
<1>3. Shaped(c) BY <1>1 DEF Good
<1>4. ASSUME NEW p \in 1..(Len(es) - 1), p \in {i - 1, i}, Joinable(es[p].chunk, es[p + 1].chunk)
      PROVE  /\ Seqs!ReplaceAt(Seqs!RemoveAt(es, p + 1), p, [chunk |-> Joined(es[p].chunk, es[p + 1].chunk), before |-> es[p].before, after |-> es[p + 1].after]) = J(p)
             /\ Seqs!RemoveAt(Seqs!ReplaceAt(es, p + 1, [chunk |-> Joined(es[p].chunk, es[p + 1].chunk), before |-> es[p].before, after |-> es[p + 1].after]), p) = J(p)
             /\ Len(J(p)) = Len(es) - 1
  <2> DEFINE e == [chunk |-> Joined(es[p].chunk, es[p + 1].chunk), before |-> es[p].before, after |-> es[p + 1].after]
  <2>1. /\ Seqs!ReplaceAt(Seqs!RemoveAt(es, p + 1), p, e) = JoinAt(es, p, e)
        /\ Seqs!RemoveAt(Seqs!ReplaceAt(es, p + 1, e), p) = JoinAt(es, p, e)
        /\ Len(JoinAt(es, p, e)) = Len(es) - 1
    <3>1. e = [chunk |-> Joined(es[p].chunk, es[p + 1].chunk), before |-> es[p].before, after |-> es[p + 1].after] OBVIOUS
    <3>2. /\ Good(c) /\ c.at = "merge" /\ p \in 1..(Len(c.entries) - 1) /\ p \in {c.index - 1, c.index}
          /\ Joinable(c.entries[p].chunk, c.entries[p + 1].chunk)
      BY <1>1, <1>2, <1>4
    <3> HIDE DEF e
    <3>3. QED BY ONLY <3>1, <3>2, JoinKeeps
  <2>2. QED BY <2>1
<1>5. CASE JoinLeft
  <2> DEFINE p == i - 1
             e == [chunk |-> Joined(es[p].chunk, es[p + 1].chunk), before |-> es[p].before, after |-> es[p + 1].after]
             joined == [chunk |-> Joined(Left.chunk, Entry.chunk), before |-> Left.before, after |-> Entry.after]
  <2>1. i > 1 /\ Joinable(Left.chunk, Entry.chunk) BY <1>5 DEF JoinLeft, ChooseLeft, LeftJoinable
  <2>2. p \in 1..(Len(es) - 1) /\ p + 1 = i
    <3> HIDE DEF es
    <3>1. i \in Nat /\ i > 1 BY <1>2, <2>1
    <3> HIDE DEF i
    <3>2. QED BY <1>2, <3>1
  <2>3. Left = es[p] /\ Entry = es[p + 1]
    <3>1. Left = es[i - 1] /\ Entry = es[i] BY DEF Left, Entry
    <3>2. QED BY <2>2, <3>1
  <2>4. c' = [c EXCEPT !.entries = Seqs!ReplaceAt(Seqs!RemoveAt(es, p + 1), p, e), !.index = p]
    <3>1. c' = [c EXCEPT !.entries = Seqs!ReplaceAt(Seqs!RemoveAt(@, i), i - 1, joined), !.index = i - 1] BY <1>5 DEF JoinLeft
    <3>2. joined = e BY <2>3
    <3>3. QED BY <2>2, <3>1, <3>2
  <2>5. Joinable(es[p].chunk, es[p + 1].chunk) BY <2>1, <2>3
  <2> DEFINE j == Seqs!ReplaceAt(Seqs!RemoveAt(es, p + 1), p, e)
  <2>6. Len(j) = Len(es) - 1
    <3>1. p \in {i - 1, i} OBVIOUS
    <3>2. QED BY <1>4, <2>2, <2>5, <3>1
  <2> HIDE DEF j, e
  <2>7. c' = [c EXCEPT !.entries = j, !.index = p] BY <2>4 DEF j
  <2>8. c' = Record(c.at, c.file, c.region, j, p, c.chunks)
    <3> HIDE DEF p
    <3>1. [c EXCEPT !.entries = j, !.index = p] = Record(c.at, c.file, c.region, j, p, c.chunks) BY ONLY <1>3, EntriesUpdate
    <3>2. QED BY <2>7, <3>1
  <2>9. c.entries' = j /\ c.index' = p BY <2>8 DEF Record
  <2>10. QED BY <1>2, <2>6, <2>9
<1>6. CASE JoinRight
  <2> DEFINE e == [chunk |-> Joined(es[i].chunk, es[i + 1].chunk), before |-> es[i].before, after |-> es[i + 1].after]
             j == Seqs!RemoveAt(Seqs!ReplaceAt(es, i + 1, e), i)
  <2>1. i < Len(es) /\ Joinable(Entry.chunk, Right.chunk) BY <1>6 DEF JoinRight, RightJoinable
  <2>2. i \in 1..(Len(es) - 1)
    <3> HIDE DEF es, i
    <3>1. QED BY <1>2, <2>1
  <2>3. Entry = es[i] /\ Right = es[i + 1] BY DEF Right, Entry
  <2>4. RightJoined = e BY <2>3 DEF RightJoined
  <2>5. c' = [c EXCEPT !.entries = j, !.index = i] BY <1>6, <2>4 DEF JoinRight, AfterRight
  <2>6. Joinable(es[i].chunk, es[i + 1].chunk) BY <2>1, <2>3
  <2>7. Len(j) = Len(es) - 1
    <3>1. i \in {i - 1, i} OBVIOUS
    <3>2. QED BY <1>4, <2>2, <2>6, <3>1
  <2> HIDE DEF j, e
  <2>8. c' = Record(c.at, c.file, c.region, j, i, c.chunks)
    <3>1. [c EXCEPT !.entries = j, !.index = i] = Record(c.at, c.file, c.region, j, i, c.chunks) BY ONLY <1>3, EntriesUpdate
    <3>2. QED BY <2>5, <3>1
  <2>9. c.entries' = j /\ c.index' = i BY <2>8 DEF Record
  <2>10. QED BY <1>2, <2>7, <2>9
<1>7. QED BY <1>5, <1>6

\* The walk of the size guard ends after at most twice as many steps as there were entries.
THEOREM LoopEnds == AnyDocumentSpec => [][LoopAdvances]_chunkingVars
<1>1. ChunkingIInv /\ [ChunkingNext]_chunkingVars => [LoopAdvances]_chunkingVars
  <2> DEFINE c == chunking
             n == Len(c.entries)
             i == c.index
  <2>1. SUFFICES ASSUME ChunkingIInv, c.at = "merge", c'.at = "merge", ChunkingNext
                 PROVE  LoopLeft \in Nat /\ LoopLeft' \in Nat /\ LoopLeft' < LoopLeft
    BY DEF LoopAdvances, Stage
  <2>2. CASE JoinLeft \/ JoinRight
    <3>1. Len(c.entries') = n - 1 /\ n \in Nat /\ c.index' \in {i - 1, i} /\ i \in 1..n BY <2>1, <2>2, JoinAdvances
    <3> DEFINE m == Len(c.entries')
               k == c.index'
    <3>2. LoopLeft = 2 * n + 1 - i /\ LoopLeft' = 2 * m + 1 - k BY DEF LoopLeft
    <3>3. m = n - 1 /\ n \in Nat /\ k \in {i - 1, i} /\ i \in 1..n BY <3>1
    <3> HIDE DEF m, n, k, i
    <3>4. QED BY <3>2, <3>3
  <2>3. CASE Keep
    <3>1. Looks /\ c' = [c EXCEPT !.index = @ + 1] BY <2>3 DEF Keep
    <3>2. Good(c) BY <2>1 DEF ChunkingIInv
    <3>3. n \in Nat /\ i \in 1..n BY <3>1, <3>2, LoopIndex
    <3>4. c = [at |-> c.at, file |-> c.file, region |-> c.region, entries |-> c.entries, index |-> c.index, chunks |-> c.chunks]
      BY <3>2, GoodIs
    <3>5. c.entries' = c.entries /\ c.index' = i + 1 BY <3>1, <3>4
    <3> DEFINE m == Len(c.entries')
               k == c.index'
    <3>6. LoopLeft = 2 * n + 1 - i /\ LoopLeft' = 2 * m + 1 - k BY DEF LoopLeft
    <3>7. m = n /\ k = i + 1 BY <3>5
    <3> HIDE DEF m, n, k, i
    <3>8. QED BY <3>3, <3>6, <3>7
  <2>4. CASE NextRegion
    <3>1. c'.at = "region"
      <4>1. Shaped(c) BY <2>1 DEF ChunkingIInv, Good
      <4>2. QED BY <2>4, <4>1 DEF NextRegion, Shaped
    <3>2. QED BY <2>1, <3>1
  <2>5. CASE CutText \/ EncoderUnavailable \/ CutCode \/ CutTable \/ RefuseTable \/ Chunked
    <3>1. c.at = "region" BY <2>5 DEF CutText, EncoderUnavailable, CutCode, CutTable, RefuseTable, Chunked, InRegion, Stage
    <3>2. QED BY <2>1, <3>1
  <2> HIDE DEF c
  <2>6. ChunkingNext BY <2>1
  <2>7. QED BY <2>2, <2>3, <2>4, <2>5, <2>6 DEF ChunkingNext
<1>2. QED BY <1>1, ChunkingInvariant, PTL DEF AnyDocumentSpec

\* The two properties of the specification, for the documents within its bounds.
THEOREM ChunkingIsFaithful == ChunkingSpec => []ChunksFaithful /\ []NoTinyLeft
BY BoundedDocuments, ChunksAreFaithful, NothingTinyLeft, PTL
===============================================================================
