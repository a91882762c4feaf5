------------------------------- MODULE Chunking -------------------------------
(* A parsed document is cut into chunks: its blocks are gathered into regions under one   *)
(* heading, a region's text is divided where its meaning shifts, and the size guard       *)
(* splits what is too long for the embedding model and joins what is too short. Text is a *)
(* sequence of tokens <<b, i>>, the i-th of block b, between the tokens of its layout; the *)
(* tokenizer counts them. Vectors and scores are not modelled: any boundaries may be      *)
(* selected, in any order of strength.                                                    *)
EXTENDS Naturals, Sequences

Seqs == INSTANCE SequencesExt

CONSTANTS
    MinTokens, TokenLimit,  \* SizeGuardPolicy.min_tokens, max_tokens
    FallbackTokens,         \* the tokens that fit in max_tokens characters
    Columns,                \* columns of a table's header
    MaxBlocks,              \* bound: blocks of a document
    MaxLines                \* bound: lines of code in a document made of code

\* The fence of a code block and the header of a table that is not refused leave room, and
\* max_tokens characters are more than an empty line.
ASSUME SizePolicy ==
  /\ MinTokens \in 1..TokenLimit /\ FallbackTokens \in 2..TokenLimit
  /\ TokenLimit \in Nat /\ TokenLimit > 2 /\ Columns \in Nat \ {0}
  /\ MaxBlocks \in Nat /\ MaxLines \in Nat

VARIABLE chunking    \* the document and how far it is cut
chunkingVars == <<chunking>>

(***************************************************************************)
(* Documents                                                               *)
(***************************************************************************)
Heading(l)     == [type |-> "heading", page |-> 1, level |-> l]
SlideTitle(p)  == [type |-> "slide_title", page |-> p]
\* A block of text, by the lengths of its sentences.
Prose(t, p, s) == [type |-> t, page |-> p, sentences |-> s]
\* Code, by the lengths of its lines, 0 for a blank one, and those that open a definition.
Code(f, n, d)  == [type |-> "code", page |-> 1, fenced |-> f, lines |-> n, defs |-> d]
\* A table, by the length of its header, whether that has outer pipes, and its rows of cells.
Table(h, p, r) == [type |-> "table", page |-> 1, header |-> h, piped |-> p, rows |-> r]

Outline == {Heading(1), Heading(2), Prose("paragraph", 1, <<1>>), Prose("paragraph", 1, <<1, 2>>),
            Prose("paragraph", 1, <<MinTokens, 1>>), Prose("paragraph", 1, <<TokenLimit + 1>>),
            Prose("list_item", 1, <<1>>), Code(TRUE, <<2>>, {}), Table(1, TRUE, << <<1, 1>> >>)}
Slides  == {SlideTitle(p) : p \in 1..2} \cup {Prose("paragraph", p, <<1>>) : p \in 1..2}
Rows    == Seqs!BoundedSeq({0, 1, TokenLimit + 1}, Columns) \ {<<>>}
Listings == UNION {{Code(f, n, d) : n \in [1..k -> {0, 1, TokenLimit}], d \in SUBSET (1..k), f \in BOOLEAN} :
                     k \in 1..MaxLines}

\* A document without blocks is given up before it is cut.
Files ==
  {[deck |-> FALSE, blocks |-> s] : s \in Seqs!BoundedSeq(Outline, MaxBlocks) \ {<<>>}}
    \cup {[deck |-> TRUE, blocks |-> s] :
            s \in {t \in Seqs!BoundedSeq(Slides, MaxBlocks) \ {<<>>} :
                     \A i, j \in DOMAIN t : i < j => t[i].page <= t[j].page}}
    \cup {[deck |-> FALSE, blocks |-> <<b>>] :
            b \in {l \in Listings : \A i \in l.defs : l.lines[i] > 0}
                    \cup {Table(h, p, r) : h \in {1, TokenLimit}, p \in BOOLEAN, r \in Seqs!BoundedSeq(Rows, 2)}}

(***************************************************************************)
(* Structure                                                               *)
(***************************************************************************)
NoRegions == [regions |-> <<>>, units |-> <<>>, path |-> <<>>, stack |-> <<>>, slide |-> <<>>, page |-> 0]

Flush(s) ==
  IF s.units = <<>> THEN s
  ELSE [s EXCEPT !.regions = Append(@, [kind |-> "text", path |-> s.path, units |-> s.units]),
                 !.units = <<>>, !.path = <<>>]

\* The slide of a deck ends its regions and its title.
TurnPage(s, f, b) ==
  IF ~f.deck THEN s
  ELSE IF s.page \in {0, b.page} THEN [s EXCEPT !.page = b.page]
  ELSE [Flush(s) EXCEPT !.slide = <<>>, !.page = b.page]

AddBlock(s, f, i) ==
  LET b    == f.blocks[i]
      t    == TurnPage(s, f, b)
      path == t.stack \o t.slide
      upTo == Seqs!Min({b.level - 1, Len(t.stack)})
  IN CASE b.type = "slide_title" -> [Flush(t) EXCEPT !.slide = <<i>>]
       [] b.type = "heading" -> [Flush(t) EXCEPT !.stack = Append(SubSeq(@, 1, upTo), i)]
       [] b.type \in {"code", "table"} ->
            [Flush(t) EXCEPT !.regions = Append(@, [kind |-> b.type, path |-> path, units |-> <<i>>])]
       [] OTHER ->
            [IF t.path # path THEN Flush(t) ELSE t EXCEPT !.path = path, !.units = Append(@, i)]

Regions(f) == Flush(Seqs!FoldLeftDomain(LAMBDA s, i : AddBlock(s, f, i), NoRegions, f.blocks)).regions

(***************************************************************************)
(* Text and its layout                                                     *)
(***************************************************************************)
Break == <<0, 0>>   \* the empty line between paragraphs
Fence == <<0, 1>>
Bar   == <<0, 2>>   \* the borders of a table's row
Title(b) == <<b, 0>>  \* a heading, or a token of a table's header

IsWord(a) == a[1] > 0 /\ a[2] > 0
Body(t) == Seqs!FlattenSeq([i \in DOMAIN t |-> IF IsWord(t[i]) THEN <<t[i]>> ELSE <<>>])

\* The next n tokens of block b, and those behind the first ones cut into pieces of the
\* given lengths.
Span(b, first, n) == [k \in 1..n |-> <<b, first + k>>]
Total(lengths) == Seqs!FoldLeft(LAMBDA sum, n : sum + n, 0, lengths)
Measure(b, first, lengths) ==
  [i \in DOMAIN lengths |-> Span(b, first + Total(SubSeq(lengths, 1, i - 1)), lengths[i])]

Strip(t) ==
  LET kept == {i \in DOMAIN t : t[i] # Break}
  IN IF kept = {} THEN <<>> ELSE SubSeq(t, Seqs!Min(kept), Seqs!Max(kept))

Pieces(t, n) == [k \in 1..((Len(t) + n - 1) \div n) |-> SubSeq(t, (k - 1) * n + 1, Seqs!Min({k * n, Len(t)}))]

Candidate(kind, text, sources) == [kind |-> kind, text |-> text, sources |-> sources]
Over(c) == Len(c.text) > TokenLimit

\* Runs of items, a new one at each of the places in starts.
Take(g, i, items, starts) ==
  IF i > 1 /\ i \notin starts THEN [g EXCEPT ![Len(g)] = Append(@, items[i])] ELSE Append(g, <<items[i]>>)
Grouped(items, starts) == Seqs!FoldLeftDomain(LAMBDA g, i : Take(g, i, items, starts), <<>>, items)

\* Of n groups those are taken together whose chunk fits, whole[<<i, j>>] for the i-th to the
\* j-th; one that does not fit by itself is cut finer. None is open where from is 0.
Place(p, k, whole, finer) ==
  LET full == p.from > 0 /\ Over(whole[<<p.from, k>>])
      done == IF full THEN Append(p.done, whole[<<p.from, k - 1>>]) ELSE p.done
      from == IF full \/ p.from = 0 THEN k ELSE p.from
  IN IF from = k /\ Over(whole[<<k, k>>]) THEN [done |-> done \o finer[k], from |-> 0]
     ELSE [done |-> done, from |-> from]

Pack(n, whole, finer) ==
  LET packed == Seqs!FoldLeft(LAMBDA p, k : Place(p, k, whole, finer), [done |-> <<>>, from |-> 0], [k \in 1..n |-> k])
  IN IF packed.from = 0 THEN packed.done ELSE Append(packed.done, whole[<<packed.from, n>>])

\* The runs of items in a sequence.
Runs(items) == {r \in (DOMAIN items) \X (DOMAIN items) : r[1] <= r[2]}
Run(items, r) == SubSeq(items, r[1], r[2])

(***************************************************************************)
(* Candidates of a region                                                  *)
(***************************************************************************)
Lines(b, c) == LET texts == Measure(b, 0, c.lines)
               IN [i \in DOMAIN texts |-> [text |-> texts[i], def |-> i \in c.defs]]

\* Every chunk of a code block gets its fence.
Fenced(b, c, text) == Candidate("code", IF c.fenced THEN <<Fence>> \o text \o <<Fence>> ELSE text, {b})
CodeChunk(b, c, lines) == Fenced(b, c, Seqs!FlattenSeq([i \in DOMAIN lines |-> lines[i].text]))

LineFragments(b, c, line) ==
  LET cut == Pieces(line.text, IF c.fenced THEN TokenLimit - 2 ELSE TokenLimit)
  IN [i \in DOMAIN cut |-> Fenced(b, c, cut[i])]

ByLine(b, c, lines) ==
  Pack(Len(lines), [r \in Runs(lines) |-> CodeChunk(b, c, Run(lines, r))],
       [i \in DOMAIN lines |-> LineFragments(b, c, lines[i])])

AfterBlank(lines) == {i \in 2..Len(lines) : lines[i - 1].text = <<>>}
ByBlankLine(b, c, lines) ==
  LET groups == Grouped(lines, AfterBlank(lines))
  IN Pack(Len(groups), [r \in Runs(groups) |-> CodeChunk(b, c, Seqs!FlattenSeq(Run(groups, r)))],
          [i \in DOMAIN groups |-> ByLine(b, c, groups[i])])

\* Code is cut before its definitions, then after its blank lines, then between lines,
\* then anywhere; nothing is left for _force_safe to cut.
CodeCandidates(b, c) ==
  LET all    == Lines(b, c)
      groups == Grouped(all, {i \in DOMAIN all : all[i].def})
  IN Pack(Len(groups), [r \in Runs(groups) |-> CodeChunk(b, c, Seqs!FlattenSeq(Run(groups, r)))],
          [i \in DOMAIN groups |-> ByBlankLine(b, c, groups[i])])

Header(b, t) == [i \in 1..t.header |-> Title(b)]
TableRows(b, t) ==
  [r \in DOMAIN t.rows |-> Measure(b, Total(Seqs!FlattenSeq(SubSeq(t.rows, 1, r - 1))), t.rows[r])]

RowTooLong(t, row) == t.header + 1 + Len(Seqs!FlattenSeq(row)) > TokenLimit

\* A table without rows, a header without outer pipes, a row that is too long and has
\* other columns than the header or no room beside it.
TableRefused(b, t) ==
  \/ t.rows = <<>> \/ ~t.piped
  \/ \E r \in DOMAIN t.rows :
       /\ RowTooLong(t, TableRows(b, t)[r])
       /\ Len(t.rows[r]) # Columns \/ t.header + 1 >= TokenLimit

\* A row that is too long is cut into rows that each hold a part of one of its cells.
RowFragments(b, t, row) ==
  LET Fragments(cell) == IF cell = <<>> THEN << <<>> >> ELSE Pieces(cell, TokenLimit - t.header - 1)
      cut == IF RowTooLong(t, row) THEN Seqs!FlattenSeq([k \in DOMAIN row |-> Fragments(row[k])])
             ELSE << Seqs!FlattenSeq(row) >>
  IN [k \in DOMAIN cut |-> <<Bar>> \o cut[k]]

TableChunk(b, t, rows) == Candidate("table", Header(b, t) \o Seqs!FlattenSeq(rows), {b})
TableCandidates(b, t) ==
  LET rows == TableRows(b, t)
      cut  == Seqs!FlattenSeq([r \in DOMAIN rows |-> RowFragments(b, t, rows[r])])
  IN Pack(Len(cut), [r \in Runs(cut) |-> TableChunk(b, t, Run(cut, r))], [k \in DOMAIN cut |-> <<>>])

SemanticUnits(f, region) ==
  Seqs!FlattenSeq([k \in DOMAIN region.units |->
    LET b == region.units[k]  texts == Measure(b, 0, f.blocks[b].sentences)
    IN [i \in DOMAIN texts |-> [block |-> b, kind |-> f.blocks[b].type, text |-> texts[i]]]])

\* The headings of the region, then its units, with empty lines between them.
Render(path, units) ==
  LET parts == (IF path = <<>> THEN <<>> ELSE << [k \in DOMAIN path |-> Title(path[k])] >>)
                 \o [k \in DOMAIN units |-> units[k].text]
  IN Candidate(units[1].kind, Seqs!FlattenSeq([k \in DOMAIN parts |-> IF k = 1 THEN parts[k] ELSE <<Break>> \o parts[k]]),
               {units[k].block : k \in DOMAIN units})

\* What is still too long is cut wherever max_tokens characters end.
ForceSafe(c) ==
  IF ~Over(c) THEN <<c>>
  ELSE LET cut == Pieces(c.text, FallbackTokens) IN [k \in DOMAIN cut |-> [c EXCEPT !.text = cut[k]]]

TextCandidates(path, units) ==
  LET split == Pack(Len(units), [r \in Runs(units) |-> Render(path, Run(units, r))],
                    [k \in DOMAIN units |-> << Render(path, <<units[k]>>) >>])
  IN Seqs!FlattenSeq([k \in DOMAIN split |-> ForceSafe(split[k])])

Unscored == 3   \* no boundary: stronger than any that is selected

\* The candidates of a segment, the first and the last with the boundary beside them.
Entries(candidates, before, after) ==
  [k \in DOMAIN candidates |->
     [chunk  |-> candidates[k],
      before |-> IF k = 1 THEN before ELSE Unscored,
      after  |-> IF k = Len(candidates) THEN after ELSE Unscored]]

\* The segments of a region's text: score[k] is 0 where the boundary after its k-th unit
\* is not selected.
TextEntries(path, units, score) ==
  LET segments == Grouped([k \in DOMAIN units |-> k], {k \in 2..Len(units) : score[k - 1] > 0})
      Before(g) == IF g[1] = 1 THEN Unscored ELSE score[g[1] - 1]
      After(g)  == IF g[Len(g)] = Len(units) THEN Unscored ELSE score[g[Len(g)]]
  IN Seqs!FlattenSeq([s \in DOMAIN segments |->
       LET g == segments[s]
       IN Entries(TextCandidates(path, [k \in DOMAIN g |-> units[g[k]]]), Before(g), After(g))])

(***************************************************************************)
(* Joining what is too short                                               *)
(***************************************************************************)
Tiny(c) == Len(c.text) < MinTokens
\* Mutant: the joined chunk cites what its left part cited.
JoinedUncited(l, r) == [l EXCEPT !.text = Strip(@ \o <<Break>> \o r.text)]
Joined(l, r) == [l EXCEPT !.text = Strip(@ \o <<Break>> \o r.text), !.sources = @ \cup r.sources]
Joinable(l, r) == l.kind = r.kind /\ l.kind \notin {"code", "table"} /\ ~Over(Joined(l, r))

(***************************************************************************)
(* The pipeline                                                            *)
(***************************************************************************)
NotCut(f) == [at |-> "region", file |-> f, region |-> 1, entries |-> <<>>, index |-> 1, chunks |-> <<>>]

ChunkingInit == \E f \in Files : chunking = NotCut(f)

Stage(s) == chunking.at = s

\* The region that is cut, and its block where it is code or a table.
Here  == Regions(chunking.file)[chunking.region]
Alone == chunking.file.blocks[Here.units[1]]

InRegion(kind) == Stage("region") /\ chunking.region <= Len(Regions(chunking.file)) /\ Here.kind = kind

Guard(entries) == chunking' = [chunking EXCEPT !.at = "merge", !.entries = entries, !.index = 1]

CutText ==
  /\ InRegion("text")
  /\ LET units == SemanticUnits(chunking.file, Here)
     IN \E score \in [1..(Len(units) - 1) -> 0..2] : Guard(TextEntries(Here.path, units, score))

\* The boundaries of a single unit need no vectors. A provider that does not answer fails
\* the document for now: it is retried from the start.
EncoderUnavailable ==
  /\ InRegion("text") /\ Len(SemanticUnits(chunking.file, Here)) > 1
  /\ chunking' = [chunking EXCEPT !.at = "unavailable"]

CutCode ==
  /\ InRegion("code")
  /\ Guard(Entries(CodeCandidates(Here.units[1], Alone), Unscored, Unscored))

CutTable ==
  /\ InRegion("table") /\ ~TableRefused(Here.units[1], Alone)
  /\ Guard(Entries(TableCandidates(Here.units[1], Alone), Unscored, Unscored))

\* HybridChunkingInvariantViolation: the document is given up.
RefuseTable ==
  /\ InRegion("table") /\ TableRefused(Here.units[1], Alone)
  /\ chunking' = [chunking EXCEPT !.at = "refused"]

Entry == chunking.entries[chunking.index]
Left  == chunking.entries[chunking.index - 1]
Right == chunking.entries[chunking.index + 1]
Looks == Stage("merge") /\ chunking.index <= Len(chunking.entries)
LeftJoinable  == chunking.index > 1 /\ Joinable(Left.chunk, Entry.chunk)
RightJoinable == chunking.index < Len(chunking.entries) /\ Joinable(Entry.chunk, Right.chunk)

\* Of two neighbours that can take it, the one across the weaker boundary does.
ChooseLeft == LeftJoinable /\ (RightJoinable => Entry.before <= Entry.after)

JoinLeft ==
  /\ Looks /\ Tiny(Entry.chunk) /\ ChooseLeft
  /\ LET i == chunking.index
         joined == [chunk |-> Joined(Left.chunk, Entry.chunk), before |-> Left.before, after |-> Entry.after]
     IN chunking' = [chunking EXCEPT !.entries = Seqs!ReplaceAt(Seqs!RemoveAt(@, i), i - 1, joined), !.index = i - 1]

RightJoined == [chunk |-> Joined(Entry.chunk, Right.chunk), before |-> Entry.before, after |-> Right.after]

\* Mutant: the loop goes on behind the joined chunk.
AfterRightSkipped == chunking.index + 1
\* The joined chunk takes the place of its right part and is looked at again.
AfterRight == chunking.index

JoinRight ==
  /\ Looks /\ Tiny(Entry.chunk) /\ ~ChooseLeft /\ RightJoinable
  /\ LET i == chunking.index
     IN chunking' = [chunking EXCEPT !.entries = Seqs!RemoveAt(Seqs!ReplaceAt(@, i + 1, RightJoined), i),
                                     !.index = AfterRight]

Keep ==
  /\ Looks /\ (Tiny(Entry.chunk) => ~ChooseLeft /\ ~RightJoinable)
  /\ chunking' = [chunking EXCEPT !.index = @ + 1]

NextRegion ==
  /\ Stage("merge") /\ chunking.index > Len(chunking.entries)
  /\ chunking' = [chunking EXCEPT !.at = "region", !.region = @ + 1, !.entries = <<>>,
                                  !.chunks = @ \o [k \in DOMAIN chunking.entries |-> chunking.entries[k].chunk]]

Chunked ==
  /\ Stage("region") /\ chunking.region > Len(Regions(chunking.file))
  /\ chunking' = [chunking EXCEPT !.at = "done"]

ChunkingNext ==
  \/ CutText \/ EncoderUnavailable \/ CutCode \/ CutTable \/ RefuseTable
  \/ JoinLeft \/ JoinRight \/ Keep \/ NextRegion \/ Chunked

ChunkingSpec == ChunkingInit /\ [][ChunkingNext]_chunkingVars

(***************************************************************************)
(* Properties                                                              *)
(***************************************************************************)
CutSoFar == chunking.chunks \o [k \in DOMAIN chunking.entries |-> chunking.entries[k].chunk]

\* The tokens of a block's own text; a heading is in the path of its region only.
Words(b) ==
  CASE b.type \in {"heading", "slide_title"} -> 0
    [] b.type = "code"  -> Total(b.lines)
    [] b.type = "table" -> Total(Seqs!FlattenSeq(b.rows))
    [] OTHER            -> Total(b.sentences)

BlockWords(blocks, i) == Span(i, 0, Words(blocks[i]))
Content(blocks) == Seqs!FlattenSeq([i \in DOMAIN blocks |-> BlockWords(blocks, i)])

\* The words of a sequence of chunks.
Gist(chunks) == Seqs!FlattenSeq([k \in DOMAIN chunks |-> Body(chunks[k].text)])

\* A document that is chunked has every word of its text in exactly one chunk, in the
\* order of the document, however its text was divided, split and joined again.
WordsKept == Stage("done") => Gist(chunking.chunks) = Content(chunking.file.blocks)

\* No chunk is longer than the model takes, none mixes regions, and each names every block
\* its words come from.
ChunksSound ==
  \A k \in DOMAIN CutSoFar :
    LET c == CutSoFar[k]
    IN /\ ~Over(c)
       /\ {a[1] : a \in Seqs!ToSet(Body(c.text))} \subseteq c.sources
       /\ \E r \in Seqs!ToSet(Regions(chunking.file)) : c.sources \subseteq Seqs!ToSet(r.units)

ChunksFaithful == WordsKept /\ ChunksSound

\* When the size guard leaves a region, no chunk in it that is too short could still be
\* joined with a neighbour, although each join changes what its neighbours can be joined with.
NoTinyLeft ==
  Stage("merge") /\ chunking.index > Len(chunking.entries) =>
    \A k \in 1..(Len(chunking.entries) - 1) :
      LET l == chunking.entries[k].chunk  r == chunking.entries[k + 1].chunk
      IN Tiny(l) \/ Tiny(r) => ~Joinable(l, r)
===============================================================================
