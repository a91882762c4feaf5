------------------------------ MODULE Retrieval ------------------------------
(* One retrieval of context for a learner: the vector search and the keyword search run   *)
(* one after the other in savepoints of the caller's transaction, their rows are fused,   *)
(* reranked and cut to what a prompt may hold. Every statement sees what is committed     *)
(* when it starts, and documents are indexed and reindexed meanwhile: two statements may  *)
(* read two versions of one document's index. Production requests carry no filters and no *)
(* query rewriter is configured, so there is one query and the metadata source is empty.  *)
EXTENDS Naturals, Sequences, FiniteSets

CONSTANTS
    Curated, Own, Foreign,   \* documents of the corpus, of the learner's goal, of others
    Passages,                \* positions of chunks in a document, consecutive numbers
    SharedPassages,          \* those whose text is the same in every document
    LongPassages,            \* those three units long; the others are one unit long
    MaxIndexVersions,        \* bound: index versions of a document
    TopKs,                   \* the sizes a caller asks for
    MaxChunks, CharBudget, Separator   \* ContextSelectionConfig, in units of text

Documents == Curated \cup Own \cup Foreign

Chunks == [document : Documents, version : 1..MaxIndexVersions, passage : Passages]

Text(c) == IF c.passage \in SharedPassages THEN <<c.passage>> ELSE <<c.document, c.passage>>

\* Chunks are cut far below the budget: one of them always fits.
ASSUME RetrievalAssumption ==
    /\ IsFiniteSet(Documents) /\ Foreign \cap (Curated \cup Own) = {}
    /\ IsFiniteSet(Passages) /\ Passages # {} /\ Passages \subseteq Nat
    /\ MaxIndexVersions \in Nat \ {0} /\ MaxChunks \in Nat \ {0} /\ TopKs \subseteq Nat \ {0}
    /\ CharBudget \in Nat /\ Separator \in Nat /\ 3 <= CharBudget

VARIABLES
    serving,     \* the active index version of each document, 0 while it has none
    retrieval    \* the retrieval under way, or the last one

retrievalVars == <<serving, retrieval>>

NoRetrieval == [at |-> "idle", since |-> serving, topK |-> 1, exactTerms |-> FALSE,
         transaction |-> "usable", vectorFailed |-> FALSE, rows |-> {}, strategyRows |-> {},
         seen |-> {}, selected |-> <<>>, status |-> "none"]

\* Documents of others are indexed all along, which can only make them easier to find.
RetrievalInit ==
    /\ serving \in [Documents -> 0..1] /\ \A d \in Foreign : serving[d] = 1
    /\ retrieval = NoRetrieval

Asks(l) == retrieval.at = l /\ retrieval.transaction = "usable"

\* What a statement that starts now may return.
Visible == {c \in Chunks : c.document \notin Foreign /\ c.version = serving[c.document]}

AtMost(k, S) == {R \in SUBSET S : Cardinality(R) <= k}
Smaller(m, n) == IF m < n THEN m ELSE n
\* The nearest k chunks: distances are not modelled, so any k of them.
Nearest(k, S) == {R \in SUBSET S : Cardinality(R) = Smaller(k, Cardinality(S))}

\* A reindex of the document activates its new index and archives the old one.
ActivateIndex(d) ==
    /\ d \notin Foreign /\ serving[d] < MaxIndexVersions
    /\ serving' = [serving EXCEPT ![d] = @ + 1]
    /\ UNCHANGED retrieval

StartRetrieval(k, exact) ==
    /\ retrieval.at \in {"idle", "answered"}
    /\ retrieval' = [NoRetrieval EXCEPT !.at = "exists", !.topK = k, !.exactTerms = exact]
    /\ UNCHANGED serving

\* The model is asked for the query's vector only when there is something to compare with.
FindVisibleRows ==
    /\ Asks("exists")
    /\ retrieval' = [retrieval EXCEPT !.at = IF Visible = {} THEN "fts" ELSE "embed"]
    /\ UNCHANGED serving

EmbedQuery ==
    /\ Asks("embed")
    /\ retrieval' = [retrieval EXCEPT !.at = "nearest"]
    /\ UNCHANGED serving

\* Mutant: a provider that does not answer leaves no rows, as if there were none.
EmptyWhenUnavailable ==
    /\ Asks("embed")
    /\ retrieval' = [retrieval EXCEPT !.at = "fts"]
    /\ UNCHANGED serving

\* The provider does not answer: the vector source has failed, the keyword source is
\* asked all the same.
EmbeddingUnavailable ==
    /\ Asks("embed")
    /\ retrieval' = [retrieval EXCEPT !.at = "fts", !.vectorFailed = TRUE]
    /\ UNCHANGED serving

RankVectors ==
    /\ Asks("nearest")
    /\ \E R \in Nearest(retrieval.topK, Visible) :
          retrieval' = [retrieval EXCEPT !.at = "fts", !.rows = R]
    /\ UNCHANGED serving

\* Full text first, exact terms when the query has some, the looser strategies while
\* there are fewer rows than asked for. The rows are keyed by chunk.
After(strategy, found) ==
    IF strategy = "fts" /\ retrieval.exactTerms THEN "exact"
    ELSE IF strategy = "ilike" \/ Cardinality(found) >= retrieval.topK THEN "keywordDone"
    ELSE IF strategy = "trigram" THEN "ilike" ELSE "trigram"

CollectRows(strategy) ==
    /\ Asks(strategy)
    /\ \E R \in AtMost(retrieval.topK, Visible) :
          LET found == retrieval.strategyRows \cup R
          IN retrieval' = [retrieval EXCEPT !.at = After(strategy, found), !.strategyRows = found]
    /\ UNCHANGED serving

\* A statement fails: nothing more can be asked in this transaction until it is rolled
\* back to a savepoint.
StatementFails ==
    /\ retrieval.at \in {"exists", "nearest", "fts", "exact", "trigram", "ilike"}
    /\ retrieval.transaction = "usable"
    /\ retrieval' = [retrieval EXCEPT !.transaction = "aborted"]
    /\ UNCHANGED serving

UnwindVector ==
    /\ retrieval.transaction = "aborted" /\ retrieval.at \in {"exists", "nearest"}
    /\ retrieval' = [retrieval EXCEPT !.transaction = "usable", !.at = "fts", !.vectorFailed = TRUE]
    /\ UNCHANGED serving

\* The trigram strategy has a savepoint of its own and its failure is forgotten.
UnwindTrigram ==
    /\ retrieval.transaction = "aborted" /\ retrieval.at = "trigram"
    /\ retrieval' = [retrieval EXCEPT !.transaction = "usable", !.at = "ilike"]
    /\ UNCHANGED serving

\* Any other strategy takes the rows of those before it along.
UnwindKeyword ==
    /\ retrieval.transaction = "aborted" /\ retrieval.at \in {"fts", "exact", "ilike"}
    /\ retrieval' = [retrieval EXCEPT !.transaction = "usable", !.at = "keywordDone", !.strategyRows = {}]
    /\ UNCHANGED serving

\* The best keyword rows join those of the vectors, one candidate for each chunk; the
\* empty metadata source follows. Scores are not modelled, so any k rows are the best.
Fuse ==
    /\ Asks("keywordDone")
    /\ \E R \in Nearest(retrieval.topK, retrieval.strategyRows) :
          retrieval' = [retrieval EXCEPT !.at = "select", !.rows = @ \cup R, !.strategyRows = {}]
    /\ UNCHANGED serving

Neighbours(a, b) ==
    a.document = b.document /\ (a.passage = b.passage + 1 \/ b.passage = a.passage + 1)

Chosen == {retrieval.selected[i] : i \in DOMAIN retrieval.selected}

\* The length of a context that holds the chunks S.
ContextSize(S) ==
    Cardinality(S) + 2 * Cardinality({c \in S : c.passage \in LongPassages})
      + Separator * (Cardinality(S) - 1)

\* Mutant: a candidate is refused only when its chunk was selected already.
FitsOnce(c) ==
    /\ \A e \in Chosen : c # e /\ ~Neighbours(c, e)
    /\ ContextSize(Chosen \cup {c}) <= CharBudget

Fits(c) ==
    /\ \A e \in Chosen : Text(c) # Text(e) /\ ~Neighbours(c, e)
    /\ ContextSize(Chosen \cup {c}) <= CharBudget

\* A text that overlaps one of those selected by more than the ratio is refused as well. How
\* far texts overlap is not modelled: any candidate may, once something is selected.
Overlaps == IF Chosen = {} THEN {FALSE} ELSE BOOLEAN

\* Whatever order the reranker, or the fusion when it failed or was late, gives: each
\* document's best candidate is considered before any second one.
Considered == {c \in retrieval.rows :
                 (\E r \in retrieval.rows : r.document \notin retrieval.seen) => c.document \notin retrieval.seen}

SelectNext ==
    /\ Asks("select") /\ Len(retrieval.selected) < MaxChunks
    /\ \E c \in Considered, overlaps \in Overlaps :
          retrieval' = [retrieval EXCEPT !.rows = @ \ {c}, !.seen = @ \cup {c.document},
                                         !.selected = IF Fits(c) /\ ~overlaps THEN Append(@, c) ELSE @]
    /\ UNCHANGED serving

\* The tutor is told the vector source's failure, whatever the keyword source found.
AnswerTutor ==
    /\ Asks("select") /\ (retrieval.rows = {} \/ Len(retrieval.selected) = MaxChunks)
    /\ LET chunks == SubSeq(retrieval.selected, 1, Smaller(retrieval.topK, Len(retrieval.selected)))
       IN retrieval' = [retrieval EXCEPT
              !.at = "answered", !.rows = {}, !.seen = {},
              !.selected = IF retrieval.vectorFailed THEN <<>> ELSE chunks,
              !.status = IF retrieval.vectorFailed THEN "failed"
                         ELSE IF chunks = <<>> THEN "no_context" ELSE "grounded"]
    /\ UNCHANGED serving

RetrievalNext ==
    \/ \E d \in Documents : ActivateIndex(d)
    \/ \E k \in TopKs, exact \in BOOLEAN : StartRetrieval(k, exact)
    \/ FindVisibleRows \/ EmbedQuery \/ EmbeddingUnavailable \/ RankVectors
    \/ \E strategy \in {"fts", "exact", "trigram", "ilike"} : CollectRows(strategy)
    \/ StatementFails \/ UnwindVector \/ UnwindTrigram \/ UnwindKeyword
    \/ Fuse \/ SelectNext \/ AnswerTutor

RetrievalSpec == RetrievalInit /\ [][RetrievalNext]_retrievalVars

\* The context of an answer: nobody else's text, only indexes that served while the
\* retrieval ran, no text twice even when its statements saw two versions of an index, no
\* two passages in a row, and no more than the prompt's budget (rag_retrievers.py:583,
\* selection.py:35-66, retrieval_service.py:47).
ContextFaithful ==
    retrieval.at = "answered" =>
      /\ \A c \in Chosen : /\ c.document \notin Foreign
                           /\ c.version \in retrieval.since[c.document]..serving[c.document]
      /\ \A i, j \in DOMAIN retrieval.selected : i # j =>
            LET a == retrieval.selected[i]
                b == retrieval.selected[j]
            IN Text(a) # Text(b) /\ <<a.document, a.passage>> # <<b.document, b.passage>> /\ ~Neighbours(a, b)
      /\ Len(retrieval.selected) <= Smaller(MaxChunks, retrieval.topK)
      /\ Chosen # {} => ContextSize(Chosen) <= CharBudget

\* "no_context" is said only when nothing the learner may see was indexed when the
\* retrieval began, however the index moves on meanwhile, "failed" only when the vector
\* source failed, and the caller goes on in a usable transaction, whatever failed
\* (rag_retrievers.py:35-53,128,207-218, retrieval_service.py:28-66).
StatusTruthful ==
    retrieval.at = "answered" =>
      /\ retrieval.transaction = "usable"
      /\ retrieval.status = "failed" <=> retrieval.vectorFailed
      /\ retrieval.status = "no_context" => \A d \in Curated \cup Own : retrieval.since[d] = 0
=============================================================================
