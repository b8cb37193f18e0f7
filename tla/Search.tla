------------------------------- MODULE Search -------------------------------
(***************************************************************************)
(* What can be found in the rows Embedding keeps: ranked search by meaning *)
(* and by words (RetrievalService over ChunkRepository), the neighbours    *)
(* and vectors reconciliation and clustering ask for, and what a caller is *)
(* told about the index.                                                   *)
(*                                                                         *)
(* A text is abstracted to how far it is from the question and how much of *)
(* the question's words it has; both are the question's to say.            *)
(***************************************************************************)
EXTENDS Embedding

CONSTANTS
  ItemOf,       \* Chunk -> the knowledge item it is a part of
  MaxDistance,  \* farther texts are not results
  Words,        \* the words of a question
  MinCoverage,  \* texts with fewer of them are not results
  Strong,       \* a distance that counts as a strong match
  PageSize

Items == {ItemOf[c] : c \in Chunk}

\* A question: the distance and the coverage of each chunk, how many results it
\* wants, the items whose lifecycle and kind it admits, and its vector's model.
Question == [distance : [Chunk -> 1 .. MaxDistance + 1], covers : [Chunk -> 0 .. Words],
             limit : 1 .. Cardinality(Chunk), admits : SUBSET Items, model : Model]

\* Any other question finds a part of what this one does.
Widest(m) == [distance |-> [c \in Chunk |-> MaxDistance], covers |-> [c \in Chunk |-> Words],
              limit |-> Cardinality(Chunk), admits |-> Items, model |-> m]

\* ORDER BY the columns of each row, and LIMIT.
Before(j, k) == \E n \in DOMAIN j : j[n] < k[n] /\ \A m \in 1 .. n - 1 : j[m] = k[m]
Best(columns, n) ==
  {c \in DOMAIN columns : Cardinality({d \in DOMAIN columns : Before(columns[d], columns[c])}) < n}

\* The rows a search by meaning can see.
InSpace == {c \in Chunk : Stored(c) /\ row[c].vector # NoVector /\ row[c].version = Current}

\* ChunkRepository.search: filtered before the limit, so what a person turned
\* down takes no result's place; results at one distance come in any order, here
\* in that of their creation.
Semantic(q) ==
  LET near == {c \in InSpace : ItemOf[c] \in q.admits /\ q.distance[c] <= MaxDistance}
  IN Best([c \in near |-> <<q.distance[c], c>>], q.limit)

\* search_lexical needs no vector: words can be read once they are stored.
Lexical(q) ==
  LET told == {c \in Chunk : Stored(c) /\ ItemOf[c] \in q.admits /\ q.covers[c] >= MinCoverage}
  IN Best([c \in told |-> <<-q.covers[c], ItemOf[c], c>>], q.limit)

\* best_effort and the tool's "auto": by meaning if the model has any.
Mode(asked, meaning) == IF asked = "auto" THEN IF meaning THEN "semantic" ELSE "lexical" ELSE asked
Hits(q, mode) == IF mode = "semantic" THEN Semantic(q) ELSE Lexical(q)
Relevance(q, c, mode) ==
  IF mode = "lexical" THEN IF q.covers[c] = Words THEN "strong" ELSE "partial"
  ELSE IF q.distance[c] <= Strong THEN "strong" ELSE "moderate"

-----------------------------------------------------------------------------
(* How items compare with each other *)

\* An item's first chunk with a vector speaks for it; one without has no place.
Placed == {i \in Items : \E c \in InSpace : ItemOf[c] = i}
Focus(i) == Min({c \in InSpace : ItemOf[c] = i})
Embeddings(items) == [i \in items \cap Placed |-> row[Focus(i)].vector]

\* semantic_neighbors: an item is as near as its closest chunk is to the focus,
\* and nothing is near an item that has no vector.
Closest(q, i) == Min({q.distance[c] : c \in {d \in InSpace : ItemOf[d] = i}})
Neighbours(i, q) ==
  IF i \notin Placed THEN {}
  ELSE Best([j \in {k \in (Placed \cap q.admits) \ {i} : Closest(q, k) <= MaxDistance} |->
               <<Closest(q, j), j>>], q.limit)

-----------------------------------------------------------------------------
(* What a caller is told *)

\* indexing_status, read in a transaction after the results
Indexing(items) ==
  [items |-> Cardinality(items), chunks |-> Cardinality({c \in Chunk : Stored(c)}),
   embedded |-> Cardinality({c \in Chunk : Stored(c) /\ row[c].vector # NoVector})]
Unindexed(s) == s.items > 0 /\ s.chunks = 0
Pending(s)   == s.chunks - s.embedded

\* kae_search_knowledge's warnings
Warnings(hits, s, mode) ==
  (IF hits # {} THEN {} ELSE IF Unindexed(s) THEN {"nothing is indexed"} ELSE {"nothing matched"})
  \cup (IF Pending(s) > 0 /\ mode = "semantic" THEN {"some are not embedded"} ELSE {})

\* paginate: the page at an offset, and where the next one starts, if any.
Page(results, offset) ==
  LET end == Min({offset + PageSize, Cardinality(results)})
  IN [total |-> Cardinality(results), number |-> offset \div PageSize + 1,
      cursor |-> IF end < Cardinality(results) THEN end ELSE 0]

\* The tool answers with the mode it was asked for, the HTTP interface with the
\* best there is and everything at once.
Answer(q, asked, meaning, offset) ==
  LET mode == Mode(asked, meaning)
      hits == Hits(q, mode)
  IN [mode |-> mode, page |-> Page(hits, offset), matched |-> {ItemOf[c] : c \in hits},
      relevance |-> [c \in hits |-> Relevance(q, c, mode)],
      warnings |-> Warnings(hits, Indexing(Items), mode)]
BestAnswer(q, meaning) ==
  [mode |-> Mode("auto", meaning), hits |-> Hits(q, Mode("auto", meaning)), index |-> Indexing(Items)]

-----------------------------------------------------------------------------
(* Properties *)

\* Vectors under one version come from one model, so no ranking mixes two spaces:
\* what a question is compared with, and what items are compared by, comes from
\* the model the question is embedded with, although a search selects by version
\* only (chunks.EMBEDDING_VERSION).
OneModelPerSpace ==
  /\ \A c, d \in {e \in Chunk : Stored(e) /\ row[e].vector # NoVector} :
       row[c].version = row[d].version => row[c].vector.model = row[d].vector.model
  /\ \A a \in Actor :
       LET q == Widest(ModelOf[a])
       IN /\ \A c \in Semantic(q) : row[c].vector.model = q.model
          /\ \A i \in Items : \A j \in Neighbours(i, q) :
               \A k \in {i, j} : Embeddings({i, j})[k].model = q.model
=============================================================================
