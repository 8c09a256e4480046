----------------------------- MODULE Embeddings -----------------------------
(***************************************************************************)
(* The store of document embeddings (ai/embeddings.rs): a table of the     *)
(* database, when there is one, and the cache that searches are answered   *)
(* from.  The components of vectors are integers, and similarities are     *)
(* compared as fractions, without rounding.                                *)
(***************************************************************************)
EXTENDS Parts, Integers, Sequences, FiniteSets, Functions

CONSTANTS
  EmbeddingId, Paper,   \* ids of embeddings, and documents
  Vector,               \* the vectors, sequences of integers
  Threshold,            \* similarity_threshold, in hundredths
  Limit,                \* how many results are asked for
  MaxEmbeddings         \* bound: the calls

ASSUME EmbeddingAssumption ==
  /\ Vector \subseteq Seq(Int)
  /\ Threshold \in 1 .. 100 /\ Limit \in Nat \ {0} /\ MaxEmbeddings \in Nat

VARIABLES
  cache,    \* local_cache
  table,    \* the rows of `embedding`, by id
  found,    \* the last answer of a search, and of whom it was asked
  embeddingCalls

embeddingVars == <<cache, table, found, embeddingCalls>>

-----------------------------------------------------------------------------
Dot(a, b) == SumFunction([i \in DOMAIN a |-> a[i] * b[i]])

(* cosine_similarity, as its sign and the fraction that is its square. *)
Similarity(a, b) ==
  IF Len(a) # Len(b) \/ Dot(a, a) = 0 \/ Dot(b, b) = 0
  THEN [sign |-> 1, over |-> 0, under |-> 1]
  ELSE [sign |-> IF Dot(a, b) < 0 THEN -1 ELSE 1,
        over |-> Dot(a, b) * Dot(a, b), under |-> Dot(a, a) * Dot(b, b)]

AtLeast(s, hundredths) ==
  s.sign = 1 /\ s.over * 10000 >= hundredths * hundredths * s.under

(* SearchResult's order, of results above the threshold. *)
Higher(s, t) == s.over * t.under > t.over * s.under

ScoreAgainst(query, e) == Similarity(query, e.vector)

(* A stable sort, by decreasing score: what stands before the i-th is more  *)
(* similar, or as similar and stood before it already.                     *)
Earlier(query, es, j, i) ==
  LET s == ScoreAgainst(query, es[j])
      t == ScoreAgainst(query, es[i])
  IN Higher(s, t) \/ (~Higher(t, s) /\ j < i)

Sorted(query, es) ==
  [k \in DOMAIN es |->
     es[CHOOSE i \in DOMAIN es :
          Cardinality({j \in DOMAIN es : Earlier(query, es, j, i)}) = k - 1]]

(* Mutant: the last ones are kept. *)
TruncatedFront(es, limit) == SubSeq(es, IF Len(es) < limit THEN 1 ELSE Len(es) - limit + 1, Len(es))

Truncated(es, limit) == SubSeq(es, 1, IF Len(es) < limit THEN Len(es) ELSE limit)

AboveThreshold(query) ==
  Those(cache, {i \in DOMAIN cache : AtLeast(ScoreAgainst(query, cache[i]), Threshold)})

(* Mutant: the candidates are cut before they are sorted. *)
SearchCutFirst(query, limit) ==
  IF query = << >> THEN << >>
  ELSE Sorted(query, Truncated(AboveThreshold(query), limit))

(* search *)
Search(query, limit) ==
  IF query = << >> THEN << >>
  ELSE Truncated(Sorted(query, AboveThreshold(query)), limit)

-----------------------------------------------------------------------------
Connected == ~Risk("no_database")
EmbeddingCalled == embeddingCalls < MaxEmbeddings /\ embeddingCalls' = embeddingCalls + 1

(* The CREATE: of an id that is there it does nothing, and store takes the  *)
(* error, which is inside the answer, for success.  A query may fail.      *)
Created(e) ==
  \/ /\ Connected
     /\ table' = (IF e.id \in DOMAIN table THEN table ELSE Put(table, e.id, e))
  \/ (~Connected \/ Risk("failing")) /\ UNCHANGED table

Cached(e) ==
  cache' = (IF \E i \in DOMAIN cache : cache[i].id = e.id
            THEN [i \in DOMAIN cache |-> IF cache[i].id = e.id THEN e ELSE cache[i]]
            ELSE Append(cache, e))

(* store *)
Store(e) ==
  /\ EmbeddingCalled
  /\ (\E i \in DOMAIN cache : cache[i].id = e.id) => Risk("again")
  /\ Created(e)
  /\ Cached(e)
  /\ UNCHANGED found

(* Mutant: the embedding that has the document's name goes from the cache. *)
CacheLeftById(doc) == Those(cache, {i \in DOMAIN cache : cache[i].id # doc})

CacheLeft(doc) == Those(cache, {i \in DOMAIN cache : cache[i].document_id # doc})

(* delete, whose query may fail too. *)
Delete(doc) ==
  /\ EmbeddingCalled
  /\ \/ /\ Connected
        /\ table' = [x \in {y \in DOMAIN table : table[y].document_id # doc} |-> table[x]]
     \/ (~Connected \/ Risk("failing")) /\ UNCHANGED table
  /\ cache' = CacheLeft(doc)
  /\ UNCHANGED found

Answered(query) ==
  /\ found' = [query |-> query, results |-> Search(query, Limit), among |-> cache]
  /\ UNCHANGED <<cache, table>>

SearchFor(query) == EmbeddingCalled /\ Answered(query)

(* search_by_document_id: the document's first embedding is looked for. *)
SearchByDocumentId(doc) ==
  /\ EmbeddingCalled
  /\ \E i \in DOMAIN cache :
       /\ cache[i].document_id = doc
       /\ \A j \in 1 .. i - 1 : cache[j].document_id # doc
       /\ Answered(cache[i].vector)

(* count *)
Count == IF Connected THEN Cardinality(DOMAIN table) ELSE Len(cache)

(* The program starts anew: EmbeddingStore::new does not read the table. *)
NewStore ==
  /\ EmbeddingCalled
  /\ Risk("restart")
  /\ cache' = << >>
  /\ UNCHANGED <<table, found>>

NothingFound == [query |-> << >>, results |-> << >>, among |-> << >>]

EmbeddingInit ==
  /\ cache = << >>
  /\ table = << >>
  /\ found = NothingFound
  /\ embeddingCalls = 0

EmbeddingNext ==
  /\ Moves("embeddings") /\ UNCHANGED mix
  /\ \/ \E x \in EmbeddingId, doc \in Paper, v \in Vector :
          Store([id |-> x, document_id |-> doc, vector |-> v])
     \/ \E doc \in Paper : Delete(doc) \/ SearchByDocumentId(doc)
     \/ \E v \in Vector : SearchFor(v)
     \/ NewStore

Embedded == [id : EmbeddingId, document_id : Paper, vector : Vector]
EmbeddingTypeOK ==
  /\ \A i \in DOMAIN cache : cache[i] \in Embedded
  /\ \A x \in DOMAIN table : table[x] \in Embedded
  /\ embeddingCalls \in 0 .. MaxEmbeddings

-----------------------------------------------------------------------------
(* "The cache is kept in sync via store / delete": an id stands once in the *)
(* cache, and it holds what the table holds, so that count agrees with it; *)
(* unless an id is stored again, a query fails, or the program restarts.   *)
CacheInSync ==
  /\ \A i, j \in DOMAIN cache : cache[i].id = cache[j].id => i = j
  /\ Safe({"again", "failing", "restart"}) =>
       /\ Count = Len(cache)
       /\ Connected => {cache[i] : i \in DOMAIN cache} = {table[x] : x \in DOMAIN table}

(* The results are cached embeddings, each once, none less similar than the *)
(* one after it; what is left out is not above the threshold, or there are  *)
(* as many as asked for and it is not more similar than the last.          *)
MostSimilarFirst ==
  LET rs == found.results
      similarity(e) == ScoreAgainst(found.query, e)
  IN /\ \A i, j \in DOMAIN rs : i < j =>
          rs[i].id # rs[j].id /\ ~Higher(similarity(rs[j]), similarity(rs[i]))
     /\ \A i \in DOMAIN found.among :
          LET e == found.among[i] IN
            \/ \E j \in DOMAIN rs : rs[j] = e
            \/ ~AtLeast(similarity(e), Threshold)
            \/ Len(rs) = Limit /\ ~Higher(similarity(e), similarity(rs[Limit]))

(* A document that is looked for by what it holds leads the results, or one *)
(* like it does; unless its vector is zero or empty.                       *)
OwnLikeFirst ==
  (/\ \E i \in DOMAIN found.among : found.among[i].vector = found.query
   /\ Dot(found.query, found.query) > 0) =>
    /\ found.results # << >>
    /\ AtLeast(ScoreAgainst(found.query, found.results[1]), 100)
=============================================================================
