----------------------------- MODULE Documents -----------------------------
(***************************************************************************)
(* Documents: the document agent (agents/document.rs), which stores them   *)
(* in the table `document` when it has a database, and the repositories    *)
(* (database/document.rs), of the database (the risk "database") and in    *)
(* memory, over rows of their own.  The id of a database row is a record   *)
(* id, which no text equals: a query by id finds none.                     *)
(***************************************************************************)
EXTENDS Parts, Integers, Sequences, FiniteSets, SequencesExt

CONSTANTS
  DocumentId,
  Content,       \* contents: sequences of bytes
  MaxDocuments   \* bound: the calls

ASSUME DocumentAssumption ==
  /\ \A c \in Content : c \in Seq(0 .. 255)
  /\ MaxDocuments \in Nat

VARIABLES
  rows,      \* the rows: id, content, and the field that has it
  saved,     \* id -> the content that a save or update has last confirmed (history)
  retrieved, \* what the agent's last retrieval has answered, NoAnswer before
  documentCalls

documentVars == <<rows, saved, retrieved, documentCalls>>

InDatabase == Risk("database")
NoAnswer == << >>

-----------------------------------------------------------------------------
(* base64_encode: of each three bytes four digits, Padding for those of     *)
(* bytes that are missing.                                                 *)
Padding == 64

Digits(chunk) ==
  LET byte(i) == IF i <= Len(chunk) THEN chunk[i] ELSE 0
      n == byte(1) * 65536 + byte(2) * 256 + byte(3)
  IN <<n \div 262144, (n \div 4096) % 64,
       IF Len(chunk) > 1 THEN (n \div 64) % 64 ELSE Padding,
       IF Len(chunk) > 2 THEN n % 64 ELSE Padding>>

Chunks(s, size) ==
  [i \in 1 .. (Len(s) + size - 1) \div size |->
     SubSeq(s, (i - 1) * size + 1, IF i * size < Len(s) THEN i * size ELSE Len(s))]

Base64Encode(content) == FlattenSeq([i \in DOMAIN Chunks(content, 3) |->
                                       Digits(Chunks(content, 3)[i])])

(* decode_char: what is no digit counts as zero. *)
DigitValue(digit) == IF digit = Padding THEN 0 ELSE digit

(* Mutant: the padding is decoded as well. *)
BytesPadded(chunk) ==
  LET n == DigitValue(chunk[1]) * 262144 + DigitValue(chunk[2]) * 4096
             + DigitValue(chunk[3]) * 64 + DigitValue(chunk[4])
  IN <<n \div 65536, (n \div 256) % 256, n % 256>>

Bytes(chunk) ==
  LET n == DigitValue(chunk[1]) * 262144 + DigitValue(chunk[2]) * 4096
             + DigitValue(chunk[3]) * 64 + DigitValue(chunk[4])
  IN <<n \div 65536>> \o (IF chunk[3] # Padding THEN <<(n \div 256) % 256>> ELSE << >>)
       \o (IF chunk[4] # Padding THEN <<n % 256>> ELSE << >>)

Base64Decode(digits) == FlattenSeq([i \in DOMAIN Chunks(digits, 4) |->
                                      Bytes(Chunks(digits, 4)[i])])

-----------------------------------------------------------------------------
DocumentRow(id, field, content) == [id |-> id, field |-> field, digits |-> Base64Encode(content)]

(* parse_document reads the field `content`; the agent writes content_b64.  *)
ParseContent(row) == IF row.field = "content" THEN Base64Decode(row.digits) ELSE << >>

(* Rows that a query by id finds. *)
WithDocumentId(id) == {i \in DOMAIN rows : ~InDatabase /\ rows[i].id = id}

Confirmed(id, content) ==
  saved' = [x \in DOMAIN saved \cup {id} |-> IF x = id THEN content ELSE saved[x]]
Called == documentCalls < MaxDocuments /\ documentCalls' = documentCalls + 1

(* store_document: a failure to persist is only logged. *)
StoreDocument(id, content) ==
  /\ Called
  /\ \/ InDatabase /\ rows' = Append(rows, DocumentRow(id, "content_b64", content))
     \/ UNCHANGED rows
  /\ UNCHANGED <<saved, retrieved>>

(* retrieve_document: what it does not find it answers with a stub. *)
Stub == [content |-> << >>, stub |-> TRUE]

(* Mutant: rows are found by the text of their ids. *)
FoundByText(id) == {i \in DOMAIN rows : InDatabase /\ rows[i].id = id}

Found(id) == {i \in WithDocumentId(id) : InDatabase}

RetrieveDocument(id) ==
  /\ Called
  /\ retrieved' = IF Found(id) = {} THEN Stub
                  ELSE [content |-> Base64Decode(rows[CHOOSE i \in Found(id) : TRUE].digits),
                        stub |-> FALSE]
  /\ UNCHANGED <<rows, saved>>

-----------------------------------------------------------------------------
(* The rows of other documents. *)
Others(id) == Those(rows, {i \in DOMAIN rows : rows[i].id # id})

(* MemoryDocumentRepository::save replaces the row; in the database a save  *)
(* always creates one.                                                     *)
Saved(id, row) ==
  IF InDatabase THEN Append(rows, row)
  ELSE Append(Others(id), row)

Save(id, content) ==
  /\ Called
  /\ rows' = Saved(id, DocumentRow(id, "content", content))
  /\ Confirmed(id, content)
  /\ UNCHANGED retrieved

(* update: NotFound where the query by id finds no row. *)
UpdateDocument(id, content) ==
  /\ Called
  /\ WithDocumentId(id) # {}
  /\ rows' = [i \in DOMAIN rows |->
                IF i \in WithDocumentId(id) THEN DocumentRow(id, "content", content) ELSE rows[i]]
  /\ Confirmed(id, content)
  /\ UNCHANGED retrieved

(* delete: false where it finds none. *)
DeleteDocument(id) ==
  /\ Called
  /\ WithDocumentId(id) # {}
  /\ rows' = Others(id)
  /\ saved' = [x \in DOMAIN saved \ {id} |-> saved[x]]
  /\ UNCHANGED retrieved

DocumentInit ==
  /\ rows = << >>
  /\ saved = [id \in {} |-> << >>]
  /\ retrieved = NoAnswer
  /\ documentCalls = 0

DocumentNext ==
  /\ Moves("documents")
  /\ UNCHANGED mix
  /\ \E id \in DocumentId :
       \/ \E content \in Content :
            StoreDocument(id, content) \/ Save(id, content) \/ UpdateDocument(id, content)
       \/ RetrieveDocument(id) \/ DeleteDocument(id)

DocumentTypeOK ==
  /\ \A i \in DOMAIN rows : rows[i].id \in DocumentId
  /\ DOMAIN saved \subseteq DocumentId

-----------------------------------------------------------------------------
(* A document that was saved is listed once, with the content it was last   *)
(* given, and one that was deleted is not; in the database it is listed    *)
(* once for each save, and can neither be updated nor deleted.             *)
ListedOnce ==
  Safe({"database"}) =>
    /\ {rows[i].id : i \in DOMAIN rows} = DOMAIN saved
    /\ \A i, j \in DOMAIN rows : rows[i].id = rows[j].id => i = j
    /\ \A i \in DOMAIN rows : ParseContent(rows[i]) = saved[rows[i].id]

(* No retrieval finds what was stored: each one "succeeds" with a stub, in  *)
(* the database as without one.                                            *)
OnlyStubs == retrieved \in {NoAnswer, Stub}
=============================================================================
