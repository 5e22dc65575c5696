----------------------------- MODULE Ingestion -----------------------------
(***************************************************************************)
(* The ingestion and retrieval contexts of apps/api: uploaded documents,   *)
(* the files and chunks they are kept as, and the embeddings of the        *)
(* chunks.  Requests are transactions, as in Reporting; a file is written  *)
(* to disk at once and stays, whatever becomes of the transaction.         *)
(*                                                                         *)
(* Abstracted: bytes, to the text a parser makes of them (see Chunking);   *)
(* sizes; vectors.  One embedding model.  The two searches only read.      *)
(* Every caller is a member of every engagement.                           *)
(***************************************************************************)
EXTENDS Chunking

CONSTANTS
    Engagement,   \* engagements
    Content,      \* distinct byte strings: sha256_hash tells them apart
    MimeType,     \* content types an upload may claim
    Document,     \* identifiers documents may be given
    Worker,       \* concurrent requests
    Parsed,       \* the text of a content parsed as a type, None if that fails
    None

ASSUME ParsedAssumption ==
    /\ Parsed \in [MimeType \X Content -> Text \cup {None}]
    /\ None \notin Text

VARIABLES
    documents,   \* ingestion.documents
    chunks,      \* ingestion.chunks: document and chunk_index
    files,       \* the documents whose file the blob storage holds
    embeddings,  \* retrieval.chunk_embeddings: chunk and engagement_id
    requests,    \* what each worker is doing
    answers,     \* history: the document each upload was answered with
    embedded     \* history: the sum of the embedded_counts answered

vars == <<documents, chunks, files, embeddings, requests, answers, embedded>>

DocumentRow ==
    [engagement : Engagement, content : Content, mime_type : MimeType,
     status : {"parsed", "failed"}]

Chunk == Document \X Nat

Answer == [engagement : Engagement, content : Content, document : Document]

Idle == [step |-> "idle"]

UploadRequest ==
    [step : {"selected", "stored"}, document : Document, engagement : Engagement,
     content : Content, mime_type : MimeType]

EmbedRequest ==
    [step : {"listed"}, engagement : Engagement, listed : SUBSET Chunk]

ASSUME NoneAssumption == None \notin DocumentRow

Init ==
    /\ documents = [d \in Document |-> None]
    /\ chunks = {}
    /\ files = {}
    /\ embeddings = {}
    /\ requests = [p \in Worker |-> Idle]
    /\ answers = {}
    /\ embedded = 0

Done(p) == requests' = [requests EXCEPT ![p] = Idle]

----------------------------------------------------------------------------
(***************************************************************************)
(* ingest_document                                                         *)
(***************************************************************************)
Holds(d, e, c) ==
    /\ documents[d] # None
    /\ documents[d].engagement = e
    /\ documents[d].content = c

\* get_by_hash finds one: a duplicate is answered with the document that is there.
AnswerExisting(p, e, c, d) ==
    /\ requests[p] = Idle
    /\ Holds(d, e, c)
    /\ answers' = answers \cup {[engagement |-> e, content |-> c, document |-> d]}
    /\ UNCHANGED <<documents, chunks, files, embeddings, requests, embedded>>

Unused(d) ==
    /\ documents[d] = None
    /\ d \notin files
    /\ \A p \in Worker : requests[p].step \in {"selected", "stored"} => requests[p].document # d

BeginUpload(p, e, c, m, d) ==
    /\ requests[p] = Idle
    /\ \A other \in Document : ~ Holds(other, e, c)
    /\ Unused(d)
    /\ requests' = [requests EXCEPT ![p] =
          [step |-> "selected", document |-> d, engagement |-> e, content |-> c,
           mime_type |-> m]]
    /\ UNCHANGED <<documents, chunks, files, embeddings, answers, embedded>>

StoreFile(p) ==
    /\ requests[p].step = "selected"
    /\ files' = files \cup {requests[p].document}
    /\ requests' = [requests EXCEPT ![p].step = "stored"]
    /\ UNCHANGED <<documents, chunks, embeddings, answers, embedded>>

\* Mutated form: the constraint is not there.
NeverTaken(p) == FALSE

\* The unique constraint on engagement and hash.
ContentTaken(p) ==
    \E d \in Document : Holds(d, requests[p].engagement, requests[p].content)

RefuseUpload(p) ==
    /\ requests[p].step = "stored"
    /\ ContentTaken(p)
    /\ Done(p)
    /\ UNCHANGED <<documents, chunks, files, embeddings, answers, embedded>>

ParsedFor(p) == Parsed[<<requests[p].mime_type, requests[p].content>>]

CountFor(p) == Len(ChunkText(ParsedFor(p)))

\* Mutated form: the last chunk is lost, an off-by-one.
ChunksButLast(p) == {<<requests[p].document, i>> : i \in 1 .. (CountFor(p) - 1)}

ChunksOf(p) == {<<requests[p].document, i>> : i \in 0 .. (CountFor(p) - 1)}

\* Mutated form: the status create gave the row is never changed.
ReceivedRow(p) ==
    [engagement |-> requests[p].engagement, content |-> requests[p].content,
     mime_type |-> requests[p].mime_type, status |-> "received"]

ParsedRow(p) ==
    [engagement |-> requests[p].engagement, content |-> requests[p].content,
     mime_type |-> requests[p].mime_type, status |-> "parsed"]

\* INSERT, parse, chunk, and commit: the row the others wait for or find.
CommitUpload(p) ==
    LET q == requests[p]
    IN  /\ q.step = "stored"
        /\ ~ ContentTaken(p)
        /\ ParsedFor(p) # None
        /\ documents' = [documents EXCEPT ![q.document] = ParsedRow(p)]
        /\ chunks' = chunks \cup ChunksOf(p)
        /\ answers' = answers \cup
              {[engagement |-> q.engagement, content |-> q.content,
                document |-> q.document]}
        /\ Done(p)
        /\ UNCHANGED <<files, embeddings, embedded>>

\* The parser raises: the row is set to failed, the exception goes on, and the
\* transaction of both is rolled back.
ParseFails(p) ==
    LET q == requests[p]
    IN  /\ q.step = "stored"
        /\ ~ ContentTaken(p)
        /\ ParsedFor(p) = None
        /\ Done(p)
        /\ UNCHANGED <<documents, chunks, files, embeddings, answers, embedded>>

----------------------------------------------------------------------------
(***************************************************************************)
(* embed_document                                                          *)
(***************************************************************************)
\* list_chunk_texts, whatever engagement the path names.
BeginEmbed(p, e, d) ==
    LET listed == {c \in chunks : c[1] = d}
    IN  /\ requests[p] = Idle
        /\ listed # {}
        /\ requests' = [requests EXCEPT ![p] =
              [step |-> "listed", engagement |-> e, listed |-> listed]]
        /\ UNCHANGED <<documents, chunks, files, embeddings, answers, embedded>>

Embedded(c) == \E row \in embeddings : row[1] = c

\* Mutated form: a row for each engagement that asks.
NotEmbeddedHere(p) == {c \in requests[p].listed : <<c, requests[p].engagement>> \notin embeddings}

\* ON CONFLICT (chunk_id, model_id) DO NOTHING.
NotEmbedded(p) == {c \in requests[p].listed : ~ Embedded(c)}

CommitEmbeddings(p) ==
    /\ requests[p].step = "listed"
    /\ embeddings' = embeddings \cup {<<c, requests[p].engagement>> : c \in NotEmbedded(p)}
    /\ embedded' = embedded + Cardinality(NotEmbedded(p))
    /\ Done(p)
    /\ UNCHANGED <<documents, chunks, files, answers>>

----------------------------------------------------------------------------
\* The transaction rolls back.
Fail(p) ==
    /\ requests[p] # Idle
    /\ Done(p)
    /\ UNCHANGED <<documents, chunks, files, embeddings, answers, embedded>>

Next ==
    \/ \E p \in Worker, e \in Engagement, c \in Content, d \in Document :
          AnswerExisting(p, e, c, d)
    \/ \E p \in Worker, e \in Engagement, c \in Content, m \in MimeType, d \in Document :
          BeginUpload(p, e, c, m, d)
    \/ \E p \in Worker : StoreFile(p)
    \/ \E p \in Worker : RefuseUpload(p)
    \/ \E p \in Worker : CommitUpload(p)
    \/ \E p \in Worker : ParseFails(p)
    \/ \E p \in Worker, e \in Engagement, d \in Document : BeginEmbed(p, e, d)
    \/ \E p \in Worker : CommitEmbeddings(p)
    \/ \E p \in Worker : Fail(p)

Spec == Init /\ [][Next]_vars

----------------------------------------------------------------------------
(***************************************************************************)
(* Properties                                                              *)
(***************************************************************************)
\* Rows, files and requests are well formed.
TypeOK ==
    /\ documents \in [Document -> DocumentRow \cup {None}]
    /\ chunks \subseteq Chunk
    /\ files \subseteq Document
    /\ embeddings \subseteq Chunk \X Engagement
    /\ requests \in [Worker -> {Idle} \cup UploadRequest \cup EmbedRequest]
    /\ answers \subseteq Answer
    /\ embedded \in Nat

\* However many requests upload the same file at once and whichever of them
\* fail, an engagement has one document of it, and all the uploads that were
\* answered were answered with that one.
OneDocumentPerContent ==
    /\ \A d, other \in Document :
          documents[d] # None /\ documents[other] # None
             /\ documents[d].engagement = documents[other].engagement
             /\ documents[d].content = documents[other].content => d = other
    /\ \A a \in answers : Holds(a.document, a.engagement, a.content)

\* A document anyone can see is complete: its file is on disk, and its chunks
\* are all those of the parse of its first upload; no chunk is of another.
DocumentsWhole ==
    /\ \A d \in Document : documents[d] # None =>
          /\ d \in files
          /\ {c \in chunks : c[1] = d} =
                {d} \X (0 .. (Len(ChunkText(Parsed[<<documents[d].mime_type,
                                                     documents[d].content>>])) - 1))
    /\ \A c \in chunks : documents[c[1]] # None

\* The stored chunks of a document hold every word of its text; and whatever the
\* lengths of a text's paragraphs and their order, the chunks cut from it lose or
\* move no word, split no paragraph that fits and keep to the sizes of Chunking.
StoredTextWhole ==
    /\ TextsWellChunked
    /\ \A d \in Document : documents[d] # None =>
          LET text == Parsed[<<documents[d].mime_type, documents[d].content>>]
          IN  UNION {ToSet(ChunkText(text)[c[2] + 1]) : c \in {x \in chunks : x[1] = d}}
                 = 1 .. EndOfBlock(text, Len(text))

\* A document is embedded whole or not at all and each chunk once, though
\* requests to embed it overlap and repeat; and the counts they were answered
\* with add up to the rows there are.
EmbeddedOnce ==
    /\ \A d \in Document :
          LET ofDocument == {c \in chunks : c[1] = d}
          IN  {c \in ofDocument : Embedded(c)} \in {{}, ofDocument}
    /\ \A row, other \in embeddings : row[1] = other[1] => row = other
    /\ embedded = Cardinality(embeddings)
=============================================================================
