---------------------------- MODULE RequestBody -----------------------------
(***************************************************************************)
(* A streaming request body (src/request, src/extractor/streaming.rs and   *)
(* src/extractor/request.rs): a bounded channel of chunks, the slot of the *)
(* MessageRequest that holds its stream, the extractors of a handler that  *)
(* compete for it, and the reader that turns chunks into bytes.            *)
(* The bytes of a body are numbered from 1.                                *)
(***************************************************************************)
EXTENDS Naturals, Sequences, FiniteSets, SequencesExt

CONSTANTS
    Extractors,     \* StreamingBody extractors run on the request
    Capacity,       \* of body_channel
    ChunkSizes,     \* lengths of the chunks sent, zero included
    MaxBytes,       \* bound: bytes of a body
    MaxErrors,      \* bound: errors the sender reports
    ReadSizes       \* buffer lengths of a read

VARIABLES
    slot,      \* body_stream of the request: "absent", "held" or "taken"
    owners,    \* extractors that were given the stream
    refused,   \* extractors answered MissingBodyStream
    queue,     \* chunks in the channel
    sent,      \* bytes sent so far
    errors,    \* errors sent so far
    sender,    \* "open", "closed" (dropped) or "failed" (the stream is gone)
    chunk,     \* what the reader has left of the current chunk
    read,      \* bytes handed to the handler
    lost,      \* bytes dropped by into_inner
    stream     \* "open", "ended" once a read returned no byte, "dropped"

bodyVars == <<slot, owners, refused, queue, sent, errors, sender, chunk, read, lost, stream>>

BodyInit ==
    /\ slot = "absent" /\ owners = {} /\ refused = {} /\ queue = <<>> /\ sent = 0 /\ errors = 0
    /\ sender = "open" /\ chunk = <<>> /\ read = <<>> /\ lost = {} /\ stream = "open"

Chunk(from, length) == [ok |-> TRUE, bytes |-> [i \in 1..length |-> from + i]]
Failure == [ok |-> FALSE, bytes |-> <<>>]

\* The connection pushes a chunk or an error; it waits while the channel is
\* full (body_channel).
Send ==
    /\ sender = "open" /\ stream # "dropped" /\ Len(queue) < Capacity
    /\ \/ \E length \in ChunkSizes :
            /\ sent + length <= MaxBytes /\ sent' = sent + length
            /\ queue' = Append(queue, Chunk(sent, length)) /\ UNCHANGED errors
       \/ /\ errors < MaxErrors /\ errors' = errors + 1
          /\ queue' = Append(queue, Failure) /\ UNCHANGED sent
    /\ UNCHANGED <<slot, owners, refused, sender, chunk, read, lost, stream>>

SendFails ==
    /\ sender = "open" /\ stream = "dropped" /\ sender' = "failed"
    /\ UNCHANGED <<slot, owners, refused, queue, sent, errors, chunk, read, lost, stream>>

DropSender ==
    /\ sender = "open" /\ sender' = "closed"
    /\ UNCHANGED <<slot, owners, refused, queue, sent, errors, chunk, read, lost, stream>>

set_body_stream ==
    /\ slot = "absent" /\ slot' = "held"
    /\ UNCHANGED <<owners, refused, queue, sent, errors, sender, chunk, read, lost, stream>>

\* take_body_stream, under the mutex of the slot.
take_body_stream(e) ==
    IF slot = "held" THEN owners' = owners \cup {e} /\ slot' = "taken" /\ UNCHANGED refused
    ELSE refused' = refused \cup {e} /\ UNCHANGED <<slot, owners>>

\* StreamingBody::from_message_request.
ExtractBody(e) ==
    /\ e \notin owners \cup refused /\ take_body_stream(e)
    /\ UNCHANGED <<queue, sent, errors, sender, chunk, read, lost, stream>>

Reading == owners # {} /\ stream = "open"

\* Mutant: a chunk without bytes ends the body.
Fill_EmptyIsEnd ==
    /\ Reading /\ chunk = <<>> /\ queue # <<>> /\ queue' = Tail(queue)
    /\ chunk' = Head(queue).bytes
    /\ stream' = IF Head(queue).ok /\ Head(queue).bytes = <<>> THEN "ended" ELSE stream
    /\ UNCHANGED <<slot, owners, refused, sent, errors, sender, read, lost>>

\* poll_read with nothing left of a chunk: the next one is fetched; an error
\* is returned to the handler, which may read on.
Fill ==
    /\ Reading /\ chunk = <<>> /\ queue # <<>> /\ queue' = Tail(queue)
    /\ chunk' = Head(queue).bytes
    /\ UNCHANGED <<slot, owners, refused, sent, errors, sender, read, lost, stream>>

\* poll_read copies what fits and keeps the rest for the next read.
Copy ==
    /\ Reading /\ chunk # <<>>
    /\ \E size \in ReadSizes :
         LET n == IF size < Len(chunk) THEN size ELSE Len(chunk)
         IN  /\ read' = read \o SubSeq(chunk, 1, n) /\ chunk' = SubSeq(chunk, n + 1, Len(chunk))
    /\ UNCHANGED <<slot, owners, refused, queue, sent, errors, sender, lost, stream>>

\* A read returns no byte: the sender is gone and the channel empty.
EndOfBody ==
    /\ Reading /\ chunk = <<>> /\ queue = <<>> /\ sender = "closed" /\ stream' = "ended"
    /\ UNCHANGED <<slot, owners, refused, queue, sent, errors, sender, chunk, read, lost>>

\* RequestBodyReader::into_inner: the rest of the chunk is discarded and the
\* stream goes on with the next one.
into_inner ==
    /\ Reading /\ chunk # <<>> /\ lost' = lost \cup ToSet(chunk) /\ chunk' = <<>>
    /\ UNCHANGED <<slot, owners, refused, queue, sent, errors, sender, read, stream>>

\* The handler drops the stream, or the request does before it was taken.
DropStream ==
    /\ stream = "open" /\ slot # "absent" /\ stream' = "dropped" /\ queue' = <<>> /\ chunk' = <<>>
    /\ UNCHANGED <<slot, owners, refused, sent, errors, sender, read, lost>>

BodyNext ==
    \/ Send \/ SendFails \/ DropSender \/ set_body_stream \/ Fill \/ Copy \/ EndOfBody
    \/ into_inner \/ DropStream
    \/ \E e \in Extractors : ExtractBody(e)

-----------------------------------------------------------------------------
InChannel == UNION {ToSet(queue[i].bytes) : i \in DOMAIN queue}

\* One extractor of a request gets its body, however many ask; it reads every
\* byte at most once and in the order sent, misses none but those into_inner
\* gave up, and is told the body ended only when the sender is gone and every
\* byte was read (RequestBodyReader, take_body_stream, body_channel).
BodyReadOnce ==
    /\ Cardinality(owners) <= 1
    /\ \A i, j \in DOMAIN read : i < j => read[i] < read[j]
    /\ stream # "dropped" => ToSet(read) \cup lost \cup ToSet(chunk) \cup InChannel = 1..sent
    /\ stream = "ended" => sender = "closed" /\ ToSet(read) \cup lost = 1..sent
=============================================================================
