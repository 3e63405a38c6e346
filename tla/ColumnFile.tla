----------------------------- MODULE ColumnFile ------------------------------
(***************************************************************************)
(* One column of a row group on disk: ColumnWriter cuts the values into    *)
(* chunks and writes header and payload of each to a PagedOutputStream,    *)
(* which spreads the bytes over a chain of pages; ColumnReader gets them   *)
(* back through a PagedInputStream, decoding or skipping each payload      *)
(* (column/column_writer.cpp, column/column_reader.cpp,                    *)
(* storage/paged_stream.cpp).                                              *)
(*                                                                         *)
(* A byte is <<c, k>>: byte k of the header and payload of chunk c.  The   *)
(* length of a payload is up to the encoding.  One step of a stream is one *)
(* turn of its loop.                                                       *)
(***************************************************************************)
EXTENDS Integers, Sequences, SequencesExt

CONSTANTS
    PayloadCapacity,    \* bytes of a page
    HeaderSize,         \* bytes of a ChunkMeta
    kChunkRows,         \* rows of a chunk
    Payloads,           \* lengths an encoded payload may have
    MaxRows             \* bound: rows of the row group

ASSUME ColumnFileAssumption ==
    /\ PayloadCapacity \in Nat \ {0}
    /\ HeaderSize \in Nat \ {0}
    /\ kChunkRows \in Nat \ {0}
    /\ Payloads \subseteq Nat \ {0} /\ Payloads # {}
    /\ MaxRows \in Nat

kInvalidPageId == 0
NoPage == [bytes |-> <<>>, payload_bytes |-> 0, next |-> kInvalidPageId]
NoMeta == [num_rows |-> 0, byte_length |-> 0]

VARIABLES
    \* the writer
    wpc,            \* "append", "finish" or "finished"
    buffered,       \* rows in buffer_
    rows,           \* rows appended
    chunks,         \* the ChunkMeta of every chunk written
    todo,           \* bytes that Write has still to copy
    pages,          \* the pages of the column; the last one is current_page_
    \* the reader
    rpc,            \* "closed", "idle", "header", "payload", "skip" or "end"
    cur,            \* current_page_id_
    offset,         \* offset_ of the input stream
    at_end,         \* at_end_
    want,           \* bytes that Advance has still to consume
    got,            \* bytes it has consumed
    meta,           \* meta_
    consumed,       \* payload_consumed_
    resume,         \* whether NextChunk goes on after its SkipPayload
    nread           \* chunks that NextChunk has returned

writer == <<wpc, buffered, rows, chunks, todo, pages>>
reader == <<rpc, cur, offset, at_end, want, got, meta, consumed, resume, nread>>
vars == <<writer, reader>>

\* The constructors: the output stream starts with an empty page.
Init ==
    /\ wpc = "append" /\ buffered = 0 /\ rows = 0
    /\ chunks = <<>> /\ todo = <<>>
    /\ pages = <<NoPage>>
    /\ rpc = "closed" /\ cur = 0 /\ offset = 0 /\ at_end = FALSE
    /\ want = 0 /\ got = <<>>
    /\ meta = NoMeta /\ consumed = TRUE /\ resume = FALSE
    /\ nread = 0

-----------------------------------------------------------------------------
(* The writer.                                                             *)

\* FlushChunk: header and payload go to the stream.
FlushChunk(num_rows) ==
    \E len \in Payloads :
        /\ chunks' = Append(chunks, [num_rows |-> num_rows, byte_length |-> len])
        /\ todo' = [k \in 1 .. HeaderSize + len |-> <<Len(chunks) + 1, k>>]
        /\ buffered' = 0

\* Mutant: the chunk is flushed one row late.
AppendLate ==
    /\ wpc = "append" /\ todo = <<>>
    /\ rows < MaxRows
    /\ rows' = rows + 1
    /\ IF buffered + 1 > kChunkRows
       THEN FlushChunk(buffered + 1)
       ELSE buffered' = buffered + 1 /\ UNCHANGED <<chunks, todo>>
    /\ UNCHANGED <<wpc, pages, reader>>

AppendValue ==
    /\ wpc = "append" /\ todo = <<>>
    /\ rows < MaxRows
    /\ rows' = rows + 1
    /\ IF buffered + 1 >= kChunkRows
       THEN FlushChunk(buffered + 1)
       ELSE buffered' = buffered + 1 /\ UNCHANGED <<chunks, todo>>
    /\ UNCHANGED <<wpc, pages, reader>>

\* Mutant: the new page is started before it is linked.
StartNewPageUnlinked ==
    Append([pages EXCEPT ![Len(pages)].payload_bytes = Len(pages[Len(pages)].bytes)], NoPage)

\* StartNewPage: the current page gets its length and its link.
StartNewPage ==
    Append([pages EXCEPT ![Len(pages)].payload_bytes = Len(pages[Len(pages)].bytes),
                         ![Len(pages)].next = Len(pages) + 1],
           NoPage)

\* Mutant: the next page is started as soon as a page is full.
CopyOutEager ==
    LET room == PayloadCapacity - Len(Last(pages).bytes)
        take == IF room < Len(todo) THEN room ELSE Len(todo)
        full == [pages EXCEPT ![Len(pages)].bytes = @ \o SubSeq(todo, 1, take)]
    IN
    /\ todo # <<>>
    /\ pages' = IF take < room THEN full
                ELSE Append([full EXCEPT ![Len(pages)].payload_bytes = PayloadCapacity,
                                         ![Len(pages)].next = Len(pages) + 1], NoPage)
    /\ todo' = SubSeq(todo, take + 1, Len(todo))
    /\ UNCHANGED <<wpc, buffered, rows, chunks, reader>>

\* One turn of Write's loop: a new page if the current one is full, then as
\* many bytes as fit.
CopyOut ==
    LET ps == IF Len(Last(pages).bytes) = PayloadCapacity THEN StartNewPage ELSE pages
        room == PayloadCapacity - Len(Last(ps).bytes)
        take == IF room < Len(todo) THEN room ELSE Len(todo)
    IN
    /\ todo # <<>>
    /\ pages' = [ps EXCEPT ![Len(ps)].bytes = @ \o SubSeq(todo, 1, take)]
    /\ todo' = SubSeq(todo, take + 1, Len(todo))
    /\ UNCHANGED <<wpc, buffered, rows, chunks, reader>>

\* ColumnWriter::Finish flushes what is buffered ...
BeginFinish ==
    /\ wpc = "append" /\ todo = <<>>
    /\ IF buffered > 0 THEN FlushChunk(buffered) ELSE UNCHANGED <<chunks, todo, buffered>>
    /\ wpc' = "finish"
    /\ UNCHANGED <<rows, pages, reader>>

\* ... and finishes the stream: the last page gets its length.
EndFinish ==
    /\ wpc = "finish" /\ todo = <<>>
    /\ pages' = [pages EXCEPT ![Len(pages)].payload_bytes = Len(pages[Len(pages)].bytes),
                              ![Len(pages)].next = kInvalidPageId]
    /\ wpc' = "finished"
    /\ UNCHANGED <<buffered, rows, chunks, todo, reader>>

-----------------------------------------------------------------------------
(* The reader.                                                             *)

\* LoadPage: an empty page is the end of the stream.
LoadPage(p) ==
    /\ cur' = p
    /\ offset' = 0
    /\ at_end' = (at_end \/ pages[p].payload_bytes = 0)

\* A row group is read only after its columns are finished.
OpenReader ==
    /\ wpc = "finished"
    /\ rpc = "closed"
    /\ LoadPage(1)
    /\ rpc' = "idle"
    /\ UNCHANGED <<writer, want, got, meta, consumed, resume, nread>>

\* Mutant: NextChunk forgets that the payload has not been consumed.
NextChunkForgets ==
    /\ rpc = "idle"
    /\ IF at_end THEN rpc' = "end" /\ UNCHANGED want
       ELSE rpc' = "header" /\ want' = HeaderSize
    /\ got' = <<>> /\ UNCHANGED resume
    /\ UNCHANGED <<writer, cur, offset, at_end, meta, consumed, nread>>

\* NextChunk: skip an unread payload first; then the header, unless there is
\* no more.
NextChunk ==
    /\ rpc = "idle"
    /\ got' = <<>>
    /\ CASE ~ consumed -> rpc' = "skip" /\ want' = meta.byte_length /\ resume' = TRUE
         [] consumed /\ at_end -> rpc' = "end" /\ UNCHANGED <<want, resume>>
         [] OTHER -> rpc' = "header" /\ want' = HeaderSize /\ UNCHANGED resume
    /\ UNCHANGED <<writer, cur, offset, at_end, meta, consumed, nread>>

\* Decode reads the payload of the chunk.
Decode ==
    /\ rpc = "idle" /\ ~ consumed
    /\ rpc' = "payload" /\ want' = meta.byte_length /\ got' = <<>>
    /\ UNCHANGED <<writer, cur, offset, at_end, meta, consumed, resume, nread>>

\* SkipPayload passes over it.
SkipPayload ==
    /\ rpc = "idle" /\ ~ consumed
    /\ rpc' = "skip" /\ want' = meta.byte_length /\ got' = <<>> /\ resume' = FALSE
    /\ UNCHANGED <<writer, cur, offset, at_end, meta, consumed, nread>>

Busy == rpc \in {"header", "payload", "skip"}

\* One turn of Advance's loop: bytes of the current page ...
AdvanceBytes ==
    LET avail == pages[cur].payload_bytes - offset
        take == IF avail < want THEN avail ELSE want
    IN
    /\ Busy /\ want > 0 /\ ~ at_end
    /\ offset # pages[cur].payload_bytes
    /\ got' = got \o SubSeq(pages[cur].bytes, offset + 1, offset + take)
    /\ offset' = offset + take
    /\ want' = want - take
    /\ UNCHANGED <<writer, rpc, cur, at_end, meta, consumed, resume, nread>>

\* ... or the next page ...
AdvancePage ==
    /\ Busy /\ want > 0 /\ ~ at_end
    /\ offset = pages[cur].payload_bytes
    /\ pages[cur].next # kInvalidPageId
    /\ LoadPage(pages[cur].next)
    /\ UNCHANGED <<writer, rpc, want, got, meta, consumed, resume, nread>>

\* What is at the end of the stream when Advance returns.
Exhausted == offset = pages[cur].payload_bytes /\ pages[cur].next = kInvalidPageId

\* Advance throws "read past end of stream".
PastEnd == Busy /\ want > 0 /\ (at_end \/ Exhausted)

\* What a header says, if these bytes are a header.
ParseMeta(b) ==
    IF \E c \in DOMAIN chunks : b = [k \in 1 .. HeaderSize |-> <<c, k>>]
    THEN chunks[b[1][1]] ELSE NoMeta

\* The end of the reading or skipping; NextChunk goes on after its skip.
AdvanceEnd ==
    LET ended == at_end \/ Exhausted IN
    /\ Busy /\ want = 0
    /\ at_end' = ended
    /\ CASE rpc = "header" ->
              /\ meta' = ParseMeta(got)
              /\ consumed' = FALSE /\ nread' = nread + 1 /\ rpc' = "idle"
              /\ UNCHANGED <<want, got, resume>>
         [] rpc = "skip" /\ resume ->
              /\ consumed' = TRUE /\ got' = <<>> /\ resume' = FALSE
              /\ rpc' = IF ended THEN "end" ELSE "header"
              /\ want' = IF ended THEN 0 ELSE HeaderSize
              /\ UNCHANGED <<meta, nread>>
         [] OTHER ->
              /\ consumed' = TRUE /\ rpc' = "idle"
              /\ UNCHANGED <<want, got, meta, resume, nread>>
    /\ UNCHANGED <<writer, cur, offset>>

\* NextChunk has returned false.
Done == rpc = "end" /\ UNCHANGED vars

Next ==
    \/ AppendValue \/ CopyOut \/ BeginFinish \/ EndFinish
    \/ OpenReader \/ NextChunk \/ Decode \/ SkipPayload
    \/ AdvanceBytes \/ AdvancePage \/ AdvanceEnd
    \/ Done

Spec == Init /\ [][Next]_vars

-----------------------------------------------------------------------------
(* Properties.                                                             *)

\* "All columns of a table use the same chunk boundaries" (column_chunk.h:10):
\* chunk i of a finished column has the rows that the number of rows alone
\* determines, whatever the type and the encoding.
ChunkBoundaries ==
    wpc = "finished" =>
        /\ Len(chunks) = (rows + kChunkRows - 1) \div kChunkRows
        /\ \A i \in DOMAIN chunks : chunks[i].num_rows =
              IF i < Len(chunks) THEN kChunkRows ELSE rows - (i - 1) * kChunkRows

Whole(c, from, to) == [k \in 1 .. to - from + 1 |-> <<c, from + k - 1>>]

\* Every header and payload that is read is the next one that was written,
\* whichever payloads were decoded, skipped or ignored before and however
\* chunks and pages overlap.
ReadsWhatWasWritten ==
    Busy /\ want = 0 =>
        CASE rpc = "header" -> got = Whole(nread + 1, 1, HeaderSize)
          [] rpc \in {"payload", "skip"} -> got = Whole(nread, HeaderSize + 1, HeaderSize + meta.byte_length)

\* The reader has passed every byte of every page.
AllConsumed ==
    /\ offset = Len(pages[cur].bytes)
    /\ \A p \in cur + 1 .. Len(pages) : pages[p].bytes = <<>>

\* AtEnd is "True once all written bytes have been consumed"
\* (paged_stream.h:75), and not before.
AtEndExact == rpc = "idle" => (at_end <=> AllConsumed)

\* The reader never reads beyond what was written, and ends only after the
\* last chunk.
ReadsAllChunks ==
    /\ ~ PastEnd
    /\ rpc = "end" => nread = Len(chunks)
=============================================================================
