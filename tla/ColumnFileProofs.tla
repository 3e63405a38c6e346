-------------------------- MODULE ColumnFileProofs ---------------------------
(***************************************************************************)
(* A column comes back from its pages as it was written, proved for every  *)
(* page size, header size, chunk size, payload length and number of rows.  *)
(*                                                                         *)
(* The bytes of a column are ordered by Succ: after the last byte of a     *)
(* chunk comes the first one of the next.  The pages, and the bytes that   *)
(* Write has still to copy, are one run of that order; the reader is       *)
(* always in front of the byte that its own state says.                    *)
(***************************************************************************)
EXTENDS ColumnFile, SequenceLemmas

Byte == Nat \X Nat
Meta == [num_rows : Nat, byte_length : Nat]
PageType == [bytes : Seq(Byte), payload_bytes : Nat, next : Nat]

WriterTypes ==
    /\ wpc \in {"append", "finish", "finished"}
    /\ buffered \in Nat /\ rows \in Nat
    /\ chunks \in Seq(Meta) /\ \A c \in 1 .. Len(chunks) : chunks[c].byte_length > 0
    /\ todo \in Seq(Byte)
    /\ pages \in Seq(PageType) /\ Len(pages) >= 1
    /\ wpc = "finished" => todo = <<>>

ReaderTypes ==
    /\ rpc \in {"closed", "idle", "header", "payload", "skip", "end"}
    /\ cur \in Nat /\ offset \in Nat /\ at_end \in BOOLEAN
    /\ want \in Nat /\ got \in Seq(Byte)
    /\ meta \in Meta /\ consumed \in BOOLEAN /\ resume \in BOOLEAN
    /\ nread \in Nat

\* Full chunks first; only Finish writes one that is not full.
Boundaries ==
    /\ \A c \in 1 .. Len(chunks) - 1 : chunks[c].num_rows = kChunkRows
    /\ wpc = "append" =>
         /\ Len(chunks) > 0 => chunks[Len(chunks)].num_rows = kChunkRows
         /\ rows = kChunkRows * Len(chunks) + buffered
         /\ buffered < kChunkRows
    /\ wpc # "append" =>
         IF Len(chunks) = 0 THEN rows = 0
         ELSE /\ chunks[Len(chunks)].num_rows \in 1 .. kChunkRows
              /\ rows = kChunkRows * (Len(chunks) - 1) + chunks[Len(chunks)].num_rows

\* The order of the bytes.
Size(c) == HeaderSize + chunks[c].byte_length
IsByte(b) == b[1] \in 1 .. Len(chunks) /\ b[2] \in 1 .. Size(b[1])
Succ(b) == IF b[2] < Size(b[1]) THEN <<b[1], b[2] + 1>> ELSE <<b[1] + 1, 1>>
Beyond == <<Len(chunks) + 1, 1>>

\* Every page but the last is full and linked to the next one; the last one
\* gets its length from Finish, and it is empty only if it is the only one.
PagesInv ==
    /\ \A p \in 1 .. Len(pages) - 1 :
         /\ Len(pages[p].bytes) = PayloadCapacity
         /\ pages[p].payload_bytes = PayloadCapacity
         /\ pages[p].next = p + 1
    /\ Len(pages[Len(pages)].bytes) <= PayloadCapacity
    /\ pages[Len(pages)].payload_bytes = IF wpc = "finished" THEN Len(pages[Len(pages)].bytes) ELSE 0
    /\ pages[Len(pages)].next = kInvalidPageId
    /\ Len(pages) > 1 => Len(pages[Len(pages)].bytes) > 0

\* The byte that has to come next: after the pages, and at a place in todo.
NextByte ==
    LET last == pages[Len(pages)].bytes
    IN  IF Len(last) = 0 THEN <<1, 1>> ELSE Succ(last[Len(last)])
Todo(k) == IF k <= Len(todo) THEN todo[k] ELSE Beyond

ContentInv ==
    /\ \A p \in 1 .. Len(pages) : \A k \in 1 .. Len(pages[p].bytes) : IsByte(pages[p].bytes[k])
    /\ \A p \in 1 .. Len(pages) : \A k \in 1 .. Len(pages[p].bytes) - 1 :
         pages[p].bytes[k + 1] = Succ(pages[p].bytes[k])
    /\ \A p \in 1 .. Len(pages) - 1 : pages[p + 1].bytes[1] = Succ(pages[p].bytes[PayloadCapacity])
    /\ Len(pages[1].bytes) > 0 => pages[1].bytes[1] = <<1, 1>>

TodoInv ==
    /\ \A k \in 1 .. Len(todo) : IsByte(todo[k]) /\ Todo(k + 1) = Succ(todo[k])
    /\ Todo(1) = NextByte

\* The byte in front of which a position is.
At(p, o) ==
    IF o < Len(pages[p].bytes) THEN pages[p].bytes[o + 1]
    ELSE IF p < Len(pages) THEN pages[p + 1].bytes[1] ELSE Beyond

\* The byte in front of which the reader takes itself to be.
Expected ==
    CASE rpc = "header" -> <<nread + 1, Len(got) + 1>>
      [] rpc \in {"payload", "skip"} /\ want > 0 -> <<nread, HeaderSize + Len(got) + 1>>
      [] rpc = "idle" /\ ~ consumed -> <<nread, HeaderSize + 1>>
      [] OTHER -> <<nread + 1, 1>>

ReaderInv ==
    /\ rpc = "closed" => nread = 0 /\ consumed /\ ~ at_end
    /\ rpc # "closed" =>
         /\ wpc = "finished"
         /\ cur \in 1 .. Len(pages) /\ offset <= Len(pages[cur].bytes)
         /\ nread <= Len(chunks)
         /\ At(cur, offset) = Expected
    /\ rpc = "header" =>
         /\ nread < Len(chunks)
         /\ want + Len(got) = HeaderSize
         /\ \A k \in 1 .. Len(got) : got[k] = <<nread + 1, k>>
    /\ rpc \in {"payload", "skip"} =>
         /\ want + Len(got) = meta.byte_length
         /\ \A k \in 1 .. Len(got) : got[k] = <<nread, HeaderSize + k>>
    /\ rpc \in {"payload", "skip"} \/ (rpc = "idle" /\ ~ consumed) => nread >= 1 /\ meta = chunks[nread]
    /\ Busy => ~ at_end
    /\ rpc = "idle" => (at_end <=> Expected = Beyond)
    /\ rpc = "end" => nread = Len(chunks)

ColumnInv == WriterTypes /\ ReaderTypes /\ Boundaries /\ PagesInv /\ ContentInv /\ TodoInv /\ ReaderInv
-----------------------------------------------------------------------------
(* The chunk boundaries.                                                   *)

\* Rounding up a number of rows that fills a - 1 chunks and r rows more.
LEMMA RoundUp ==
    ASSUME NEW k \in Nat \ {0}, NEW a \in Nat \ {0}, NEW r \in 1 .. k
    PROVE  (k * (a - 1) + r + k - 1) \div k = a
  <1>1. k * (a - 1) + r + k - 1 = k * a + (r - 1)
    OBVIOUS
  <1>2. r - 1 \in 0 .. k - 1
    OBVIOUS
  <1>3. \A q \in Nat, s \in 0 .. k - 1 : (k * q + s) \div k = q
    OBVIOUS
  <1> QED
    BY <1>1, <1>2, <1>3

\* Multiplication, one step at a time.
LEMMA TimesSucc ==
    ASSUME NEW k \in Nat, NEW n \in Nat
    PROVE  k * n \in Nat /\ k * (n + 1) = k * n + k /\ k * 0 = 0
  OBVIOUS

\* The chunk that FlushChunk writes.
LEMMA FlushFacts ==
    ASSUME WriterTypes, NEW num_rows \in Nat, FlushChunk(num_rows)
    PROVE  /\ chunks' \in Seq(Meta) /\ Len(chunks') = Len(chunks) + 1
           /\ \A c \in 1 .. Len(chunks) : chunks'[c] = chunks[c]
           /\ chunks'[Len(chunks) + 1].num_rows = num_rows
           /\ chunks'[Len(chunks) + 1].byte_length \in Nat \ {0}
           /\ Len(chunks) \in Nat
           /\ todo' = [k \in 1 .. HeaderSize + chunks'[Len(chunks) + 1].byte_length |-> <<Len(chunks) + 1, k>>]
           /\ buffered' = 0
  <1>1. PICK len \in Payloads :
            /\ chunks' = Append(chunks, [num_rows |-> num_rows, byte_length |-> len])
            /\ todo' = [k \in 1 .. HeaderSize + len |-> <<Len(chunks) + 1, k>>]
            /\ buffered' = 0
    BY DEF FlushChunk
  <1>2. len \in Nat \ {0}
    BY ColumnFileAssumption
  <1>3. [num_rows |-> num_rows, byte_length |-> len] \in Meta
    BY <1>2 DEF Meta
  <1>4. chunks \in Seq(Meta)
    BY DEF WriterTypes
  <1>5. chunks'[Len(chunks) + 1] = [num_rows |-> num_rows, byte_length |-> len]
    BY <1>1, <1>3, <1>4
  <1> QED
    BY <1>1, <1>2, <1>3, <1>4, <1>5

\* A step that flushes a chunk of as many rows as were buffered, or none.
LEMMA BoundariesAppend ==
    ASSUME WriterTypes, Boundaries, AppendValue
    PROVE  Boundaries'
  <1> USE DEF AppendValue
  <1>0. /\ kChunkRows \in Nat \ {0} /\ Len(chunks) \in Nat /\ buffered \in Nat /\ rows \in Nat
        /\ rows = kChunkRows * Len(chunks) + buffered /\ buffered < kChunkRows
        /\ wpc' = "append" /\ rows' = rows + 1
        /\ \A c \in 1 .. Len(chunks) : chunks[c].num_rows = kChunkRows
    BY ColumnFileAssumption DEF WriterTypes, Boundaries
  <1>1. CASE buffered + 1 >= kChunkRows
    <2>1. FlushChunk(buffered + 1) /\ buffered + 1 = kChunkRows /\ buffered + 1 \in Nat
      BY <1>0, <1>1
    <2>2. /\ Len(chunks') = Len(chunks) + 1 /\ \A c \in 1 .. Len(chunks) : chunks'[c] = chunks[c]
          /\ chunks'[Len(chunks) + 1].num_rows = buffered + 1 /\ buffered' = 0
      BY <2>1, FlushFacts
    <2>3. kChunkRows * (Len(chunks) + 1) = kChunkRows * Len(chunks) + kChunkRows
      BY <1>0, TimesSucc
    <2>4. rows' = kChunkRows * Len(chunks') + buffered'
      <3>1. PICK n \in Nat : n = kChunkRows * Len(chunks)
        BY <1>0, TimesSucc
      <3>2. kChunkRows * Len(chunks') = n + kChunkRows
        BY <2>2, <2>3, <3>1
      <3>3. rows = n + buffered
        BY <1>0, <3>1
      <3> QED
        BY <1>0, <2>1, <2>2, <3>2, <3>3
    <2>5. \A c \in 1 .. Len(chunks') : chunks'[c].num_rows = kChunkRows
      BY <1>0, <2>1, <2>2
    <2> QED
      BY <1>0, <2>2, <2>4, <2>5 DEF Boundaries
  <1>2. CASE ~ (buffered + 1 >= kChunkRows)
    <2>1. buffered' = buffered + 1 /\ chunks' = chunks
      BY <1>2
    <2> QED
      BY <1>0, <1>2, <2>1, TimesSucc DEF Boundaries
  <1> QED
    BY <1>1, <1>2

\* The last chunk may have fewer rows, but not none.
LEMMA BoundariesFinish ==
    ASSUME WriterTypes, Boundaries, BeginFinish
    PROVE  Boundaries'
  <1> USE DEF BeginFinish
  <1>0. /\ kChunkRows \in Nat \ {0} /\ Len(chunks) \in Nat /\ buffered \in Nat /\ rows \in Nat
        /\ rows = kChunkRows * Len(chunks) + buffered /\ buffered < kChunkRows
        /\ wpc' = "finish" /\ rows' = rows
        /\ \A c \in 1 .. Len(chunks) : chunks[c].num_rows = kChunkRows
    BY ColumnFileAssumption DEF WriterTypes, Boundaries
  <1>1. CASE buffered > 0
    <2>1. FlushChunk(buffered)
      BY <1>1
    <2>2. /\ Len(chunks') = Len(chunks) + 1 /\ \A c \in 1 .. Len(chunks) : chunks'[c] = chunks[c]
          /\ chunks'[Len(chunks) + 1].num_rows = buffered
      BY <1>0, <2>1, FlushFacts
    <2>3. Len(chunks') - 1 = Len(chunks) /\ Len(chunks') # 0
      BY <1>0, <2>2
    <2> QED
      BY <1>0, <1>1, <2>2, <2>3 DEF Boundaries
  <1>2. CASE ~ (buffered > 0)
    <2>1. chunks' = chunks /\ buffered = 0
      BY <1>0, <1>2
    <2>2. CASE Len(chunks) = 0
      BY <1>0, <2>1, <2>2, TimesSucc DEF Boundaries
    <2>3. CASE Len(chunks) # 0
      <3>1. Len(chunks) - 1 \in Nat /\ Len(chunks) = (Len(chunks) - 1) + 1
        BY <1>0, <2>3
      <3>2. kChunkRows * Len(chunks) = kChunkRows * (Len(chunks) - 1) + kChunkRows
        BY <1>0, <3>1, TimesSucc
      <3>3. chunks[Len(chunks)].num_rows = kChunkRows
        BY <1>0, <2>3
      <3>4. kChunkRows * (Len(chunks) - 1) \in Nat
        BY <1>0, <3>1, TimesSucc
      <3> QED
        BY <1>0, <2>1, <2>3, <3>2, <3>3, <3>4 DEF Boundaries
    <2> QED
      BY <2>2, <2>3
  <1> QED
    BY <1>1, <1>2

-----------------------------------------------------------------------------
(* The writer: what is in the pages and what is still to be copied is one  *)
(* run of bytes.                                                           *)

\* The bytes of a page.
LEMMA BytesOfPage ==
    ASSUME WriterTypes, NEW p \in 1 .. Len(pages)
    PROVE  /\ pages[p] \in PageType /\ pages[p].bytes \in Seq(Byte) /\ Len(pages[p].bytes) \in Nat
           /\ \A k \in 1 .. Len(pages[p].bytes) : pages[p].bytes[k] \in Byte
  <1>1. pages[p] \in PageType
    BY DEF WriterTypes
  <1>2. pages[p].bytes \in Seq(Byte)
    BY <1>1 DEF PageType
  <1> QED
    BY <1>1, <1>2

\* The sizes of the chunks.
LEMMA SizeFacts ==
    ASSUME WriterTypes, NEW c \in 1 .. Len(chunks)
    PROVE  Size(c) \in Nat /\ Size(c) > HeaderSize /\ HeaderSize \in Nat \ {0}
  <1>1. chunks[c] \in Meta /\ chunks[c].byte_length > 0
    BY DEF WriterTypes
  <1>2. chunks[c].byte_length \in Nat /\ HeaderSize \in Nat \ {0}
    BY <1>1, ColumnFileAssumption DEF Meta
  <1> QED
    BY <1>1, <1>2 DEF Size

\* One more chunk changes nothing for the bytes there are.
LEMMA GrowOrder ==
    ASSUME WriterTypes, Len(chunks') = Len(chunks) + 1,
           \A c \in 1 .. Len(chunks) : chunks'[c] = chunks[c]
    PROVE  \A b \in Byte : IsByte(b) => IsByte(b)' /\ Succ(b)' = Succ(b)
  <1> SUFFICES ASSUME NEW b \in Byte, IsByte(b) PROVE IsByte(b)' /\ Succ(b)' = Succ(b)
    OBVIOUS
  <1>1. Len(chunks) \in Nat /\ b[1] \in 1 .. Len(chunks)
    BY DEF WriterTypes, IsByte
  <1>2. Size(b[1])' = Size(b[1])
    BY <1>1 DEF Size
  <1> QED
    BY <1>1, <1>2 DEF IsByte, Succ

\* A chunk is flushed when nothing is left to copy.
LEMMA FlushKeeps ==
    ASSUME WriterTypes, PagesInv, ContentInv, TodoInv, todo = <<>>,
           NEW num_rows \in Nat, FlushChunk(num_rows), pages' = pages
    PROVE  /\ ContentInv' /\ TodoInv'
           /\ todo' \in Seq(Byte) /\ chunks' \in Seq(Meta)
           /\ \A c \in 1 .. Len(chunks') : chunks'[c].byte_length > 0
  <1>0. PICK L \in Nat : L = Len(chunks)
    BY DEF WriterTypes
  <1>a. /\ chunks' \in Seq(Meta) /\ Len(chunks') = L + 1
        /\ \A c \in 1 .. L : chunks'[c] = chunks[c]
        /\ chunks'[L + 1].byte_length \in Nat \ {0}
        /\ todo' = [k \in 1 .. HeaderSize + chunks'[L + 1].byte_length |-> <<L + 1, k>>]
    BY <1>0, FlushFacts
  <1>2. PICK size \in Nat \ {0} : size = HeaderSize + chunks'[L + 1].byte_length
    BY <1>a, ColumnFileAssumption
  <1>1. /\ chunks' \in Seq(Meta) /\ Len(chunks') = L + 1 /\ L \in Nat
        /\ \A c \in 1 .. L : chunks'[c] = chunks[c]
        /\ chunks'[L + 1].byte_length \in Nat \ {0}
        /\ todo' = [k \in 1 .. size |-> <<L + 1, k>>]
    BY <1>a, <1>2
  <1>s. Size(L + 1)' = size
    BY <1>2 DEF Size
  <1>3. /\ todo' \in Seq(Byte) /\ Len(todo') = size
        /\ \A k \in 1 .. size : todo'[k] = <<L + 1, k>>
    <2>1. \A k \in 1 .. size : <<L + 1, k>> \in Byte
      BY <1>1, <1>2 DEF Byte
    <2>2. todo' \in [1 .. size -> Byte]
      BY <1>1, <2>1
    <2>3. todo' \in Seq(Byte)
      BY <1>2, <2>2
    <2>4. Len(todo') = size
      BY <1>2, <2>2, <2>3
    <2> QED
      BY <1>1, <2>3, <2>4
  <1>4. \A b \in Byte : IsByte(b) => IsByte(b)' /\ Succ(b)' = Succ(b)
    BY <1>0, <1>1, GrowOrder
  <1>5. \A c \in 1 .. Len(chunks') : chunks'[c].byte_length > 0
    <2> SUFFICES ASSUME NEW c \in 1 .. L + 1 PROVE chunks'[c].byte_length > 0
      BY <1>1
    <2>1. CASE c = L + 1
      BY <1>1, <2>1
    <2>2. CASE c \in 1 .. L
      BY <1>0, <1>1, <2>2 DEF WriterTypes
    <2> QED
      BY <1>1, <2>1, <2>2
  <1>6. \A p \in 1 .. Len(pages) : \A k \in 1 .. Len(pages[p].bytes) :
          /\ pages[p].bytes[k] \in Byte /\ IsByte(pages[p].bytes[k])
          /\ IsByte(pages[p].bytes[k])' /\ Succ(pages[p].bytes[k])' = Succ(pages[p].bytes[k])
    <2> SUFFICES ASSUME NEW p \in 1 .. Len(pages), NEW k \in 1 .. Len(pages[p].bytes)
                 PROVE  /\ pages[p].bytes[k] \in Byte /\ IsByte(pages[p].bytes[k])
                        /\ IsByte(pages[p].bytes[k])' /\ Succ(pages[p].bytes[k])' = Succ(pages[p].bytes[k])
      OBVIOUS
    <2>1. pages[p].bytes[k] \in Byte /\ IsByte(pages[p].bytes[k])
      BY BytesOfPage DEF ContentInv
    <2>2. PICK b \in Byte : b = pages[p].bytes[k]
      BY <2>1
    <2>3. IsByte(b)' /\ Succ(b)' = Succ(b)
      BY <1>4, <2>1, <2>2
    <2>4. b = (pages[p].bytes[k])'
      BY <2>2
    <2> QED
      BY <2>1, <2>2, <2>3, <2>4 DEF IsByte, Succ, Size
  <1>7. ContentInv'
    <2>1. \A p \in 1 .. Len(pages) : Len(pages[p].bytes) \in Nat
      BY BytesOfPage
    <2>2. \A p \in 1 .. Len(pages) - 1 : p \in 1 .. Len(pages) /\ PayloadCapacity \in 1 .. Len(pages[p].bytes)
      BY ColumnFileAssumption DEF PagesInv, WriterTypes
    <2>3. \A p \in 1 .. Len(pages) : \A k \in 1 .. Len(pages[p].bytes) - 1 : k \in 1 .. Len(pages[p].bytes)
      BY <2>1
    <2> QED
      BY <1>6, <2>2, <2>3 DEF ContentInv
  <1>8. NextByte' = NextByte
    <2>1. Len(pages) \in 1 .. Len(pages) /\ Len(pages[Len(pages)].bytes) \in Nat
      BY BytesOfPage DEF WriterTypes
    <2> QED
      BY <1>6, <2>1 DEF NextByte
  <1>9. Todo(1)' = NextByte'
    <2>1. NextByte = <<L + 1, 1>>
      BY <1>0 DEF TodoInv, Todo, Beyond
    <2>2. Todo(1)' = todo'[1] /\ todo'[1] = <<L + 1, 1>>
      BY <1>2, <1>3 DEF Todo
    <2> QED
      BY <1>8, <2>1, <2>2
  <1>10. ASSUME NEW k \in 1 .. size PROVE IsByte(todo[k])' /\ Todo(k + 1)' = Succ(todo[k])'
    <2>1. todo'[k] = <<L + 1, k>>
      BY <1>3
    <2>2. IsByte(todo[k])'
      BY <1>1, <1>s, <2>1 DEF IsByte
    <2>3. CASE k < size
      <3>1. k + 1 \in 1 .. size
        BY <1>2, <2>3
      <3>2. Todo(k + 1)' = <<L + 1, k + 1>>
        BY <1>2, <1>3, <3>1 DEF Todo
      <3> QED
        BY <1>s, <2>1, <2>2, <2>3, <3>2 DEF Succ
    <2>4. CASE k = size
      <3>1. Todo(k + 1)' = <<L + 1 + 1, 1>>
        BY <1>1, <1>2, <1>3, <2>4 DEF Todo, Beyond
      <3> QED
        BY <1>s, <1>2, <2>1, <2>2, <2>4, <3>1 DEF Succ
    <2> QED
      BY <1>2, <2>3, <2>4
  <1>11. TodoInv'
    BY <1>3, <1>9, <1>10 DEF TodoInv
  <1> QED
    BY <1>1, <1>3, <1>5, <1>7, <1>11

\* The page that Write starts with: the current one, or a new one that the
\* current one is linked to.
LEMMA StartPageFacts ==
    ASSUME WriterTypes, PagesInv, todo # <<>>,
           NEW ps, ps = IF Len(Last(pages).bytes) = PayloadCapacity THEN StartNewPage ELSE pages
    PROVE  /\ ps \in Seq(PageType) /\ Len(ps) \in {Len(pages), Len(pages) + 1}
           /\ \A p \in 1 .. Len(ps) - 1 :
                /\ p \in 1 .. Len(pages)
                /\ ps[p].bytes = pages[p].bytes /\ Len(pages[p].bytes) = PayloadCapacity
                /\ ps[p].payload_bytes = PayloadCapacity /\ ps[p].next = p + 1
           /\ ps[Len(ps)].bytes = IF Len(ps) = Len(pages) THEN pages[Len(pages)].bytes ELSE <<>>
           /\ ps[Len(ps)].payload_bytes = 0 /\ ps[Len(ps)].next = kInvalidPageId
           /\ Len(ps[Len(ps)].bytes) < PayloadCapacity
  <1>0. PICK n \in Nat \ {0} : n = Len(pages)
    BY DEF WriterTypes
  <1>1. Last(pages) = pages[n] /\ n \in 1 .. Len(pages) /\ wpc # "finished"
    BY <1>0 DEF Last, WriterTypes
  <1>2. /\ pages \in Seq(PageType) /\ pages[n] \in PageType /\ pages[n].bytes \in Seq(Byte)
        /\ Len(pages[n].bytes) \in Nat
    BY <1>1, BytesOfPage DEF WriterTypes
  <1>c. PayloadCapacity \in Nat \ {0}
    BY ColumnFileAssumption
  <1>3. CASE Len(pages[n].bytes) # PayloadCapacity
    <2>1. ps = pages
      BY <1>1, <1>3
    <2>2. Len(pages[n].bytes) < PayloadCapacity
      BY <1>0, <1>2, <1>3, <1>c DEF PagesInv
    <2> QED
      BY <1>0, <1>1, <1>2, <2>1, <2>2 DEF PagesInv
  <1>4. CASE Len(pages[n].bytes) = PayloadCapacity
    <2> DEFINE q == [pages EXCEPT ![Len(pages)].payload_bytes = Len(pages[Len(pages)].bytes),
                                  ![Len(pages)].next = Len(pages) + 1]
    <2>1. ps = Append(q, NoPage)
      BY <1>1, <1>4 DEF StartNewPage
    <2>2. NoPage \in PageType
      BY DEF NoPage, PageType, kInvalidPageId
    <2>3. /\ q \in Seq(PageType) /\ Len(q) = n
          /\ \A p \in 1 .. n - 1 : q[p] = pages[p]
          /\ q[n].bytes = pages[n].bytes /\ q[n].payload_bytes = Len(pages[n].bytes) /\ q[n].next = n + 1
      <3>1. q = [pages EXCEPT ![n] = [pages[n] EXCEPT !.payload_bytes = Len(pages[n].bytes), !.next = n + 1]]
        BY <1>0, <1>1, <1>2 DEF PageType
      <3> DEFINE r == [pages[n] EXCEPT !.payload_bytes = Len(pages[n].bytes), !.next = n + 1]
      <3>2. /\ r \in PageType /\ r.bytes = pages[n].bytes /\ r.payload_bytes = Len(pages[n].bytes)
            /\ r.next = n + 1
        <4>1. n + 1 \in Nat
          BY <1>0
        <4> QED
          BY <1>2, <4>1 DEF PageType
      <3> HIDE DEF r, q
      <3>3. q = [pages EXCEPT ![n] = r]
        BY <3>1 DEF r
      <3> QED
        BY <1>0, <1>2, <3>2, <3>3
    <2> HIDE DEF q
    <2>4. /\ ps \in Seq(PageType) /\ Len(ps) = n + 1 /\ ps[n + 1] = NoPage
          /\ \A p \in 1 .. n : ps[p] = q[p]
      BY <2>1, <2>2, <2>3
    <2>5. \A p \in 1 .. n :
            /\ ps[p].bytes = pages[p].bytes /\ Len(pages[p].bytes) = PayloadCapacity
            /\ ps[p].payload_bytes = PayloadCapacity /\ ps[p].next = p + 1
      <3> SUFFICES ASSUME NEW p \in 1 .. n
                   PROVE  /\ ps[p].bytes = pages[p].bytes /\ Len(pages[p].bytes) = PayloadCapacity
                          /\ ps[p].payload_bytes = PayloadCapacity /\ ps[p].next = p + 1
        OBVIOUS
      <3>1. CASE p = n
        BY <1>4, <2>3, <2>4, <3>1
      <3>2. CASE p \in 1 .. n - 1
        BY <1>0, <2>3, <2>4, <3>2 DEF PagesInv
      <3> QED
        BY <3>1, <3>2
    <2>6. Len(ps) - 1 = n /\ Len(ps) # Len(pages)
      BY <1>0, <2>4
    <2> QED
      BY <1>0, <1>c, <2>4, <2>5, <2>6 DEF NoPage
  <1> QED
    BY <1>3, <1>4

\* What one turn of Write does, with the bytes the last page had before.
LEMMA CopyOutFacts ==
    ASSUME WriterTypes, PagesInv, CopyOut
    PROVE  \E m \in Nat \ {0}, t \in Nat, old \in Seq(Byte) :
             /\ m \in {Len(pages), Len(pages) + 1}
             /\ pages' \in Seq(PageType) /\ Len(pages') = m
             /\ \A p \in 1 .. m - 1 :
                  /\ p \in 1 .. Len(pages)
                  /\ pages'[p].bytes = pages[p].bytes /\ Len(pages[p].bytes) = PayloadCapacity
                  /\ pages'[p].payload_bytes = PayloadCapacity /\ pages'[p].next = p + 1
             /\ old = IF m = Len(pages) THEN pages[Len(pages)].bytes ELSE <<>>
             /\ pages'[m].bytes = old \o SubSeq(todo, 1, t)
             /\ pages'[m].payload_bytes = 0 /\ pages'[m].next = kInvalidPageId
             /\ t \in 1 .. Len(todo) /\ Len(old) + t <= PayloadCapacity
             /\ todo' = SubSeq(todo, t + 1, Len(todo))
  <1> DEFINE ps == IF Len(Last(pages).bytes) = PayloadCapacity THEN StartNewPage ELSE pages
             m == Len(ps)
             old == ps[m].bytes
             room == PayloadCapacity - Len(Last(ps).bytes)
             t == IF room < Len(todo) THEN room ELSE Len(todo)
             x == SubSeq(todo, 1, t)
  <1>1. /\ todo # <<>>
        /\ pages' = [ps EXCEPT ![Len(ps)].bytes = @ \o SubSeq(todo, 1, t)]
        /\ todo' = SubSeq(todo, t + 1, Len(todo))
    BY DEF CopyOut
  <1>2. /\ ps \in Seq(PageType) /\ m \in {Len(pages), Len(pages) + 1}
        /\ \A p \in 1 .. m - 1 :
             /\ p \in 1 .. Len(pages)
             /\ ps[p].bytes = pages[p].bytes /\ Len(pages[p].bytes) = PayloadCapacity
             /\ ps[p].payload_bytes = PayloadCapacity /\ ps[p].next = p + 1
        /\ old = IF m = Len(pages) THEN pages[Len(pages)].bytes ELSE <<>>
        /\ ps[m].payload_bytes = 0 /\ ps[m].next = kInvalidPageId
        /\ Len(old) < PayloadCapacity
    <2> HIDE DEF ps
    <2>1. ps = IF Len(Last(pages).bytes) = PayloadCapacity THEN StartNewPage ELSE pages
      BY DEF ps
    <2> QED
      BY <1>1, <2>1, StartPageFacts
  <1> HIDE DEF ps
  <1>3. m \in Nat \ {0} /\ ps[m] \in PageType /\ Last(ps) = ps[m]
    BY <1>2 DEF WriterTypes, Last
  <1>4. old \in Seq(Byte) /\ Len(old) \in Nat /\ PayloadCapacity \in Nat \ {0}
    BY <1>3, ColumnFileAssumption DEF PageType
  <1>5. todo \in Seq(Byte) /\ Len(todo) \in Nat \ {0}
    BY <1>1 DEF WriterTypes
  <1>6. room = PayloadCapacity - Len(old)
    BY <1>3
  <1>a. Len(old) < PayloadCapacity
    BY <1>2
  <1> HIDE DEF room, old, m
  <1>7. t \in 1 .. Len(todo) /\ Len(old) + t <= PayloadCapacity /\ t \in Nat
    BY <1>4, <1>5, <1>6, <1>a
  <1> HIDE DEF t
  <1>8. x \in Seq(Byte)
    BY <1>5, <1>7
  <1>9. old \o x \in Seq(Byte)
    BY <1>4, <1>8
  <1>10. /\ pages' \in Seq(PageType) /\ Len(pages') = m
         /\ \A p \in 1 .. m - 1 : pages'[p] = ps[p]
         /\ pages'[m].bytes = old \o x /\ pages'[m].payload_bytes = ps[m].payload_bytes
         /\ pages'[m].next = ps[m].next
    <2> DEFINE r == [ps[m] EXCEPT !.bytes = old \o x]
    <2>1. /\ r \in PageType /\ r.bytes = old \o x /\ r.payload_bytes = ps[m].payload_bytes
          /\ r.next = ps[m].next
      BY <1>3, <1>9 DEF PageType
    <2>2. pages' = [ps EXCEPT ![m] = r]
      BY <1>1 DEF m, old
    <2> HIDE DEF r, x, old
    <2>3. m \in 1 .. Len(ps)
      BY <1>3 DEF m
    <2> QED
      BY <1>2, <1>3, <2>1, <2>2, <2>3 DEF m
  <1>11. /\ m \in {Len(pages), Len(pages) + 1}
         /\ pages' \in Seq(PageType) /\ Len(pages') = m
         /\ \A p \in 1 .. m - 1 :
              /\ p \in 1 .. Len(pages)
              /\ pages'[p].bytes = pages[p].bytes /\ Len(pages[p].bytes) = PayloadCapacity
              /\ pages'[p].payload_bytes = PayloadCapacity /\ pages'[p].next = p + 1
    BY <1>2, <1>10
  <1>12. /\ old = IF m = Len(pages) THEN pages[Len(pages)].bytes ELSE <<>>
         /\ pages'[m].bytes = old \o SubSeq(todo, 1, t)
         /\ pages'[m].payload_bytes = 0 /\ pages'[m].next = kInvalidPageId
    BY <1>2, <1>10
  <1> HIDE DEF x
  <1> QED
    BY <1>1, <1>3, <1>4, <1>7, <1>11, <1>12, Zenon

\* One turn of Write keeps the run of bytes.
LEMMA CopyOutKeeps ==
    ASSUME WriterTypes, PagesInv, ContentInv, TodoInv, CopyOut
    PROVE  WriterTypes' /\ PagesInv' /\ ContentInv' /\ TodoInv'
  <1>1. PICK m \in Nat \ {0}, t \in Nat, old \in Seq(Byte) :
             /\ m \in {Len(pages), Len(pages) + 1}
             /\ pages' \in Seq(PageType) /\ Len(pages') = m
             /\ \A p \in 1 .. m - 1 :
                  /\ p \in 1 .. Len(pages)
                  /\ pages'[p].bytes = pages[p].bytes /\ Len(pages[p].bytes) = PayloadCapacity
                  /\ pages'[p].payload_bytes = PayloadCapacity /\ pages'[p].next = p + 1
             /\ old = IF m = Len(pages) THEN pages[Len(pages)].bytes ELSE <<>>
             /\ pages'[m].bytes = old \o SubSeq(todo, 1, t)
             /\ pages'[m].payload_bytes = 0 /\ pages'[m].next = kInvalidPageId
             /\ t \in 1 .. Len(todo) /\ Len(old) + t <= PayloadCapacity
             /\ todo' = SubSeq(todo, t + 1, Len(todo))
    BY CopyOutFacts, Zenon
  <1>2. /\ UNCHANGED <<wpc, buffered, rows, chunks>> /\ todo # <<>> /\ wpc # "finished"
        /\ todo \in Seq(Byte) /\ Len(todo) \in Nat /\ Len(old) \in Nat /\ Len(pages) \in Nat \ {0}
        /\ PayloadCapacity \in Nat \ {0}
    <2>1. UNCHANGED <<wpc, buffered, rows, chunks>> /\ todo # <<>>
      BY DEF CopyOut
    <2>2. todo \in Seq(Byte) /\ Len(todo) \in Nat /\ Len(pages) \in Nat \ {0} /\ wpc # "finished"
      BY <2>1 DEF WriterTypes
    <2>3. old \in Seq(Byte)
      BY <1>1
    <2> QED
      BY <2>1, <2>2, <2>3, ColumnFileAssumption
  <1>t. /\ t \in Nat /\ 1 <= t /\ t <= Len(todo) /\ Len(old) + t <= PayloadCapacity
        /\ old \in Seq(Byte)
    BY <1>1, <1>2
  <1>3. /\ SubSeq(todo, 1, t) \in Seq(Byte) /\ Len(SubSeq(todo, 1, t)) = t
        /\ \A k \in 1 .. t : SubSeq(todo, 1, t)[k] = todo[k]
    BY <1>1, <1>2
  <1>4. /\ Len(pages'[m].bytes) = Len(old) + t
        /\ \A k \in 1 .. Len(old) : pages'[m].bytes[k] = old[k]
        /\ \A k \in 1 .. t : pages'[m].bytes[Len(old) + k] = todo[k]
    <2> DEFINE x == SubSeq(todo, 1, t)
    <2>1. x \in Seq(Byte) /\ Len(x) = t /\ pages'[m].bytes = old \o x
      BY <1>1, <1>3
    <2>2. \A k \in 1 .. t : x[k] = todo[k]
      BY <1>3
    <2> HIDE DEF x
    <2>3. /\ Len(old \o x) = Len(old) + t
          /\ \A k \in 1 .. Len(old) : (old \o x)[k] = old[k]
          /\ \A k \in 1 .. t : (old \o x)[Len(old) + k] = x[k]
      <3>1. /\ Len(old \o x) = Len(old) + Len(x)
            /\ \A k \in 1 .. Len(old) : (old \o x)[k] = old[k]
            /\ \A k \in 1 .. Len(x) : (old \o x)[Len(old) + k] = x[k]
        <4>1. old \in Seq(Byte) /\ x \in Seq(Byte)
          BY <1>t, <2>1
        <4> QED
          BY <4>1, ConcatFacts
      <3> QED
        BY <2>1, <3>1
    <2> QED
      BY <2>1, <2>2, <2>3
  <1>5. /\ todo' \in Seq(Byte) /\ Len(todo') = Len(todo) - t
        /\ \A k \in 1 .. Len(todo) - t : todo'[k] = todo[t + k]
    BY <1>1, <1>2
  <1>6. WriterTypes'
    BY <1>1, <1>2, <1>5 DEF WriterTypes
  <1>7. PagesInv'
    <2>1. Len(pages'[m].bytes) <= PayloadCapacity /\ Len(pages'[m].bytes) > 0
      BY <1>1, <1>2, <1>4
    <2>2. /\ wpc' # "finished" /\ Len(pages') = m
          /\ \A p \in 1 .. m - 1 : /\ Len(pages'[p].bytes) = PayloadCapacity
                                  /\ pages'[p].payload_bytes = PayloadCapacity
                                  /\ pages'[p].next = p + 1
          /\ pages'[m].payload_bytes = 0 /\ pages'[m].next = kInvalidPageId
      BY <1>1, <1>2
    <2> QED
      BY <2>1, <2>2 DEF PagesInv
  <1>8. \A k \in 1 .. Len(old) : IsByte(old[k]) /\ (k < Len(old) => old[k + 1] = Succ(old[k]))
    <2>1. CASE m = Len(pages)
      <3>1. old = pages[Len(pages)].bytes /\ Len(pages) \in 1 .. Len(pages)
        BY <1>1, <1>2, <2>1
      <3>2. \A k \in 1 .. Len(old) : k < Len(old) => k \in 1 .. Len(old) - 1
        BY <1>2
      <3> QED
        BY <3>1, <3>2 DEF ContentInv
    <2>2. CASE m # Len(pages)
      BY <1>1, <1>2, <2>2
    <2> QED
      BY <2>1, <2>2
  <1>9. /\ Len(old) > 0 => todo[1] = Succ(old[Len(old)])
        /\ Len(old) = 0 /\ m > 1 => todo[1] = Succ(pages[m - 1].bytes[PayloadCapacity])
        /\ Len(old) = 0 /\ m = 1 => todo[1] = <<1, 1>>
    <2>0. todo[1] = NextByte
      BY <1>2 DEF TodoInv, Todo
    <2>1. CASE m = Len(pages)
      <3>1. old = pages[Len(pages)].bytes
        BY <1>1, <2>1
      <3>2. m > 1 => Len(old) > 0
        BY <2>1, <3>1 DEF PagesInv
      <3> QED
        BY <1>2, <2>0, <3>1, <3>2 DEF NextByte
    <2>2. CASE m = Len(pages) + 1
      <3>1. Len(old) = 0 /\ m > 1 /\ m - 1 = Len(pages)
        BY <1>1, <1>2, <2>2
      <3>2. Len(pages[Len(pages)].bytes) = PayloadCapacity
        BY <1>1, <1>2, <2>2
      <3> QED
        BY <1>2, <2>0, <3>1, <3>2 DEF NextByte
    <2> QED
      BY <1>1, <2>1, <2>2
  <1>10. \A k \in 1 .. Len(old) + t :
           /\ IsByte(pages'[m].bytes[k])
           /\ k < Len(old) + t => pages'[m].bytes[k + 1] = Succ(pages'[m].bytes[k])
    <2> SUFFICES ASSUME NEW k \in 1 .. Len(old) + t
                 PROVE  /\ IsByte(pages'[m].bytes[k])
                        /\ k < Len(old) + t => pages'[m].bytes[k + 1] = Succ(pages'[m].bytes[k])
      OBVIOUS
    <2>1. CASE k < Len(old)
      <3>1. k \in 1 .. Len(old) /\ k + 1 \in 1 .. Len(old)
        BY <1>2, <2>1
      <3> QED
        BY <1>4, <1>8, <2>1, <3>1
    <2>2. CASE k = Len(old)
      <3>1. k \in 1 .. Len(old) /\ 1 \in 1 .. t
        BY <1>1, <1>2, <2>2
      <3>2. pages'[m].bytes[k + 1] = todo[1]
        BY <1>4, <2>2, <3>1
      <3> QED
        BY <1>2, <1>4, <1>8, <1>9, <2>2, <3>1, <3>2
    <2>3. CASE k > Len(old)
      <3>1. PICK j \in 1 .. t : k = Len(old) + j
        <4>1. k - Len(old) \in 1 .. t /\ k = Len(old) + (k - Len(old))
          BY <1>1, <1>2, <2>3
        <4> QED
          BY <4>1
      <3>2. pages'[m].bytes[k] = todo[j] /\ j \in 1 .. Len(todo)
        BY <1>1, <1>2, <1>4, <3>1
      <3>3. IsByte(todo[j]) /\ Todo(j + 1) = Succ(todo[j])
        BY <3>2 DEF TodoInv
      <3>4. ASSUME k < Len(old) + t PROVE pages'[m].bytes[k + 1] = todo[j + 1] /\ Todo(j + 1) = todo[j + 1]
        <4>1. j + 1 \in 1 .. t /\ k + 1 = Len(old) + (j + 1) /\ j + 1 <= Len(todo)
          BY <1>2, <1>t, <3>1, <3>4
        <4> QED
          BY <1>4, <4>1 DEF Todo
      <3> QED
        BY <3>2, <3>3, <3>4
    <2> QED
      BY <1>2, <2>1, <2>2, <2>3
  <1>11. pages'[m].bytes[1] = IF Len(old) > 0 THEN old[1] ELSE todo[1]
    <2>1. CASE Len(old) > 0
      BY <1>2, <1>4, <2>1
    <2>2. CASE Len(old) = 0
      BY <1>1, <1>2, <1>4, <2>2
    <2> QED
      BY <1>2, <2>1, <2>2
  <1>12. ContentInv'
    <2>1. \A p \in 1 .. m : \A k \in 1 .. Len(pages'[p].bytes) :
            /\ IsByte(pages'[p].bytes[k])
            /\ k < Len(pages'[p].bytes) => pages'[p].bytes[k + 1] = Succ(pages'[p].bytes[k])
      <3> SUFFICES ASSUME NEW p \in 1 .. m, NEW k \in 1 .. Len(pages'[p].bytes)
                   PROVE  /\ IsByte(pages'[p].bytes[k])
                          /\ k < Len(pages'[p].bytes) => pages'[p].bytes[k + 1] = Succ(pages'[p].bytes[k])
        OBVIOUS
      <3>1. CASE p = m
        BY <1>4, <1>10, <3>1
      <3>2. CASE p \in 1 .. m - 1
        <4>1. p \in 1 .. Len(pages) /\ pages'[p].bytes = pages[p].bytes /\ Len(pages[p].bytes) = PayloadCapacity
          BY <1>1, <3>2
        <4>2. k < PayloadCapacity => k \in 1 .. Len(pages[p].bytes) - 1
          BY <1>2, <4>1
        <4> QED
          BY <4>1, <4>2 DEF ContentInv
      <3> QED
        BY <3>1, <3>2
    <2>2. \A p \in 1 .. m - 1 : pages'[p + 1].bytes[1] = Succ(pages'[p].bytes[PayloadCapacity])
      <3> SUFFICES ASSUME NEW p \in 1 .. m - 1
                   PROVE  pages'[p + 1].bytes[1] = Succ(pages'[p].bytes[PayloadCapacity])
        OBVIOUS
      <3>0. pages'[p].bytes = pages[p].bytes
        BY <1>1
      <3>1. CASE p + 1 = m
        <4>1. p = m - 1 /\ m > 1
          BY <3>1
        <4>2. CASE Len(old) > 0
          <5>1. m = Len(pages) /\ old = pages[Len(pages)].bytes
            BY <1>1, <4>2
          <5>2. pages[p + 1].bytes[1] = Succ(pages[p].bytes[PayloadCapacity])
            BY <5>1 DEF ContentInv
          <5> QED
            BY <1>11, <3>0, <3>1, <4>2, <5>1, <5>2
        <4>3. CASE Len(old) = 0
          BY <1>9, <1>11, <3>0, <3>1, <4>1, <4>3
        <4> QED
          BY <1>2, <4>2, <4>3
      <3>2. CASE p + 1 # m
        <4>1. p + 1 \in 1 .. m - 1
          BY <3>2
        <4>2. pages'[p + 1].bytes = pages[p + 1].bytes /\ p + 1 \in 1 .. Len(pages)
          BY <1>1, <4>1
        <4>3. p \in 1 .. Len(pages) - 1
          BY <1>2, <4>2
        <4> QED
          BY <3>0, <4>2, <4>3 DEF ContentInv
      <3> QED
        BY <3>1, <3>2
    <2>3. Len(pages'[1].bytes) > 0 => pages'[1].bytes[1] = <<1, 1>>
      <3>1. CASE m = 1
        <4>1. m = Len(pages) /\ old = pages[1].bytes
          BY <1>1, <1>2, <3>1
        <4> QED
          BY <1>2, <1>9, <1>11, <3>1, <4>1 DEF ContentInv
      <3>2. CASE m # 1
        <4>1. 1 \in 1 .. m - 1
          BY <3>2
        <4>2. pages'[1].bytes = pages[1].bytes
          BY <1>1, <4>1
        <4> QED
          BY <4>2 DEF ContentInv
      <3> QED
        BY <3>1, <3>2
    <2>4. \A p \in 1 .. m : Len(pages'[p].bytes) \in Nat
      BY <1>1 DEF PageType
    <2>5. \A p \in 1 .. m : \A k \in 1 .. Len(pages'[p].bytes) - 1 :
             k \in 1 .. Len(pages'[p].bytes) /\ k < Len(pages'[p].bytes)
      BY <2>4
    <2>6. chunks' = chunks /\ Len(pages') = m
      BY <1>1, <1>2
    <2>7. \A p \in 1 .. m : \A k \in 1 .. Len(pages'[p].bytes) - 1 :
             pages'[p].bytes[k + 1] = Succ(pages'[p].bytes[k])
      BY <2>1, <2>5
    <2>9. \A p \in 1 .. m : \A k \in 1 .. Len(pages'[p].bytes) : IsByte(pages[p].bytes[k])'
      BY <2>1, <2>6 DEF IsByte, Size
    <2>10. \A p \in 1 .. m : \A k \in 1 .. Len(pages'[p].bytes) - 1 :
             pages'[p].bytes[k + 1] = Succ(pages[p].bytes[k])'
      BY <2>7, <2>6 DEF Succ, Size
    <2>11. \A p \in 1 .. m - 1 : pages'[p + 1].bytes[1] = Succ(pages[p].bytes[PayloadCapacity])'
      BY <2>2, <2>6 DEF Succ, Size
    <2> QED
      BY <2>3, <2>6, <2>9, <2>10, <2>11 DEF ContentInv
  <1>13. \A k \in 1 .. Len(todo') + 1 : Todo(k)' = Todo(t + k)
    <2> SUFFICES ASSUME NEW k \in 1 .. Len(todo') + 1 PROVE Todo(k)' = Todo(t + k)
      OBVIOUS
    <2>1. CASE k <= Len(todo')
      <3>1. k \in 1 .. Len(todo) - t /\ t + k <= Len(todo)
        BY <1>1, <1>2, <1>5, <2>1
      <3> QED
        BY <1>5, <2>1, <3>1 DEF Todo
    <2>2. CASE ~ (k <= Len(todo'))
      <3>1. ~ (t + k <= Len(todo))
        BY <1>1, <1>2, <1>5, <2>2
      <3> QED
        BY <1>2, <2>2, <3>1 DEF Todo, Beyond
    <2> QED
      BY <2>1, <2>2
  <1>14. TodoInv'
    <2>1. Todo(1)' = NextByte'
      <3>1. Len(old) + t \in 1 .. Len(old) + t /\ t \in 1 .. t
        BY <1>1, <1>2
      <3>2. pages'[m].bytes[Len(old) + t] = todo[t]
        BY <1>4, <3>1
      <3>3. NextByte' = Succ(todo[t])
        <4>1. Len(pages') = m /\ chunks' = chunks
          BY <1>1, <1>2
        <4>2. Len(pages'[m].bytes) # 0 /\ pages'[m].bytes[Len(pages'[m].bytes)] = todo[t]
          BY <1>2, <1>t, <1>4, <3>2
        <4>3. NextByte' = Succ(pages[Len(pages)].bytes[Len(pages[Len(pages)].bytes)])'
          BY <4>1, <4>2 DEF NextByte
        <4> QED
          BY <4>1, <4>2, <4>3 DEF Succ, Size
      <3>4. Todo(t + 1) = Succ(todo[t])
        BY <1>1 DEF TodoInv
      <3>5. 1 \in 1 .. Len(todo') + 1
        BY <1>1, <1>2, <1>5
      <3> QED
        BY <1>13, <3>3, <3>4, <3>5
    <2>2. ASSUME NEW k \in 1 .. Len(todo') PROVE IsByte(todo[k])' /\ Todo(k + 1)' = Succ(todo[k])'
      <3>1. t + k \in 1 .. Len(todo) /\ k + 1 \in 1 .. Len(todo') + 1 /\ todo'[k] = todo[t + k] /\ t + (k + 1) = (t + k) + 1
        BY <1>1, <1>2, <1>5
      <3>2. IsByte(todo[t + k]) /\ Todo((t + k) + 1) = Succ(todo[t + k])
        BY <3>1 DEF TodoInv
      <3>3. Todo(k + 1)' = Todo((t + k) + 1)
        BY <1>13, <3>1
      <3>4. IsByte(todo[k])'
        BY <1>2, <3>1, <3>2 DEF IsByte, Size
      <3>5. Succ(todo[k])' = Succ(todo[t + k])
        BY <1>2, <3>1 DEF Succ, Size
      <3> QED
        BY <3>2, <3>3, <3>4, <3>5
    <2> QED
      BY <2>1, <2>2 DEF TodoInv
  <1> QED
    BY <1>6, <1>7, <1>12, <1>14

\* Until Finish returns nobody reads.
LEMMA ClosedReader ==
    ASSUME ReaderTypes, ReaderInv, wpc # "finished", UNCHANGED reader
    PROVE  ReaderTypes' /\ ReaderInv'
  <1>1. rpc = "closed"
    BY DEF ReaderInv
  <1>2. rpc' = "closed" /\ nread' = nread /\ consumed' = consumed /\ at_end' = at_end
    BY <1>1 DEF reader
  <1>3. ReaderTypes'
    BY DEF ReaderTypes, reader
  <1>4. ReaderInv'
    BY <1>1, <1>2 DEF ReaderInv, Busy
  <1> QED
    BY <1>3, <1>4

\* A value is appended.
LEMMA AppendValueKeeps ==
    ASSUME ColumnInv, AppendValue
    PROVE  ColumnInv'
  <1> USE DEF ColumnInv
  <1>1. /\ wpc = "append" /\ wpc' = wpc /\ pages' = pages /\ todo = <<>> /\ UNCHANGED reader
        /\ rows' \in Nat /\ buffered + 1 \in Nat
    BY DEF AppendValue, WriterTypes
  <1>2. Boundaries'
    BY BoundariesAppend
  <1>3. ReaderTypes' /\ ReaderInv'
    BY <1>1, ClosedReader
  <1>4. PagesInv'
    BY <1>1 DEF PagesInv
  <1>5. CASE buffered + 1 >= kChunkRows
    <2>1. FlushChunk(buffered + 1)
      BY <1>5 DEF AppendValue
    <2>2. /\ ContentInv' /\ TodoInv' /\ todo' \in Seq(Byte) /\ chunks' \in Seq(Meta)
          /\ \A c \in 1 .. Len(chunks') : chunks'[c].byte_length > 0
      BY <1>1, <2>1, FlushKeeps
    <2>3. buffered' = 0
      BY <2>1 DEF FlushChunk
    <2>4. WriterTypes'
      BY <1>1, <2>2, <2>3 DEF WriterTypes
    <2> QED
      BY <1>2, <1>3, <1>4, <2>2, <2>4
  <1>6. CASE ~ (buffered + 1 >= kChunkRows)
    <2>1. buffered' = buffered + 1 /\ UNCHANGED <<chunks, todo>>
      BY <1>6 DEF AppendValue
    <2>2. WriterTypes'
      BY <1>1, <2>1 DEF WriterTypes
    <2>3. ContentInv' /\ TodoInv'
      BY <1>1, <2>1 DEF ContentInv, TodoInv, Todo, NextByte, Beyond, IsByte, Succ, Size
    <2> QED
      BY <1>2, <1>3, <1>4, <2>2, <2>3
  <1> QED
    BY <1>5, <1>6

\* Finish flushes what is buffered.
LEMMA BeginFinishKeeps ==
    ASSUME ColumnInv, BeginFinish
    PROVE  ColumnInv'
  <1> USE DEF ColumnInv
  <1>1. /\ wpc = "append" /\ wpc' = "finish" /\ pages' = pages /\ todo = <<>> /\ UNCHANGED <<reader, rows>>
        /\ buffered \in Nat
    BY DEF BeginFinish, WriterTypes
  <1>2. Boundaries'
    BY BoundariesFinish
  <1>3. ReaderTypes' /\ ReaderInv'
    BY <1>1, ClosedReader
  <1>4. PagesInv'
    BY <1>1 DEF PagesInv
  <1>5. CASE buffered > 0
    <2>1. FlushChunk(buffered)
      BY <1>5 DEF BeginFinish
    <2>2. /\ ContentInv' /\ TodoInv' /\ todo' \in Seq(Byte) /\ chunks' \in Seq(Meta)
          /\ \A c \in 1 .. Len(chunks') : chunks'[c].byte_length > 0
      BY <1>1, <2>1, FlushKeeps
    <2>3. buffered' = 0
      BY <2>1 DEF FlushChunk
    <2>4. WriterTypes'
      BY <1>1, <2>2, <2>3 DEF WriterTypes
    <2> QED
      BY <1>2, <1>3, <1>4, <2>2, <2>4
  <1>6. CASE ~ (buffered > 0)
    <2>1. UNCHANGED <<chunks, todo, buffered>>
      BY <1>6 DEF BeginFinish
    <2>2. WriterTypes'
      BY <1>1, <2>1 DEF WriterTypes
    <2>3. ContentInv' /\ TodoInv'
      BY <1>1, <2>1 DEF ContentInv, TodoInv, Todo, NextByte, Beyond, IsByte, Succ, Size
    <2> QED
      BY <1>2, <1>3, <1>4, <2>2, <2>3
  <1> QED
    BY <1>5, <1>6

\* Write copies.
LEMMA CopyOutPreserves ==
    ASSUME ColumnInv, CopyOut
    PROVE  ColumnInv'
  <1> USE DEF ColumnInv
  <1>1. wpc # "finished" /\ UNCHANGED <<wpc, buffered, rows, chunks, reader>>
    BY DEF CopyOut, WriterTypes
  <1>2. ReaderTypes' /\ ReaderInv'
    BY <1>1, ClosedReader
  <1>3. Boundaries'
    BY <1>1 DEF Boundaries
  <1> QED
    BY <1>2, <1>3, CopyOutKeeps

\* The last page gets its length.
LEMMA EndFinishKeeps ==
    ASSUME ColumnInv, EndFinish
    PROVE  ColumnInv'
  <1> USE DEF ColumnInv
  <1>1. /\ wpc = "finish" /\ wpc' = "finished" /\ todo = <<>> /\ todo' = todo
        /\ UNCHANGED <<buffered, rows, chunks, reader>>
    BY DEF EndFinish
  <1>0. PICK n \in Nat \ {0} : n = Len(pages)
    BY DEF WriterTypes
  <1>2. /\ pages \in Seq(PageType) /\ pages[n] \in PageType /\ Len(pages[n].bytes) \in Nat /\ n \in 1 .. Len(pages)
    BY <1>0, BytesOfPage DEF WriterTypes
  <1>3. /\ pages' \in Seq(PageType) /\ Len(pages') = n
        /\ \A p \in 1 .. n - 1 : pages'[p] = pages[p]
        /\ pages'[n].bytes = pages[n].bytes
        /\ pages'[n].payload_bytes = Len(pages[n].bytes) /\ pages'[n].next = kInvalidPageId
    <2> DEFINE r == [pages[n] EXCEPT !.payload_bytes = Len(pages[n].bytes), !.next = kInvalidPageId]
    <2>1. /\ r \in PageType /\ r.bytes = pages[n].bytes /\ r.payload_bytes = Len(pages[n].bytes)
          /\ r.next = kInvalidPageId
      BY <1>2 DEF PageType, kInvalidPageId
    <2>2. pages' = [pages EXCEPT ![n] = r]
      BY <1>0, <1>2 DEF EndFinish, PageType
    <2> HIDE DEF r
    <2> QED
      BY <1>0, <1>2, <2>1, <2>2
  <1>4. \A p \in 1 .. n : pages'[p].bytes = pages[p].bytes
    BY <1>3
  <1>5. WriterTypes'
    BY <1>0, <1>1, <1>3 DEF WriterTypes
  <1>6. PagesInv'
    BY <1>0, <1>1, <1>3 DEF PagesInv
  <1>7. Boundaries'
    BY <1>1 DEF Boundaries
  <1>8. ReaderTypes' /\ ReaderInv'
    BY <1>1, ClosedReader
  <1>9. ContentInv'
    <2>1. \A p \in 1 .. n : \A k \in 1 .. Len(pages'[p].bytes) : IsByte(pages[p].bytes[k])'
      BY <1>0, <1>1, <1>4 DEF ContentInv, IsByte, Size
    <2>2. \A p \in 1 .. n : \A k \in 1 .. Len(pages'[p].bytes) - 1 :
             pages'[p].bytes[k + 1] = Succ(pages[p].bytes[k])'
      BY <1>0, <1>1, <1>4 DEF ContentInv, Succ, Size
    <2>3. \A p \in 1 .. n - 1 : pages'[p + 1].bytes[1] = Succ(pages[p].bytes[PayloadCapacity])'
      <3> SUFFICES ASSUME NEW p \in 1 .. n - 1
                   PROVE  pages'[p + 1].bytes[1] = Succ(pages[p].bytes[PayloadCapacity])'
        OBVIOUS
      <3>1. pages'[p].bytes = pages[p].bytes /\ pages'[p + 1].bytes = pages[p + 1].bytes
        BY <1>4
      <3> QED
        BY <1>0, <1>1, <3>1 DEF ContentInv, Succ, Size
    <2>4. Len(pages'[1].bytes) > 0 => pages'[1].bytes[1] = <<1, 1>>
      BY <1>0, <1>4 DEF ContentInv
    <2> QED
      BY <1>3, <2>1, <2>2, <2>3, <2>4 DEF ContentInv
  <1>10. TodoInv'
    <2>1. NextByte' = NextByte
      BY <1>0, <1>1, <1>3 DEF NextByte, Succ, Size
    <2> QED
      BY <1>1, <2>1 DEF TodoInv, Todo, Beyond
  <1> QED
    BY <1>5, <1>6, <1>7, <1>8, <1>9, <1>10

-----------------------------------------------------------------------------
(* Positions in the pages.                                                 *)

\* Past a byte comes its successor.
LEMMA AtStep ==
    ASSUME WriterTypes, PagesInv, ContentInv, TodoInv, wpc = "finished",
           NEW p \in 1 .. Len(pages), NEW o \in Nat, o < Len(pages[p].bytes)
    PROVE  /\ At(p, o) = pages[p].bytes[o + 1] /\ At(p, o) \in Byte /\ IsByte(At(p, o))
           /\ At(p, o + 1) = Succ(At(p, o))
  <1>1. Len(pages[p].bytes) \in Nat /\ Len(pages) \in Nat
    BY BytesOfPage DEF WriterTypes
  <1>2. o + 1 \in 1 .. Len(pages[p].bytes)
    BY <1>1
  <1>3. At(p, o) = pages[p].bytes[o + 1] /\ At(p, o) \in Byte /\ IsByte(At(p, o))
    <2>1. At(p, o) = pages[p].bytes[o + 1]
      BY DEF At
    <2> QED
      BY <1>2, <2>1, BytesOfPage DEF ContentInv
  <1>4. CASE o + 1 < Len(pages[p].bytes)
    <2>1. At(p, o + 1) = pages[p].bytes[(o + 1) + 1] /\ o + 1 \in 1 .. Len(pages[p].bytes) - 1
      BY <1>1, <1>4 DEF At
    <2> QED
      BY <1>3, <2>1 DEF ContentInv
  <1>5. CASE o + 1 = Len(pages[p].bytes) /\ p < Len(pages)
    <2>1. Len(pages[p].bytes) = PayloadCapacity /\ p \in 1 .. Len(pages) - 1
      BY <1>1, <1>5 DEF PagesInv
    <2>2. At(p, o + 1) = pages[p + 1].bytes[1]
      BY <1>1, <1>5 DEF At
    <2> QED
      BY <1>3, <1>5, <2>1, <2>2 DEF ContentInv
  <1>6. CASE o + 1 = Len(pages[p].bytes) /\ p = Len(pages)
    <2>1. At(p, o + 1) = Beyond
      BY <1>1, <1>6 DEF At
    <2>2. Beyond = NextByte
      BY DEF WriterTypes, TodoInv, Todo
    <2>3. NextByte = Succ(pages[p].bytes[o + 1])
      BY <1>6 DEF NextByte
    <2> QED
      BY <1>3, <2>1, <2>2, <2>3
  <1> QED
    BY <1>1, <1>3, <1>4, <1>5, <1>6

\* The end of the last page is the only place with nothing after it.
LEMMA AtBeyond ==
    ASSUME WriterTypes, PagesInv, ContentInv, TodoInv, wpc = "finished",
           NEW p \in 1 .. Len(pages), NEW o \in Nat, o <= Len(pages[p].bytes)
    PROVE  At(p, o) = Beyond <=> o = Len(pages[p].bytes) /\ p = Len(pages)
  <1>1. Len(pages[p].bytes) \in Nat /\ Len(pages) \in Nat /\ Len(chunks) \in Nat
    BY BytesOfPage DEF WriterTypes
  <1>2. \A b : IsByte(b) => b # Beyond
    BY <1>1 DEF IsByte, Beyond
  <1>3. CASE o < Len(pages[p].bytes)
    BY <1>1, <1>2, <1>3, AtStep
  <1>4. CASE o = Len(pages[p].bytes) /\ p < Len(pages)
    <2>1. At(p, o) = pages[p + 1].bytes[1] /\ p + 1 \in 1 .. Len(pages)
      BY <1>1, <1>4 DEF At
    <2>2. 1 \in 1 .. Len(pages[p + 1].bytes)
      <3>1. Len(pages[p + 1].bytes) \in Nat
        BY <2>1, BytesOfPage
      <3>2. CASE p + 1 = Len(pages)
        BY <1>1, <3>1, <3>2 DEF PagesInv
      <3>3. CASE p + 1 < Len(pages)
        BY <1>1, <3>1, <3>3, ColumnFileAssumption DEF PagesInv
      <3> QED
        BY <1>1, <2>1, <3>2, <3>3
    <2>3. IsByte(pages[p + 1].bytes[1])
      BY <2>1, <2>2 DEF ContentInv
    <2> QED
      BY <1>1, <1>2, <1>4, <2>1, <2>3
  <1>5. CASE o = Len(pages[p].bytes) /\ p = Len(pages)
    BY <1>1, <1>5 DEF At
  <1> QED
    BY <1>1, <1>3, <1>4, <1>5

\* A run of m bytes of chunk c within page p.
Run(p, o, m, c, k) ==
    /\ p \in 1 .. Len(pages) /\ o \in Nat /\ m \in Nat /\ o + m <= Len(pages[p].bytes)
    /\ c \in 1 .. Len(chunks) /\ k \in Nat \ {0} /\ k + m <= Size(c) + 1
    /\ At(p, o) = <<c, k>>

RunRead(p, o, m, c, k) ==
    /\ \A j \in 1 .. m : pages[p].bytes[o + j] = <<c, k + j - 1>>
    /\ m > 0 => At(p, o + m) = IF k + m <= Size(c) THEN <<c, k + m>> ELSE <<c + 1, 1>>

LEMMA AtRun ==
    ASSUME WriterTypes, PagesInv, ContentInv, TodoInv, wpc = "finished",
           NEW p, NEW o, NEW m, NEW c, NEW k, Run(p, o, m, c, k)
    PROVE  RunRead(p, o, m, c, k)
  <1> USE DEF Run, RunRead
  <1>0. Len(pages[p].bytes) \in Nat /\ Size(c) \in Nat
    BY BytesOfPage, SizeFacts
  <1> DEFINE Claim(j) == j < m => At(p, o + j) = <<c, k + j>>
             T == {j \in Nat : Claim(j)}
  <1>1. 0 \in T
    OBVIOUS
  <1>2. ASSUME NEW j \in Nat, j \in T PROVE j + 1 \in T
    <2> SUFFICES ASSUME j + 1 < m PROVE At(p, o + (j + 1)) = <<c, k + (j + 1)>>
      OBVIOUS
    <2>1. At(p, o + j) = <<c, k + j>>
      BY <1>2
    <2>2. o + j \in Nat /\ o + j < Len(pages[p].bytes) /\ o + (j + 1) = (o + j) + 1
      BY <1>0
    <2>3. At(p, (o + j) + 1) = Succ(At(p, o + j))
      BY <2>2, AtStep
    <2>4. k + j < Size(c) /\ k + (j + 1) = (k + j) + 1
      BY <1>0
    <2> QED
      BY <2>1, <2>2, <2>3, <2>4 DEF Succ
  <1> HIDE DEF T
  <1>3. \A j \in Nat : j \in T
    BY <1>1, <1>2, Induction
  <1>4. ASSUME NEW j \in 1 .. m PROVE pages[p].bytes[o + j] = <<c, k + j - 1>>
    <2>1. j - 1 \in Nat /\ j - 1 < m /\ o + (j - 1) \in Nat /\ o + (j - 1) < Len(pages[p].bytes)
          /\ (o + (j - 1)) + 1 = o + j /\ k + (j - 1) = k + j - 1
      BY <1>0
    <2>2. At(p, o + (j - 1)) = <<c, k + (j - 1)>>
      BY <1>3, <2>1 DEF T
    <2>3. At(p, o + (j - 1)) = pages[p].bytes[(o + (j - 1)) + 1]
      BY <2>1, AtStep
    <2> QED
      BY <2>1, <2>2, <2>3
  <1>5. ASSUME m > 0 PROVE At(p, o + m) = IF k + m <= Size(c) THEN <<c, k + m>> ELSE <<c + 1, 1>>
    <2>1. m - 1 \in Nat /\ m - 1 < m /\ o + (m - 1) \in Nat /\ o + (m - 1) < Len(pages[p].bytes)
          /\ (o + (m - 1)) + 1 = o + m
      BY <1>0, <1>5
    <2>2. At(p, o + (m - 1)) = <<c, k + (m - 1)>>
      BY <1>3, <2>1 DEF T
    <2>3. At(p, o + m) = Succ(At(p, o + (m - 1)))
      BY <2>1, AtStep
    <2>4. /\ k + (m - 1) < Size(c) <=> k + m <= Size(c)
          /\ (k + (m - 1)) + 1 = k + m
      BY <1>0, <1>5
    <2>5. Succ(<<c, k + (m - 1)>>) =
            IF k + (m - 1) < Size(c) THEN <<c, (k + (m - 1)) + 1>> ELSE <<c + 1, 1>>
      BY DEF Succ
    <2> QED
      BY <2>2, <2>3, <2>4, <2>5
  <1> QED
    BY <1>4, <1>5

\* The stream starts with the first chunk.
LEMMA AtStart ==
    ASSUME WriterTypes, PagesInv, ContentInv, TodoInv, wpc = "finished"
    PROVE  /\ At(1, 0) = <<1, 1>>
           /\ pages[1].payload_bytes = 0 <=> <<1, 1>> = Beyond
           /\ pages[1].payload_bytes = Len(pages[1].bytes)
  <1>1. Len(pages) \in Nat /\ 1 \in 1 .. Len(pages) /\ Len(pages[1].bytes) \in Nat
    BY BytesOfPage DEF WriterTypes
  <1>2. pages[1].payload_bytes = Len(pages[1].bytes)
    <2>1. CASE Len(pages) = 1
      BY <2>1 DEF PagesInv
    <2>2. CASE Len(pages) > 1
      BY <1>1, <2>2 DEF PagesInv
    <2> QED
      BY <1>1, <2>1, <2>2
  <1>3. CASE Len(pages[1].bytes) > 0
    <2>1. At(1, 0) = <<1, 1>>
      BY <1>1, <1>3 DEF At, ContentInv
    <2>2. 0 \in Nat /\ 0 <= Len(pages[1].bytes) /\ 0 # Len(pages[1].bytes)
      BY <1>1, <1>3
    <2>3. At(1, 0) # Beyond
      BY <1>1, <2>2, AtBeyond
    <2> QED
      BY <1>1, <1>2, <1>3, <2>1, <2>3
  <1>4. CASE Len(pages[1].bytes) = 0
    <2>1. Len(pages) = 1
      <3>1. Len(pages) > 1 => Len(pages[1].bytes) = PayloadCapacity
        BY <1>1 DEF PagesInv
      <3>2. PayloadCapacity # 0
        BY ColumnFileAssumption
      <3>3. Len(pages) \in Nat /\ Len(pages) >= 1 /\ ~ (Len(pages) > 1)
        BY <1>4, <3>1, <3>2 DEF WriterTypes
      <3>4. \A n \in Nat : n >= 1 /\ ~ (n > 1) => n = 1
        OBVIOUS
      <3> QED
        BY <3>3, <3>4, Zenon
    <2>2. NextByte = <<1, 1>>
      BY <1>4, <2>1 DEF NextByte
    <2>3. Beyond = <<1, 1>>
      BY <2>2 DEF WriterTypes, TodoInv, Todo
    <2>4. At(1, 0) = Beyond
      BY <1>1, <1>4, <2>1 DEF At
    <2> QED
      BY <1>2, <1>4, <2>3, <2>4
  <1> QED
    BY <1>1, <1>3, <1>4

\* A finished page says how long it is.
LEMMA PayloadIsLength ==
    ASSUME WriterTypes, PagesInv, wpc = "finished", NEW p \in 1 .. Len(pages)
    PROVE  /\ pages[p].payload_bytes = Len(pages[p].bytes)
           /\ pages[p].next = IF p < Len(pages) THEN p + 1 ELSE kInvalidPageId
  <1>1. Len(pages) \in Nat
    BY DEF WriterTypes
  <1>2. CASE p = Len(pages)
    BY <1>1, <1>2 DEF PagesInv
  <1>3. CASE p \in 1 .. Len(pages) - 1
    BY <1>1, <1>3 DEF PagesInv
  <1> QED
    BY <1>1, <1>2, <1>3

-----------------------------------------------------------------------------
(* The reader.                                                             *)

\* What no step of the reader changes.
LEMMA WriterUnchanged ==
    ASSUME ColumnInv, UNCHANGED writer
    PROVE  /\ WriterTypes' /\ Boundaries' /\ PagesInv' /\ ContentInv' /\ TodoInv'
           /\ Beyond' = Beyond /\ \A p, o : At(p, o)' = At(p, o)
           /\ UNCHANGED <<wpc, chunks, pages>>
  <1> USE DEF writer, ColumnInv
  <1>1. WriterTypes' /\ Boundaries' /\ PagesInv'
    BY DEF WriterTypes, Boundaries, PagesInv
  <1>2. ContentInv' /\ TodoInv'
    BY DEF ContentInv, TodoInv, Todo, NextByte, Beyond, IsByte, Succ, Size
  <1>3. Beyond' = Beyond /\ \A p, o : At(p, o)' = At(p, o)
    BY DEF Beyond, At
  <1> QED
    BY <1>1, <1>2, <1>3

\* The reader opens the column.
LEMMA OpenReaderKeeps ==
    ASSUME ColumnInv, OpenReader
    PROVE  ColumnInv'
  <1>1. /\ WriterTypes' /\ Boundaries' /\ PagesInv' /\ ContentInv' /\ TodoInv'
        /\ Beyond' = Beyond /\ UNCHANGED <<wpc, chunks, pages>> /\ \A p, o : At(p, o)' = At(p, o)
    BY WriterUnchanged DEF OpenReader
  <1>2. /\ WriterTypes /\ PagesInv /\ ContentInv /\ TodoInv /\ ReaderTypes /\ ReaderInv
    BY DEF ColumnInv
  <1>3. /\ wpc = "finished" /\ rpc = "closed" /\ rpc' = "idle" /\ cur' = 1 /\ offset' = 0
        /\ at_end' = (at_end \/ pages[1].payload_bytes = 0)
        /\ UNCHANGED <<want, got, meta, consumed, resume, nread>>
    BY DEF OpenReader, LoadPage
  <1>4. nread = 0 /\ consumed /\ ~ at_end
    BY <1>2, <1>3 DEF ReaderInv
  <1>5. ReaderTypes'
    <2>1. at_end' \in BOOLEAN
      BY <1>3, Zenon
    <2> QED
      BY <1>2, <1>3, <2>1 DEF ReaderTypes
  <1>6. Expected' = <<1, 1>>
    BY <1>3, <1>4 DEF Expected
  <1>7. /\ At(1, 0) = <<1, 1>>
        /\ pages[1].payload_bytes = 0 <=> <<1, 1>> = Beyond
    BY <1>2, <1>3, AtStart
  <1>8. at_end' <=> Expected' = Beyond'
    <2>1. at_end' <=> pages[1].payload_bytes = 0
      BY <1>3, <1>4, Zenon
    <2> QED
      BY <1>1, <1>6, <1>7, <2>1
  <1>9. At(cur, offset)' = Expected'
    <2>1. At(cur, offset)' = At(1, 0)
      BY <1>1, <1>3 DEF At
    <2> QED
      BY <1>6, <1>7, <2>1
  <1>10. ReaderInv'
    <2>1. Len(pages) \in Nat /\ 1 \in 1 .. Len(pages) /\ Len(pages[1].bytes) \in Nat /\ Len(chunks) \in Nat
      BY <1>2, BytesOfPage DEF WriterTypes
    <2>2. /\ wpc' = "finished" /\ cur' \in 1 .. Len(pages') /\ offset' <= Len(pages'[cur'].bytes)
          /\ nread' <= Len(chunks') /\ consumed' /\ rpc' = "idle"
      BY <1>1, <1>3, <1>4, <2>1
    <2> QED
      BY <1>8, <1>9, <2>2 DEF ReaderInv, Busy
  <1> QED
    BY <1>1, <1>5, <1>10 DEF ColumnInv

\* What holds while the column is open.
LEMMA OpenFacts ==
    ASSUME ColumnInv, rpc # "closed"
    PROVE  /\ WriterTypes /\ PagesInv /\ ContentInv /\ TodoInv /\ ReaderTypes /\ ReaderInv
           /\ wpc = "finished"
           /\ cur \in 1 .. Len(pages) /\ offset \in Nat /\ offset <= Len(pages[cur].bytes)
           /\ Len(pages[cur].bytes) \in Nat /\ Len(pages) \in Nat /\ Len(chunks) \in Nat
           /\ nread \in Nat /\ nread <= Len(chunks) /\ want \in Nat
           /\ got \in Seq(Byte) /\ Len(got) \in Nat
           /\ HeaderSize \in Nat \ {0}
           /\ At(cur, offset) = Expected
           /\ pages[cur].payload_bytes = Len(pages[cur].bytes)
           /\ pages[cur].next = IF cur < Len(pages) THEN cur + 1 ELSE kInvalidPageId
           /\ kInvalidPageId = 0
           /\ Exhausted <=> Expected = Beyond
  <1>1. /\ WriterTypes /\ PagesInv /\ ContentInv /\ TodoInv /\ ReaderTypes /\ ReaderInv
        /\ wpc = "finished"
        /\ cur \in 1 .. Len(pages) /\ offset \in Nat /\ offset <= Len(pages[cur].bytes)
        /\ nread \in Nat /\ nread <= Len(chunks) /\ want \in Nat
        /\ got \in Seq(Byte) /\ HeaderSize \in Nat \ {0}
        /\ At(cur, offset) = Expected
    BY ColumnFileAssumption DEF ColumnInv, ReaderInv, ReaderTypes
  <1>2. Len(pages[cur].bytes) \in Nat /\ Len(pages) \in Nat /\ Len(chunks) \in Nat /\ Len(got) \in Nat
    BY <1>1, BytesOfPage DEF WriterTypes
  <1>3. /\ pages[cur].payload_bytes = Len(pages[cur].bytes)
        /\ pages[cur].next = IF cur < Len(pages) THEN cur + 1 ELSE kInvalidPageId
    BY <1>1, PayloadIsLength
  <1>4. At(cur, offset) = Beyond <=> offset = Len(pages[cur].bytes) /\ cur = Len(pages)
    BY <1>1, AtBeyond
  <1>5. kInvalidPageId = 0
    BY DEF kInvalidPageId
  <1>6. Exhausted <=> offset = Len(pages[cur].bytes) /\ cur = Len(pages)
    BY <1>1, <1>2, <1>3, <1>5 DEF Exhausted
  <1> QED
    BY <1>1, <1>2, <1>3, <1>4, <1>5, <1>6

\* A step that stays in place: the rest of ReaderInv follows from where the
\* reader then takes itself to be.
LEMMA StaysInPlace ==
    ASSUME ColumnInv, rpc # "closed", UNCHANGED <<writer, cur, offset>>, ReaderTypes', rpc' # "closed",
           nread' <= Len(chunks), Expected' = Expected,
           rpc' = "header" =>
             /\ nread' < Len(chunks) /\ want' + Len(got') = HeaderSize
             /\ \A k \in 1 .. Len(got') : got'[k] = <<nread' + 1, k>>,
           rpc' \in {"payload", "skip"} =>
             /\ want' + Len(got') = meta'.byte_length
             /\ \A k \in 1 .. Len(got') : got'[k] = <<nread', HeaderSize + k>>,
           rpc' \in {"payload", "skip"} \/ (rpc' = "idle" /\ ~ consumed') => nread' >= 1 /\ meta' = chunks[nread'],
           rpc' \in {"header", "payload", "skip"} => ~ at_end',
           rpc' = "idle" => (at_end' <=> Expected = Beyond),
           rpc' = "end" => nread' = Len(chunks)
    PROVE  ColumnInv'
  <1>1. /\ WriterTypes' /\ Boundaries' /\ PagesInv' /\ ContentInv' /\ TodoInv'
        /\ Beyond' = Beyond /\ UNCHANGED <<wpc, chunks, pages>>
    BY WriterUnchanged
  <1>2. /\ wpc = "finished" /\ cur \in 1 .. Len(pages) /\ offset <= Len(pages[cur].bytes)
        /\ At(cur, offset) = Expected
    BY OpenFacts
  <1>3. At(cur, offset)' = Expected'
    BY <1>1, <1>2 DEF At, Beyond
  <1>4. ReaderInv'
    <2>1. /\ wpc' = "finished" /\ cur' \in 1 .. Len(pages') /\ offset' <= Len(pages'[cur'].bytes)
          /\ nread' <= Len(chunks')
      BY <1>1, <1>2
    <2>2. Busy' <=> rpc' \in {"header", "payload", "skip"}
      BY DEF Busy
    <2>3. Beyond' = Beyond /\ chunks' = chunks /\ pages' = pages
      BY <1>1
    <2> QED
      BY <1>3, <2>1, <2>2, <2>3 DEF ReaderInv
  <1> QED
    BY <1>1, <1>4 DEF ColumnInv

\* NextChunk starts.
LEMMA NextChunkKeeps ==
    ASSUME ColumnInv, NextChunk
    PROVE  ColumnInv'
  <1>1. /\ rpc = "idle" /\ rpc # "closed" /\ got' = <<>>
        /\ UNCHANGED <<writer, cur, offset, at_end, meta, consumed, nread>>
    BY DEF NextChunk
  <1>2. /\ ReaderTypes /\ ReaderInv /\ nread \in Nat /\ nread <= Len(chunks) /\ Len(chunks) \in Nat
        /\ HeaderSize \in Nat \ {0} /\ meta \in Meta /\ consumed \in BOOLEAN /\ at_end \in BOOLEAN
    BY <1>1, OpenFacts DEF ReaderTypes
  <1>3. at_end <=> Expected = Beyond
    BY <1>1, <1>2 DEF ReaderInv
  <1>4. got' \in Seq(Byte) /\ Len(got') = 0
    BY <1>1
  <1>5. CASE ~ consumed
    <2>1. rpc' = "skip" /\ want' = meta.byte_length /\ resume' = TRUE
      BY <1>5 DEF NextChunk
    <2>2. nread >= 1 /\ meta = chunks[nread]
      BY <1>1, <1>2, <1>5 DEF ReaderInv
    <2>3. meta.byte_length \in Nat /\ meta.byte_length > 0
      <3>1. WriterTypes /\ nread \in 1 .. Len(chunks)
        BY <1>1, <1>2, <2>2, OpenFacts
      <3> QED
        BY <1>2, <2>2, <3>1 DEF Meta, WriterTypes
    <2>4. Expected = <<nread, HeaderSize + 1>>
      BY <1>1, <1>5 DEF Expected
    <2>5. Expected' = <<nread, HeaderSize + 1>>
      BY <1>1, <1>2, <1>4, <2>1, <2>3 DEF Expected
    <2>6. Expected # Beyond
      BY <1>2, <2>4 DEF Beyond
    <2>7. ~ at_end'
      BY <1>1, <1>3, <2>6
    <2>8. ReaderTypes'
      BY <1>1, <1>2, <1>4, <2>1, <2>3 DEF ReaderTypes
    <2>9. want' + Len(got') = meta'.byte_length /\ nread' = nread /\ meta' = meta /\ rpc' = "skip"
      BY <1>1, <1>4, <2>1, <2>3
    <2>10. \A k \in 1 .. Len(got') : got'[k] = <<nread', HeaderSize + k>>
      BY <1>4
    <2> QED
      BY <1>1, <1>2, <2>2, <2>4, <2>5, <2>7, <2>8, <2>9, <2>10, StaysInPlace
  <1>6. CASE consumed /\ at_end
    <2>1. rpc' = "end" /\ UNCHANGED <<want, resume>>
      BY <1>6 DEF NextChunk
    <2>2. Expected = <<nread + 1, 1>> /\ Expected = Beyond
      BY <1>1, <1>3, <1>6 DEF Expected
    <2>3. nread = Len(chunks)
      BY <1>2, <2>2 DEF Beyond
    <2>4. Expected' = <<nread + 1, 1>>
      BY <1>1, <2>1 DEF Expected
    <2>5. ReaderTypes'
      BY <1>1, <1>2, <1>4, <2>1 DEF ReaderTypes
    <2> QED
      BY <1>1, <1>2, <2>1, <2>2, <2>3, <2>4, <2>5, StaysInPlace
  <1>7. CASE consumed /\ ~ at_end
    <2>1. rpc' = "header" /\ want' = HeaderSize /\ UNCHANGED resume
      BY <1>7 DEF NextChunk
    <2>2. Expected = <<nread + 1, 1>> /\ Expected # Beyond
      BY <1>1, <1>3, <1>7 DEF Expected
    <2>3. nread < Len(chunks)
      BY <1>2, <2>2 DEF Beyond
    <2>4. Expected' = <<nread + 1, 1>>
      BY <1>1, <1>4, <2>1 DEF Expected
    <2>5. ReaderTypes'
      BY <1>1, <1>2, <1>4, <2>1 DEF ReaderTypes
    <2>6. want' + Len(got') = HeaderSize /\ nread' = nread /\ ~ at_end'
      BY <1>1, <1>2, <1>4, <1>7, <2>1
    <2>7. \A k \in 1 .. Len(got') : got'[k] = <<nread' + 1, k>>
      BY <1>4
    <2> QED
      BY <1>1, <1>2, <2>1, <2>2, <2>3, <2>4, <2>5, <2>6, <2>7, StaysInPlace
  <1> QED
    BY <1>2, <1>5, <1>6, <1>7

\* Decode and SkipPayload start.
LEMMA PayloadKeeps ==
    ASSUME ColumnInv, Decode \/ SkipPayload
    PROVE  ColumnInv'
  <1>1. /\ rpc = "idle" /\ rpc # "closed" /\ ~ consumed /\ got' = <<>> /\ want' = meta.byte_length
        /\ rpc' \in {"payload", "skip"} /\ (resume' = resume \/ resume' = FALSE)
        /\ UNCHANGED <<writer, cur, offset, at_end, meta, consumed, nread>>
    BY DEF Decode, SkipPayload
  <1>2. /\ ReaderTypes /\ ReaderInv /\ nread \in Nat /\ nread <= Len(chunks) /\ Len(chunks) \in Nat
        /\ HeaderSize \in Nat \ {0} /\ meta \in Meta
    BY <1>1, OpenFacts DEF ReaderTypes
  <1>3. at_end <=> Expected = Beyond
    BY <1>1, <1>2 DEF ReaderInv
  <1>4. got' \in Seq(Byte) /\ Len(got') = 0
    BY <1>1
  <1>5. nread >= 1 /\ meta = chunks[nread]
    BY <1>1, <1>2 DEF ReaderInv
  <1>6. meta.byte_length \in Nat /\ meta.byte_length > 0
    <2>1. WriterTypes /\ nread \in 1 .. Len(chunks)
      BY <1>1, <1>2, <1>5, OpenFacts
    <2> QED
      BY <1>2, <1>5, <2>1 DEF Meta, WriterTypes
  <1>7. Expected = <<nread, HeaderSize + 1>>
    BY <1>1 DEF Expected
  <1>8. Expected' = <<nread, HeaderSize + 1>>
    BY <1>1, <1>2, <1>4, <1>6 DEF Expected
  <1>9. Expected # Beyond
    BY <1>2, <1>7 DEF Beyond
  <1>10. ~ at_end'
    BY <1>1, <1>3, <1>9
  <1>11. ReaderTypes'
    <2>1. resume' \in BOOLEAN
      BY <1>1, <1>2 DEF ReaderTypes
    <2> QED
      BY <1>1, <1>2, <1>4, <1>6, <2>1 DEF ReaderTypes
  <1>12. want' + Len(got') = meta'.byte_length /\ nread' = nread /\ meta' = meta
    BY <1>1, <1>4, <1>6
  <1>13. \A k \in 1 .. Len(got') : got'[k] = <<nread', HeaderSize + k>>
    BY <1>4
  <1> QED
    BY <1>1, <1>2, <1>5, <1>7, <1>8, <1>10, <1>11, <1>12, <1>13, StaysInPlace

\* What the reader is reading: bytes of one chunk, after the first base ones,
\* and there are at least as many as it wants.
Reading(c, base) ==
    /\ c = IF rpc = "header" THEN nread + 1 ELSE nread
    /\ base = IF rpc = "header" THEN 0 ELSE HeaderSize
    /\ base + Len(got) + want = IF rpc = "header" THEN HeaderSize ELSE Size(c)
    /\ \A k \in 1 .. Len(got) : got[k] = <<c, base + k>>

LEMMA BusyFacts ==
    ASSUME ColumnInv, Busy
    PROVE  \E c \in 1 .. Len(chunks), base \in Nat :
             /\ Reading(c, base)
             /\ base + Len(got) + want <= Size(c) /\ (rpc = "header" => base + Len(got) + want < Size(c))
             /\ want > 0 => Expected = <<c, base + Len(got) + 1>>
  <1>0. rpc # "closed"
    BY DEF Busy
  <1>1. /\ WriterTypes /\ ReaderInv /\ ReaderTypes /\ nread \in Nat /\ Len(chunks) \in Nat /\ nread <= Len(chunks)
        /\ want \in Nat /\ Len(got) \in Nat /\ HeaderSize \in Nat \ {0}
    BY <1>0, OpenFacts
  <1>2. CASE rpc = "header"
    <2>1. /\ nread < Len(chunks) /\ want + Len(got) = HeaderSize
          /\ \A k \in 1 .. Len(got) : got[k] = <<nread + 1, k>>
      BY <1>1, <1>2 DEF ReaderInv
    <2>2. nread + 1 \in 1 .. Len(chunks) /\ 0 \in Nat
      BY <1>1, <2>1
    <2>3. Size(nread + 1) \in Nat /\ Size(nread + 1) > HeaderSize
      BY <1>1, <2>2, SizeFacts
    <2>4. Reading(nread + 1, 0)
      BY <1>1, <1>2, <2>1 DEF Reading
    <2>5. Expected = <<nread + 1, 0 + Len(got) + 1>>
      BY <1>1, <1>2 DEF Expected
    <2>6. 0 + Len(got) + want = HeaderSize
      BY <1>1, <2>1
    <2> QED
      BY <1>1, <2>2, <2>3, <2>4, <2>5, <2>6
  <1>3. CASE rpc \in {"payload", "skip"}
    <2>1. /\ nread >= 1 /\ want + Len(got) = chunks[nread].byte_length
          /\ \A k \in 1 .. Len(got) : got[k] = <<nread, HeaderSize + k>>
      BY <1>1, <1>3 DEF ReaderInv
    <2>2. nread \in 1 .. Len(chunks)
      BY <1>1, <2>1
    <2>3. Size(nread) \in Nat /\ Size(nread) = HeaderSize + (want + Len(got))
      BY <1>1, <2>1, <2>2, SizeFacts DEF Size
    <2>4. HeaderSize + Len(got) + want = Size(nread)
      BY <1>1, <2>3
    <2>5. Reading(nread, HeaderSize)
      BY <1>3, <2>1, <2>4 DEF Reading
    <2>6. want > 0 => Expected = <<nread, HeaderSize + Len(got) + 1>>
      BY <1>3 DEF Expected
    <2> QED
      BY <1>1, <1>3, <2>2, <2>3, <2>4, <2>5, <2>6
  <1> QED
    BY <1>2, <1>3 DEF Busy

\* Bytes of the current page.
LEMMA AdvanceBytesKeeps ==
    ASSUME ColumnInv, AdvanceBytes
    PROVE  ColumnInv'
  <1> DEFINE avail == pages[cur].payload_bytes - offset
             take == IF avail < want THEN avail ELSE want
             x == SubSeq(pages[cur].bytes, offset + 1, offset + take)
  <1>1. /\ Busy /\ want > 0 /\ ~ at_end /\ offset # pages[cur].payload_bytes
        /\ got' = got \o x /\ offset' = offset + take /\ want' = want - take
        /\ UNCHANGED <<writer, rpc, cur, at_end, meta, consumed, resume, nread>>
    BY DEF AdvanceBytes
  <1>0. rpc # "closed"
    BY <1>1 DEF Busy
  <1>2. /\ WriterTypes /\ PagesInv /\ ContentInv /\ TodoInv /\ ReaderTypes /\ ReaderInv
        /\ wpc = "finished"
        /\ cur \in 1 .. Len(pages) /\ offset \in Nat /\ offset <= Len(pages[cur].bytes)
        /\ Len(pages[cur].bytes) \in Nat /\ want \in Nat
        /\ got \in Seq(Byte) /\ Len(got) \in Nat
        /\ At(cur, offset) = Expected
        /\ pages[cur].payload_bytes = Len(pages[cur].bytes)
    BY <1>0, OpenFacts
  <1>a. PICK len \in Nat : len = Len(pages[cur].bytes)
    BY <1>2
  <1>b. avail = len - offset /\ avail \in Nat /\ avail > 0
    BY <1>1, <1>2, <1>a
  <1> HIDE DEF avail
  <1>3. PICK m \in Nat : m = take
    BY <1>2, <1>b
  <1>c. m > 0 /\ m <= want /\ offset + m <= len
    BY <1>1, <1>2, <1>3, <1>b
  <1>4. m > 0 /\ m <= want /\ offset + m <= Len(pages[cur].bytes)
    BY <1>a, <1>c
  <1>5. got' = got \o SubSeq(pages[cur].bytes, offset + 1, offset + m) /\ offset' = offset + m /\ want' = want - m
    BY <1>1, <1>3
  <1> HIDE DEF take, x
  <1>6. PICK c \in 1 .. Len(chunks), base \in Nat :
             /\ Reading(c, base)
             /\ base + Len(got) + want <= Size(c) /\ (rpc = "header" => base + Len(got) + want < Size(c))
             /\ want > 0 => Expected = <<c, base + Len(got) + 1>>
    BY <1>1, BusyFacts
  <1>7. Size(c) \in Nat
    BY <1>2, SizeFacts
  <1>8. PICK k \in Nat \ {0} : k = base + Len(got) + 1
    BY <1>2, <1>6
  <1>d. /\ Len(got) \in Nat /\ want \in Nat /\ base \in Nat /\ m \in Nat /\ Size(c) \in Nat
        /\ k = base + Len(got) + 1 /\ m <= want /\ m > 0
        /\ base + Len(got) + want <= Size(c)
        /\ rpc = "header" => base + Len(got) + want < Size(c)
        /\ rpc # "header" => base + Len(got) + want = Size(c)
    BY <1>2, <1>3, <1>4, <1>6, <1>7, <1>8 DEF Reading
  <1>e. k + m <= Size(c) + 1
    BY <1>d
  <1>9. k + m <= Size(c) + 1 /\ At(cur, offset) = <<c, k>>
    BY <1>1, <1>2, <1>6, <1>8, <1>e
  <1>10. /\ \A j \in 1 .. m : pages[cur].bytes[offset + j] = <<c, k + j - 1>>
         /\ At(cur, offset + m) = IF k + m <= Size(c) THEN <<c, k + m>> ELSE <<c + 1, 1>>
    <2>1. /\ c \in 1 .. Len(chunks) /\ k \in Nat \ {0} /\ m \in Nat /\ cur \in 1 .. Len(pages) /\ offset \in Nat
      BY <1>2, <1>3, <1>6, <1>8
    <2>2. /\ WriterTypes /\ PagesInv /\ ContentInv /\ TodoInv /\ wpc = "finished"
          /\ offset + m <= Len(pages[cur].bytes) /\ k + m <= Size(c) + 1 /\ At(cur, offset) = <<c, k>>
      BY <1>2, <1>4, <1>9
    <2>3. /\ \A j \in 1 .. m : pages[cur].bytes[offset + j] = <<c, k + j - 1>>
          /\ m > 0 => At(cur, offset + m) = IF k + m <= Size(c) THEN <<c, k + m>> ELSE <<c + 1, 1>>
      <3>1. Run(cur, offset, m, c, k)
        BY <2>1, <2>2 DEF Run
      <3>2. RunRead(cur, offset, m, c, k)
        BY <2>2, <3>1, AtRun
      <3> QED
        BY <3>2 DEF RunRead
    <2> QED
      BY <1>4, <2>3
  <1>11. pages[cur].bytes \in Seq(Byte)
    BY <1>2, BytesOfPage
  <1>12. /\ SubSeq(pages[cur].bytes, offset + 1, offset + m) \in Seq(Byte)
         /\ Len(SubSeq(pages[cur].bytes, offset + 1, offset + m)) = m
         /\ \A j \in 1 .. m : SubSeq(pages[cur].bytes, offset + 1, offset + m)[j] = pages[cur].bytes[offset + j]
    <2>1. m \in Nat /\ offset \in Nat
      BY <1>2, <1>3
    <2> QED
      <3>1. \A s \in Seq(Byte), o \in Nat :
              o + m <= Len(s) =>
                /\ SubSeq(s, o + 1, o + m) \in Seq(Byte)
                /\ Len(SubSeq(s, o + 1, o + m)) = m
                /\ \A j \in 1 .. m : SubSeq(s, o + 1, o + m)[j] = s[o + j]
        BY SliceFacts
      <3> QED
        BY <1>4, <1>11, <2>1, <3>1, Zenon
  <1>13. /\ got' \in Seq(Byte) /\ Len(got') = Len(got) + m
         /\ \A j \in 1 .. Len(got) + m : got'[j] = <<c, base + j>>
    <2> DEFINE y == SubSeq(pages[cur].bytes, offset + 1, offset + m)
    <2>1. y \in Seq(Byte) /\ Len(y) = m /\ got' = got \o y
      BY <1>5, <1>12
    <2>2. \A j \in 1 .. m : y[j] = <<c, k + j - 1>>
      BY <1>10, <1>12
    <2> HIDE DEF y
    <2>3. /\ got \o y \in Seq(Byte) /\ Len(got \o y) = Len(got) + m
          /\ \A j \in 1 .. Len(got) : (got \o y)[j] = got[j]
          /\ \A j \in 1 .. m : (got \o y)[Len(got) + j] = y[j]
      <3>1. got \in Seq(Byte) /\ y \in Seq(Byte)
        BY <1>2, <2>1
      <3>2. /\ got \o y \in Seq(Byte) /\ Len(got \o y) = Len(got) + Len(y)
            /\ \A j \in 1 .. Len(got) : (got \o y)[j] = got[j]
            /\ \A j \in 1 .. Len(y) : (got \o y)[Len(got) + j] = y[j]
        BY <3>1, ConcatFacts
      <3> QED
        BY <2>1, <3>2
    <2>4. ASSUME NEW j \in 1 .. Len(got) + m PROVE got'[j] = <<c, base + j>>
      <3>1. CASE j <= Len(got)
        <4>1. j \in 1 .. Len(got)
          BY <1>d, <3>1
        <4> QED
          BY <1>6, <2>1, <2>3, <4>1 DEF Reading
      <3>2. CASE ~ (j <= Len(got))
        <4>1. j - Len(got) \in 1 .. m /\ k + (j - Len(got)) - 1 = base + j /\ j = Len(got) + (j - Len(got))
          BY <1>d, <3>2
        <4>2. got'[j] = y[j - Len(got)]
          BY <2>1, <2>3, <4>1
        <4>3. y[j - Len(got)] = <<c, k + (j - Len(got)) - 1>>
          BY <2>2, <4>1
        <4> QED
          BY <4>1, <4>2, <4>3
      <3> QED
        BY <3>1, <3>2
    <2> QED
      BY <2>1, <2>3, <2>4
  <1>14. want' \in Nat /\ offset' \in Nat /\ want' + Len(got') = want + Len(got)
    <2>1. want' = want - m /\ offset' = offset + m /\ Len(got') = Len(got) + m /\ offset \in Nat
      BY <1>2, <1>5, <1>13
    <2> QED
      BY <1>d, <2>1
  <1>15. ReaderTypes'
    BY <1>1, <1>2, <1>13, <1>14 DEF ReaderTypes
  <1>16. /\ WriterTypes' /\ Boundaries' /\ PagesInv' /\ ContentInv' /\ TodoInv'
         /\ Beyond' = Beyond /\ UNCHANGED <<wpc, chunks, pages>>
    BY <1>1, WriterUnchanged
  <1>17. At(cur, offset)' = Expected'
    <2>1. At(cur, offset)' = At(cur, offset + m)
      BY <1>1, <1>5, <1>16 DEF At
    <2>2. CASE rpc = "header"
      <3>1. k + m <= Size(c) /\ k + m = Len(got') + 1 /\ c = nread + 1
        <4>1. c = nread + 1 /\ base = 0 /\ Len(got') = Len(got) + m
          BY <1>6, <1>13, <2>2 DEF Reading
        <4> QED
          BY <1>d, <2>2, <4>1
      <3>2. Expected' = <<nread + 1, Len(got') + 1>>
        BY <1>1, <2>2 DEF Expected
      <3> QED
        BY <1>10, <2>1, <3>1, <3>2
    <2>3. CASE rpc # "header" /\ m < want
      <3>1. k + m <= Size(c) /\ k + m = HeaderSize + Len(got') + 1 /\ c = nread /\ want' > 0
        <4>1. c = nread /\ base = HeaderSize /\ Len(got') = Len(got) + m /\ want' = want - m
          BY <1>5, <1>6, <1>13, <2>3 DEF Reading
        <4> QED
          BY <1>d, <2>3, <4>1
      <3>2. Expected' = <<nread, HeaderSize + Len(got') + 1>>
        BY <1>1, <2>3, <3>1 DEF Expected, Busy
      <3> QED
        BY <1>10, <2>1, <3>1, <3>2
    <2>4. CASE rpc # "header" /\ m = want
      <3>1. ~ (k + m <= Size(c)) /\ c = nread /\ ~ (want' > 0)
        <4>1. c = nread /\ want' = want - m
          BY <1>5, <1>6, <2>4 DEF Reading
        <4> QED
          BY <1>d, <2>4, <4>1
      <3>2. Expected' = <<nread + 1, 1>>
        BY <1>1, <2>4, <3>1 DEF Expected, Busy
      <3> QED
        BY <1>10, <2>1, <3>1, <3>2
    <2> QED
      BY <1>2, <1>4, <2>2, <2>3, <2>4
  <1>18. ReaderInv'
    <2>1. /\ wpc' = "finished" /\ cur' \in 1 .. Len(pages') /\ offset' <= Len(pages'[cur'].bytes)
          /\ nread' <= Len(chunks') /\ rpc' \in {"header", "payload", "skip"} /\ ~ at_end'
      BY <1>0, <1>1, <1>2, <1>4, <1>5, <1>16, OpenFacts DEF Busy
    <2>2. rpc' = "header" =>
         /\ nread' < Len(chunks')
         /\ want' + Len(got') = HeaderSize
         /\ \A j \in 1 .. Len(got') : got'[j] = <<nread' + 1, j>>
      <3> SUFFICES ASSUME rpc = "header"
                   PROVE  /\ nread < Len(chunks) /\ want + Len(got) = HeaderSize
                          /\ \A j \in 1 .. Len(got) + m : got'[j] = <<nread + 1, j>>
        BY <1>1, <1>13, <1>14, <1>16
      <3>1. c = nread + 1 /\ base = 0
        BY <1>6 DEF Reading
      <3>2. \A j \in 1 .. Len(got) + m : base + j = j
        BY <1>2, <3>1
      <3> QED
        BY <1>2, <1>13, <3>1, <3>2 DEF ReaderInv
    <2>3. rpc' \in {"payload", "skip"} =>
         /\ want' + Len(got') = meta'.byte_length
         /\ \A j \in 1 .. Len(got') : got'[j] = <<nread', HeaderSize + j>>
      <3> SUFFICES ASSUME rpc \in {"payload", "skip"}
                   PROVE  /\ want + Len(got) = meta.byte_length
                          /\ \A j \in 1 .. Len(got) + m : got'[j] = <<nread, HeaderSize + j>>
        BY <1>1, <1>13, <1>14
      <3>1. c = nread /\ base = HeaderSize
        BY <1>6 DEF Reading
      <3> QED
        BY <1>2, <1>13, <3>1 DEF ReaderInv
    <2>4. rpc' \in {"payload", "skip"} => nread' >= 1 /\ meta' = chunks'[nread']
      BY <1>1, <1>2, <1>16 DEF ReaderInv
    <2> QED
      BY <1>17, <2>1, <2>2, <2>3, <2>4 DEF ReaderInv
  <1> QED
    BY <1>15, <1>16, <1>18 DEF ColumnInv

\* On to the next page.
LEMMA AdvancePageKeeps ==
    ASSUME ColumnInv, AdvancePage
    PROVE  ColumnInv'
  <1>1. /\ Busy /\ want > 0 /\ ~ at_end /\ offset = pages[cur].payload_bytes
        /\ pages[cur].next # kInvalidPageId
        /\ cur' = pages[cur].next /\ offset' = 0
        /\ at_end' = (at_end \/ pages[pages[cur].next].payload_bytes = 0)
        /\ UNCHANGED <<writer, rpc, want, got, meta, consumed, resume, nread>>
    BY DEF AdvancePage, LoadPage
  <1>0. rpc # "closed"
    BY <1>1 DEF Busy
  <1>2. /\ WriterTypes /\ PagesInv /\ ContentInv /\ TodoInv /\ ReaderTypes /\ ReaderInv
        /\ wpc = "finished" /\ cur \in 1 .. Len(pages) /\ Len(pages) \in Nat
        /\ At(cur, offset) = Expected /\ nread <= Len(chunks)
        /\ pages[cur].payload_bytes = Len(pages[cur].bytes)
        /\ pages[cur].next = IF cur < Len(pages) THEN cur + 1 ELSE kInvalidPageId
    BY <1>0, OpenFacts
  <1>3. cur < Len(pages) /\ cur' = cur + 1 /\ cur + 1 \in 1 .. Len(pages) /\ offset = Len(pages[cur].bytes)
    <2>1. cur < Len(pages)
      BY <1>1, <1>2, Zenon
    <2>2. cur' = cur + 1 /\ offset = Len(pages[cur].bytes)
      BY <1>1, <1>2, <2>1, Zenon
    <2>3. cur \in 1 .. Len(pages) /\ Len(pages) \in Nat
      BY <1>2
    <2>4. cur + 1 \in 1 .. Len(pages)
      BY <2>1, <2>3
    <2> QED
      BY <2>1, <2>2, <2>4
  <1>4. /\ pages[cur + 1].payload_bytes = Len(pages[cur + 1].bytes) /\ Len(pages[cur + 1].bytes) \in Nat
        /\ Len(pages[cur + 1].bytes) > 0
    <2>1. pages[cur + 1].payload_bytes = Len(pages[cur + 1].bytes) /\ Len(pages[cur + 1].bytes) \in Nat
      BY <1>2, <1>3, PayloadIsLength, BytesOfPage
    <2>2. CASE cur + 1 = Len(pages)
      BY <1>2, <2>1, <2>2 DEF PagesInv
    <2>3. CASE cur + 1 < Len(pages)
      BY <1>2, <1>3, <2>1, <2>3, ColumnFileAssumption DEF PagesInv
    <2> QED
      BY <1>2, <1>3, <2>1, <2>2, <2>3
  <1>5. at_end' = FALSE
    <2>1. pages[pages[cur].next].payload_bytes # 0
      BY <1>1, <1>3, <1>4
    <2> QED
      BY <1>1, <2>1, Zenon
  <1>6. ReaderTypes'
    BY <1>1, <1>2, <1>3, <1>5 DEF ReaderTypes
  <1>7. /\ WriterTypes' /\ Boundaries' /\ PagesInv' /\ ContentInv' /\ TodoInv'
        /\ Beyond' = Beyond /\ UNCHANGED <<wpc, chunks, pages>>
    BY <1>1, WriterUnchanged
  <1>8. At(cur, offset)' = Expected'
    <2>1. At(cur, offset) = pages[cur + 1].bytes[1]
      BY <1>2, <1>3 DEF At
    <2>2. At(cur, offset)' = pages[cur + 1].bytes[1]
      BY <1>1, <1>3, <1>4, <1>7 DEF At
    <2>3. Expected' = Expected
      BY <1>1 DEF Expected
    <2> QED
      BY <1>2, <2>1, <2>2, <2>3
  <1>9. ReaderInv'
    <2>1. /\ wpc' = "finished" /\ cur' \in 1 .. Len(pages') /\ offset' <= Len(pages'[cur'].bytes)
          /\ nread' <= Len(chunks') /\ rpc' \in {"header", "payload", "skip"} /\ ~ at_end'
      BY <1>1, <1>2, <1>3, <1>4, <1>5, <1>7 DEF Busy
    <2>2. UNCHANGED <<rpc, want, got, meta, consumed, nread, chunks>>
      BY <1>1, <1>7
    <2> QED
      BY <1>2, <1>8, <2>1, <2>2 DEF ReaderInv
  <1> QED
    BY <1>6, <1>7, <1>9 DEF ColumnInv

\* A header that was read whole says what was written of the chunk.
LEMMA HeaderIsParsed ==
    ASSUME ColumnInv, rpc = "header", want = 0
    PROVE  ParseMeta(got) = chunks[nread + 1] /\ nread + 1 \in 1 .. Len(chunks)
  <1>1. /\ nread \in Nat /\ Len(chunks) \in Nat /\ got \in Seq(Byte) /\ Len(got) \in Nat
        /\ HeaderSize \in Nat \ {0} /\ ReaderInv /\ chunks \in Seq(Meta)
    BY OpenFacts DEF WriterTypes
  <1>2. /\ nread < Len(chunks) /\ Len(got) = HeaderSize
        /\ \A k \in 1 .. Len(got) : got[k] = <<nread + 1, k>>
    BY <1>1 DEF ReaderInv
  <1>3. nread + 1 \in DOMAIN chunks /\ nread + 1 \in 1 .. Len(chunks)
    BY <1>1, <1>2
  <1>4. got = [k \in 1 .. HeaderSize |-> got[k]]
    BY <1>1, <1>2
  <1>5. got = [k \in 1 .. HeaderSize |-> <<nread + 1, k>>]
    BY <1>2, <1>4
  <1>6. 1 \in 1 .. Len(got)
    BY <1>1, <1>2
  <1>7. got[1] = <<nread + 1, 1>>
    BY <1>2, <1>6
  <1>8. got[1][1] = nread + 1
    BY <1>7
  <1> QED
    BY <1>3, <1>5, <1>8 DEF ParseMeta

\* Advance has consumed what it was to consume.
LEMMA AdvanceEndKeeps ==
    ASSUME ColumnInv, AdvanceEnd
    PROVE  ColumnInv'
  <1>1. /\ Busy /\ want = 0 /\ UNCHANGED <<writer, cur, offset>>
        /\ at_end' = (at_end \/ Exhausted)
    BY DEF AdvanceEnd
  <1>0. rpc # "closed" /\ rpc \in {"header", "payload", "skip"}
    BY <1>1 DEF Busy
  <1>2. /\ WriterTypes /\ ReaderTypes /\ ReaderInv /\ nread \in Nat /\ nread <= Len(chunks) /\ Len(chunks) \in Nat
        /\ HeaderSize \in Nat \ {0} /\ meta \in Meta /\ Len(got) \in Nat /\ got \in Seq(Byte)
        /\ Exhausted <=> Expected = Beyond
    BY <1>0, OpenFacts DEF ReaderTypes
  <1>3. ~ at_end
    BY <1>1, <1>2 DEF ReaderInv
  <1>4. at_end' \in BOOLEAN /\ (at_end' <=> Expected = Beyond)
    <2>1. at_end = FALSE
      BY <1>2, <1>3, Zenon DEF ReaderTypes
    <2>2. at_end' <=> Exhausted
      BY <1>1, <2>1, Zenon
    <2>3. at_end' \in BOOLEAN
      BY <1>1, <2>1, Zenon
    <2> QED
      BY <1>2, <2>2, <2>3, Zenon
  <1>5. CASE rpc = "header"
    <2>1. /\ meta' = ParseMeta(got) /\ consumed' = FALSE /\ nread' = nread + 1 /\ rpc' = "idle"
          /\ UNCHANGED <<want, got, resume>>
      BY <1>5 DEF AdvanceEnd
    <2>2. ParseMeta(got) = chunks[nread + 1] /\ nread + 1 \in 1 .. Len(chunks)
      BY <1>1, <1>5, HeaderIsParsed
    <2>3. Len(got) = HeaderSize
      BY <1>1, <1>2, <1>5 DEF ReaderInv
    <2>4. Expected = <<nread + 1, HeaderSize + 1>>
      BY <1>5, <2>3 DEF Expected
    <2>5. Expected' = <<nread + 1, HeaderSize + 1>>
      BY <2>1 DEF Expected
    <2>6. meta' \in Meta
      BY <1>2, <2>1, <2>2 DEF WriterTypes
    <2>7. ReaderTypes'
      <3>0. nread' = nread + 1 /\ consumed' = FALSE /\ nread \in Nat
        BY <1>2, <2>1, Zenon
      <3>1. nread' \in Nat
        BY <3>0
      <3>4. consumed' \in BOOLEAN
        BY <3>0
      <3>2. /\ rpc' = "idle" /\ cur' = cur /\ offset' = offset /\ want' = want /\ got' = got
            /\ resume' = resume
        BY <1>1, <2>1
      <3>3. /\ cur \in Nat /\ offset \in Nat /\ want \in Nat /\ got \in Seq(Byte) /\ resume \in BOOLEAN
        BY <1>2 DEF ReaderTypes
      <3> QED
        BY <1>4, <2>6, <3>1, <3>2, <3>3, <3>4 DEF ReaderTypes
    <2>8. nread' <= Len(chunks) /\ nread' >= 1 /\ meta' = chunks[nread']
      BY <1>2, <2>1, <2>2
    <2> QED
      BY <1>0, <1>1, <1>4, <2>1, <2>4, <2>5, <2>7, <2>8, StaysInPlace
  <1>6. CASE rpc \in {"payload", "skip"}
    <2>0. Expected = <<nread + 1, 1>>
      BY <1>1, <1>6 DEF Expected
    <2>1. CASE rpc = "skip" /\ resume
      <3>1. /\ consumed' = TRUE /\ got' = <<>> /\ resume' = FALSE /\ UNCHANGED <<meta, nread>>
            /\ rpc' = IF at_end \/ Exhausted THEN "end" ELSE "header"
            /\ want' = IF at_end \/ Exhausted THEN 0 ELSE HeaderSize
        BY <2>1 DEF AdvanceEnd
      <3>2. got' \in Seq(Byte) /\ Len(got') = 0
        BY <3>1
      <3>3. \A k : k \notin 1 .. Len(got')
        BY <3>2
      <3>4. CASE Exhausted
        <4>1. rpc' = "end" /\ want' = 0
          BY <3>1, <3>4
        <4>2. nread = Len(chunks)
          BY <1>2, <2>0, <3>4 DEF Beyond
        <4>3. Expected' = <<nread + 1, 1>>
          BY <3>1, <4>1 DEF Expected
        <4>4. ReaderTypes'
          BY <1>1, <1>2, <1>4, <3>1, <3>2, <4>1 DEF ReaderTypes
        <4> QED
          BY <1>0, <1>1, <1>2, <2>0, <3>1, <4>1, <4>2, <4>3, <4>4, StaysInPlace
      <3>5. CASE ~ Exhausted
        <4>1. rpc' = "header" /\ want' = HeaderSize
          BY <1>3, <3>1, <3>5
        <4>2. nread < Len(chunks)
          BY <1>2, <2>0, <3>5 DEF Beyond
        <4>3. Expected' = <<nread + 1, 1>>
          BY <3>1, <3>2, <4>1 DEF Expected
        <4>4. ReaderTypes'
          BY <1>1, <1>2, <1>4, <3>1, <3>2, <4>1 DEF ReaderTypes
        <4>5. want' + Len(got') = HeaderSize /\ ~ at_end'
          BY <1>2, <1>4, <3>2, <3>5, <4>1
        <4> QED
          BY <1>0, <1>1, <1>2, <2>0, <3>1, <3>3, <4>1, <4>2, <4>3, <4>4, <4>5, StaysInPlace
      <3> QED
        BY <3>4, <3>5
    <2>2. CASE ~ (rpc = "skip" /\ resume)
      <3>1. consumed' = TRUE /\ rpc' = "idle" /\ UNCHANGED <<want, got, meta, resume, nread>>
        BY <1>6, <2>2 DEF AdvanceEnd
      <3>2. Expected' = <<nread + 1, 1>>
        BY <3>1 DEF Expected
      <3>3. ReaderTypes'
        BY <1>1, <1>2, <1>4, <3>1 DEF ReaderTypes
      <3> QED
        BY <1>0, <1>1, <1>2, <1>4, <2>0, <3>1, <3>2, <3>3, StaysInPlace
    <2> QED
      BY <2>1, <2>2
  <1> QED
    BY <1>0, <1>5, <1>6

-----------------------------------------------------------------------------
(* The theorems.                                                           *)

LEMMA ColumnInit == Init => ColumnInv
  <1> SUFFICES ASSUME Init PROVE ColumnInv
    OBVIOUS
  <1>1. /\ wpc = "append" /\ buffered = 0 /\ rows = 0 /\ chunks = <<>> /\ todo = <<>>
        /\ pages = <<NoPage>>
    BY DEF Init
  <1>2. /\ rpc = "closed" /\ cur = 0 /\ offset = 0 /\ at_end = FALSE /\ want = 0 /\ got = <<>>
        /\ meta = NoMeta /\ consumed = TRUE /\ resume = FALSE /\ nread = 0
    BY DEF Init
  <1>3. NoPage \in PageType /\ NoMeta \in Meta /\ NoPage.bytes = <<>>
        /\ NoPage.payload_bytes = 0 /\ NoPage.next = kInvalidPageId
    BY DEF NoPage, NoMeta, PageType, Meta, kInvalidPageId
  <1>4. /\ Len(chunks) = 0 /\ Len(todo) = 0 /\ Len(pages) = 1 /\ pages[1] = NoPage
        /\ chunks \in Seq(Meta) /\ todo \in Seq(Byte) /\ pages \in Seq(PageType)
        /\ Len(pages[1].bytes) = 0
    BY <1>1, <1>3
  <1>5. WriterTypes
    BY <1>1, <1>4 DEF WriterTypes
  <1>6. ReaderTypes
    <2>1. at_end \in BOOLEAN /\ consumed \in BOOLEAN /\ resume \in BOOLEAN
      BY <1>2
    <2>2. cur \in Nat /\ offset \in Nat /\ want \in Nat /\ nread \in Nat
      BY <1>2
    <2>3. got \in Seq(Byte)
      BY <1>2
    <2>4. meta \in Meta /\ rpc = "closed"
      BY <1>2, <1>3
    <2> QED
      BY <2>1, <2>2, <2>3, <2>4 DEF ReaderTypes
  <1>7. Boundaries
    <2>1. kChunkRows * 0 = 0 /\ kChunkRows > 0
      BY ColumnFileAssumption
    <2> QED
      BY <1>1, <1>4, <2>1 DEF Boundaries
  <1>8. PagesInv
    BY <1>1, <1>3, <1>4, ColumnFileAssumption DEF PagesInv
  <1>9. ContentInv
    BY <1>4 DEF ContentInv
  <1>10. TodoInv
    BY <1>4 DEF TodoInv, Todo, Beyond, NextByte
  <1>11. ReaderInv
    BY <1>2 DEF ReaderInv, Busy
  <1> QED
    BY <1>5, <1>6, <1>7, <1>8, <1>9, <1>10, <1>11 DEF ColumnInv

LEMMA ColumnStep == ColumnInv /\ [Next]_vars => ColumnInv'
  <1> SUFFICES ASSUME ColumnInv, [Next]_vars PROVE ColumnInv'
    OBVIOUS
  <1>1. CASE AppendValue
    BY <1>1, AppendValueKeeps
  <1>2. CASE CopyOut
    BY <1>2, CopyOutPreserves
  <1>3. CASE BeginFinish
    BY <1>3, BeginFinishKeeps
  <1>4. CASE EndFinish
    BY <1>4, EndFinishKeeps
  <1>5. CASE OpenReader
    BY <1>5, OpenReaderKeeps
  <1>6. CASE NextChunk
    BY <1>6, NextChunkKeeps
  <1>7. CASE Decode \/ SkipPayload
    BY <1>7, PayloadKeeps
  <1>8. CASE AdvanceBytes
    BY <1>8, AdvanceBytesKeeps
  <1>9. CASE AdvancePage
    BY <1>9, AdvancePageKeeps
  <1>10. CASE AdvanceEnd
    BY <1>10, AdvanceEndKeeps
  <1>11. CASE UNCHANGED vars
    <2>1. /\ UNCHANGED writer
          /\ UNCHANGED <<rpc, cur, offset, at_end, want, got, meta, consumed, resume, nread>>
      BY <1>11 DEF vars, reader
    <2>2. /\ WriterTypes' /\ Boundaries' /\ PagesInv' /\ ContentInv' /\ TodoInv'
          /\ Beyond' = Beyond /\ UNCHANGED <<wpc, chunks, pages>>
      BY <2>1, WriterUnchanged
    <2>3. ReaderTypes'
      BY <2>1 DEF ColumnInv, ReaderTypes
    <2>4. At(cur, offset)' = At(cur, offset) /\ Expected' = Expected /\ Busy' = Busy
      BY <2>1, <2>2 DEF At, Expected, Busy
    <2>5. ReaderInv'
      BY <2>1, <2>2, <2>4 DEF ColumnInv, ReaderInv
    <2> QED
      BY <2>2, <2>3, <2>5 DEF ColumnInv
  <1> QED
    BY <1>1, <1>2, <1>3, <1>4, <1>5, <1>6, <1>7, <1>8, <1>9, <1>10, <1>11 DEF Next, Done

\* The pages hold the chunks in order, each byte once, and the reader is in
\* front of the byte that its own state says (ColumnWriter, ColumnReader and
\* the two paged streams).
THEOREM ColumnInvariant == Spec => []ColumnInv
  BY ColumnInit, ColumnStep, PTL DEF Spec

\* The number of rows alone determines the chunks of a finished column,
\* whatever the encoding makes of them (ColumnWriter::Append, FlushChunk and
\* Finish).
THEOREM BoundariesFromRows == Spec => []ChunkBoundaries
  <1>1. ColumnInv => ChunkBoundaries
    <2> SUFFICES ASSUME WriterTypes, Boundaries, wpc = "finished"
                 PROVE  /\ Len(chunks) = (rows + kChunkRows - 1) \div kChunkRows
                        /\ \A i \in DOMAIN chunks : chunks[i].num_rows =
                              IF i < Len(chunks) THEN kChunkRows ELSE rows - (i - 1) * kChunkRows
      BY DEF ColumnInv, ChunkBoundaries
    <2>1. PICK n \in Nat : n = Len(chunks) /\ DOMAIN chunks = 1 .. n
      BY DEF WriterTypes
    <2>2. kChunkRows \in Nat \ {0} /\ rows \in Nat
      BY ColumnFileAssumption DEF WriterTypes
    <2>3. CASE n = 0
      <3>1. rows = 0
        BY <2>1, <2>3 DEF Boundaries
      <3>2. \A k \in Nat \ {0} : (0 + k - 1) \div k = 0
        OBVIOUS
      <3>3. \A i \in DOMAIN chunks : FALSE
        BY <2>1, <2>3
      <3> QED
        BY <2>1, <2>2, <2>3, <3>1, <3>2, <3>3
    <2>4. CASE n # 0
      <3>1. PICK r \in 1 .. kChunkRows : r = chunks[n].num_rows /\ rows = kChunkRows * (n - 1) + r
        BY <2>1, <2>4 DEF Boundaries
      <3>2. (rows + kChunkRows - 1) \div kChunkRows = n
        BY <2>2, <2>4, <3>1, RoundUp
      <3>3. ASSUME NEW i \in 1 .. n
            PROVE  chunks[i].num_rows = IF i < n THEN kChunkRows ELSE rows - (i - 1) * kChunkRows
        <4>1. CASE i < n
          <5>1. i \in 1 .. n - 1
            BY <4>1
          <5> QED
            BY <2>1, <4>1, <5>1 DEF Boundaries
        <4>2. CASE ~ (i < n)
          <5>1. i = n
            BY <4>2
          <5>2. rows - (n - 1) * kChunkRows = r
            BY <2>2, <2>4, <3>1
          <5> QED
            BY <3>1, <4>2, <5>1, <5>2
        <4> QED
          BY <4>1, <4>2
      <3> QED
        BY <2>1, <3>2, <3>3
    <2> QED
      BY <2>3, <2>4
  <1> QED
    BY <1>1, ColumnInvariant, PTL

\* Whatever was decoded, skipped or ignored before, the bytes of a header or
\* of a payload are those that the writer wrote (ReadBytes, SkipBytes).
THEOREM ReadsTheChunkWritten == Spec => []ReadsWhatWasWritten
  <1>1. ColumnInv => ReadsWhatWasWritten
    <2> SUFFICES ASSUME ColumnInv, Busy, want = 0
                 PROVE  CASE rpc = "header" -> got = Whole(nread + 1, 1, HeaderSize)
                          [] rpc \in {"payload", "skip"} ->
                               got = Whole(nread, HeaderSize + 1, HeaderSize + meta.byte_length)
      BY DEF ReadsWhatWasWritten
    <2>1. /\ ReaderInv /\ got \in Seq(Byte) /\ Len(got) \in Nat /\ HeaderSize \in Nat \ {0}
          /\ meta \in Meta
      BY OpenFacts DEF ReaderTypes, Busy
    <2>2. got = [k \in 1 .. Len(got) |-> got[k]]
      BY <2>1
    <2>3. CASE rpc = "header"
      <3>1. Len(got) = HeaderSize /\ \A k \in 1 .. Len(got) : got[k] = <<nread + 1, k>>
        BY <2>1, <2>3 DEF ReaderInv
      <3>2. got = [k \in 1 .. HeaderSize |-> <<nread + 1, k>>]
        BY <2>2, <3>1
      <3>3. HeaderSize - 1 + 1 = HeaderSize /\ \A k \in 1 .. HeaderSize : 1 + k - 1 = k
        BY <2>1
      <3>4. got = [k \in 1 .. HeaderSize - 1 + 1 |-> <<nread + 1, 1 + k - 1>>]
        BY <3>2, <3>3
      <3>5. got = Whole(nread + 1, 1, HeaderSize)
        BY <3>4 DEF Whole
      <3> QED
        BY <2>3, <3>5
    <2>4. CASE rpc \in {"payload", "skip"}
      <3>1. PICK len \in Nat : len = meta.byte_length
        BY <2>1 DEF Meta
      <3>2. Len(got) = len /\ \A k \in 1 .. Len(got) : got[k] = <<nread, HeaderSize + k>>
        BY <2>1, <2>4, <3>1 DEF ReaderInv
      <3>3. got = [k \in 1 .. len |-> <<nread, HeaderSize + k>>]
        BY <2>2, <3>2
      <3>4. /\ (HeaderSize + len) - (HeaderSize + 1) + 1 = len
            /\ \A k \in 1 .. len : HeaderSize + 1 + (k - 1) = HeaderSize + k
        BY <2>1
      <3>5. got = [k \in 1 .. (HeaderSize + len) - (HeaderSize + 1) + 1 |-> <<nread, HeaderSize + 1 + (k - 1)>>]
        BY <3>3, <3>4
      <3>6. got = Whole(nread, HeaderSize + 1, HeaderSize + meta.byte_length)
        <4>1. got = Whole(nread, HeaderSize + 1, HeaderSize + len)
          <5>1. Whole(nread, HeaderSize + 1, HeaderSize + len) =
                  [k \in 1 .. (HeaderSize + len) - (HeaderSize + 1) + 1 |-> <<nread, HeaderSize + 1 + (k - 1)>>]
            BY Zenon DEF Whole
          <5> QED
            BY <3>5, <5>1, Zenon
        <4> QED
          BY <3>1, <4>1
      <3> QED
        BY <2>4, <3>6
    <2> QED
      BY <2>3, <2>4 DEF Busy
  <1> QED
    BY <1>1, ColumnInvariant, PTL

\* Between its reads the input stream is at its end exactly when no page has
\* a byte left (PagedInputStream::AtEnd, LoadPage, Advance).
THEOREM AtEndIsExact == Spec => []AtEndExact
  <1>1. ColumnInv => AtEndExact
    <2> SUFFICES ASSUME ColumnInv, rpc = "idle" PROVE at_end <=> AllConsumed
      BY DEF AtEndExact
    <2>1. /\ WriterTypes /\ PagesInv /\ ContentInv /\ TodoInv /\ ReaderInv /\ wpc = "finished"
          /\ cur \in 1 .. Len(pages) /\ offset \in Nat /\ offset <= Len(pages[cur].bytes)
          /\ At(cur, offset) = Expected /\ Len(pages) \in Nat
      BY OpenFacts
    <2>2. at_end <=> Expected = Beyond
      BY <2>1 DEF ReaderInv
    <2>3. At(cur, offset) = Beyond <=> offset = Len(pages[cur].bytes) /\ cur = Len(pages)
      BY <2>1, AtBeyond
    <2>4. at_end <=> offset = Len(pages[cur].bytes) /\ cur = Len(pages)
      BY <2>1, <2>2, <2>3, Zenon
    <2>5. CASE cur = Len(pages)
      <3>1. \A p \in cur + 1 .. Len(pages) : FALSE
        BY <2>1, <2>5
      <3> QED
        BY <2>4, <2>5, <3>1 DEF AllConsumed
    <2>6. CASE cur # Len(pages)
      <3>1. Len(pages) \in cur + 1 .. Len(pages) /\ Len(pages) > 1
        BY <2>1, <2>6
      <3>2. Len(pages[Len(pages)].bytes) > 0
        BY <2>1, <3>1 DEF PagesInv
      <3>3. pages[Len(pages)].bytes # <<>>
        BY <3>2
      <3> QED
        BY <2>4, <2>6, <3>1, <3>3 DEF AllConsumed
    <2> QED
      BY <2>5, <2>6
  <1> QED
    BY <1>1, ColumnInvariant, PTL

\* "read past end of stream" is never thrown, and NextChunk returns false only
\* after the last chunk (PagedInputStream::Advance, ColumnReader::NextChunk).
THEOREM ReadsEveryChunk == Spec => []ReadsAllChunks
  <1>1. ColumnInv => ReadsAllChunks
    <2> SUFFICES ASSUME ColumnInv PROVE ~ PastEnd /\ (rpc = "end" => nread = Len(chunks))
      BY DEF ReadsAllChunks
    <2>1. rpc = "end" => nread = Len(chunks)
      BY DEF ColumnInv, ReaderInv
    <2>2. ASSUME Busy, want > 0, at_end \/ Exhausted PROVE FALSE
      <3>1. rpc # "closed"
        BY <2>2 DEF Busy
      <3>2. ReaderInv /\ Len(chunks) \in Nat /\ (Exhausted <=> Expected = Beyond)
        BY <3>1, OpenFacts
      <3>3. ~ at_end
        BY <2>2, <3>2 DEF ReaderInv
      <3>4. PICK c \in 1 .. Len(chunks), base \in Nat : Expected = <<c, base + Len(got) + 1>>
        BY <2>2, BusyFacts
      <3>5. Expected # Beyond
        BY <3>2, <3>4 DEF Beyond
      <3> QED
        BY <2>2, <3>2, <3>3, <3>5
    <2> QED
      BY <2>1, <2>2 DEF PastEnd
  <1> QED
    BY <1>1, ColumnInvariant, PTL
=============================================================================
