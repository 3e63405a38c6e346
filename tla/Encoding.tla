------------------------------ MODULE Encoding -------------------------------
(***************************************************************************)
(* The encodings of a column chunk (compression/encoding.cpp): plain,      *)
(* run-length, dictionary and frame-of-reference bit packing, each with a  *)
(* validity bitmap for the NULLs, and PackBits and UnpackBits, which the   *)
(* last two share.  A behaviour encodes one chunk and decodes it again;    *)
(* one step of PackBits and of UnpackBits is one turn of its inner loop.   *)
(*                                                                         *)
(* Integers keep their widths and wrap around, as int64 does in the builds *)
(* of this code, also where C++ leaves the overflow undefined; a shift by  *)
(* k bits is a product or quotient with Pow2[k].  A string or the bits of  *)
(* a double are one value.  A payload is the parts that the *)
(* encoder appends; only the packed part is bytes.  EncodeChunk takes the  *)
(* candidate with the smallest payload: here it may be any of them.        *)
(***************************************************************************)
EXTENDS Integers, Sequences, FiniteSets, SequencesExt

CONSTANTS
    Null,           \* the SQL NULL
    Width,          \* bits of std::int64_t and std::uint64_t
    IntWidth,       \* bits of std::int32_t
    ByteBits,       \* bits of a byte
    Scalars,        \* the strings and the bits of the doubles
    Chunks          \* the chunks, each [type, values]

Pow2[k \in Nat] == IF k = 0 THEN 1 ELSE 2 * Pow2[k - 1]

Signed(x, w) == ((x + Pow2[w - 1]) % Pow2[w]) - Pow2[w - 1]  \* a cast to intw_t
Unsigned(x) == x % Pow2[Width]                               \* a cast to uint64_t
IntRange(w) == - Pow2[w - 1] .. Pow2[w - 1] - 1              \* the values of intw_t

\* The values of a column type.
Domain(type) ==
    CASE type = "int" -> IntRange(IntWidth)
      [] type = "bigint" -> IntRange(Width)
      [] OTHER -> Scalars

\* The rows of a chunk are counted in a word.
ASSUME EncodingAssumption ==
    /\ Width \in Nat \ {0} /\ ByteBits \in Nat \ {0}
    /\ IntWidth \in 1 .. Width
    /\ \A c \in Chunks :
         /\ c.type \in {"int", "bigint", "float", "varchar"}
         /\ c.values \in Seq(Domain(c.type) \cup {Null})
         /\ Len(c.values) <= Pow2[Width]

Lesser(x, y) == IF x < y THEN x ELSE y

VARIABLES
    chunk,          \* the chunk to encode
    enc,            \* its encoding
    pc,             \* "encode", "pack", "unpack", "decode" or "done"
    payload,        \* the parts of the payload that are not packed
    vals, bw,       \* what PackBits packs, and with how many bits each
    pw,             \* PackBits: value i, its bits v and remaining, cur, cur_bits
    bytes,          \* the packed part
    pr,             \* UnpackBits: byte_idx, cur, cur_bits, val and got
    unpacked,       \* the values unpacked so far
    result          \* the decoded column

vars == <<chunk, enc, pc, payload, vals, bw, pw, bytes, pr, unpacked, result>>

values == chunk.values
n == Len(values)
IsInt == chunk.type \in {"int", "bigint"}
NonNull == ToSet(values) \ {Null}

-----------------------------------------------------------------------------
(* The parts of the payloads.                                              *)

Candidates ==
    CASE IsInt -> {"plain", "rle", "dictionary", "bitpack"}
      [] chunk.type = "float" -> {"plain", "rle", "dictionary"}
      [] chunk.type = "varchar" -> {"plain", "dictionary"}

\* WriteValidity and TestValidity.
Validity == [i \in 1 .. n |-> values[i] # Null]

\* Mutant: a power of two gets one bit less than it needs.
BitsRequiredLess(max_val) ==
    CHOOSE b \in 1 .. Width : max_val < Pow2[b] + 1 /\ \A a \in 1 .. b - 1 : max_val >= Pow2[a] + 1

\* The least width for max_val, at least one.
BitsRequired(max_val) ==
    CHOOSE b \in 1 .. Width : max_val < Pow2[b] /\ \A a \in 1 .. b - 1 : max_val >= Pow2[a]

\* A NULL leaves the slot zero.
Slots == [i \in 1 .. n |-> IF values[i] = Null THEN 0 ELSE IF IsInt THEN Unsigned(values[i]) ELSE values[i]]

\* A 4-byte slot is read back as an int32_t and extended.
Slot(x) == IF chunk.type = "int" THEN Unsigned(Signed(x, IntWidth)) ELSE x

\* A slot lengthens the last run or begins one: pairs of a value and a length.
AddToRuns(runs, x) ==
    IF runs # <<>> /\ Last(runs)[1] = x
    THEN [runs EXCEPT ![Len(runs)][2] = @ + 1]
    ELSE Append(runs, <<x, 1>>)

\* EncodeRle: the runs of the first i slots, up to all of them.
Runs ==
    LET runs[i \in 0 .. n] == IF i = 0 THEN <<>> ELSE AddToRuns(runs[i - 1], Slots[i])
    IN  runs[n]

\* A value that is not in the dictionary yet goes to its end.
AddToDict(dict, x) == IF x = Null \/ x \in ToSet(dict) THEN dict ELSE Append(dict, x)

\* The distinct values, in the order of their first occurrence.
Dict ==
    LET dict[i \in 0 .. n] == IF i = 0 THEN <<>> ELSE AddToDict(dict[i - 1], values[i])
    IN  dict[n]
IndexIn(dict, x) == SelectInSeq(dict, LAMBDA y : y = x) - 1

FrameMin == IF NonNull = {} THEN 0 ELSE Min(NonNull)
FrameMax == IF NonNull = {} THEN 0 ELSE Max(NonNull)

-----------------------------------------------------------------------------
(* EncodeChunk.                                                            *)

AtValue(i) == [i |-> i, v |-> IF i <= Len(vals') THEN vals'[i] ELSE 0, remaining |-> bw',
               cur |-> 0, cur_bits |-> 0]
AtStart == [byte_idx |-> 0, cur |-> 0, cur_bits |-> 0, val |-> 0, got |-> 0]

Init ==
    /\ chunk \in Chunks
    /\ enc \in Candidates
    /\ pc = "encode"
    /\ payload = <<>>
    /\ vals = <<>> /\ bw = 0
    /\ pw = [i |-> 1, v |-> 0, remaining |-> 0, cur |-> 0, cur_bits |-> 0]
    /\ bytes = <<>>
    /\ pr = AtStart
    /\ unpacked = <<>> /\ result = <<>>

EncodePlain ==
    /\ pc = "encode" /\ enc = "plain"
    /\ payload' = [validity |-> Validity, slots |-> Slots]
    /\ pc' = "decode"
    /\ UNCHANGED <<chunk, enc, vals, bw, pw, bytes, pr, unpacked, result>>

EncodeRle ==
    /\ pc = "encode" /\ enc = "rle"
    /\ payload' = [validity |-> Validity, runs |-> Runs]
    /\ pc' = "decode"
    /\ UNCHANGED <<chunk, enc, vals, bw, pw, bytes, pr, unpacked, result>>

EncodeDictionary ==
    /\ pc = "encode" /\ enc = "dictionary"
    /\ payload' = [validity |-> Validity, dict |-> Dict]
    /\ vals' = [i \in 1 .. n |-> IF values[i] = Null THEN 0 ELSE IndexIn(Dict, values[i])]
    /\ bw' = IF Dict = <<>> THEN 0 ELSE BitsRequired(Len(Dict) - 1)
    /\ pw' = AtValue(1)
    /\ pc' = "pack"
    /\ UNCHANGED <<chunk, enc, bytes, pr, unpacked, result>>

\* Range and deltas are computed unsigned.
EncodeBitpack ==
    /\ pc = "encode" /\ enc = "bitpack"
    /\ payload' = [validity |-> Validity, frame_min |-> FrameMin]
    /\ vals' = [i \in 1 .. n |-> IF values[i] = Null THEN 0 ELSE Unsigned(values[i] - FrameMin)]
    /\ bw' = IF FrameMin = FrameMax THEN 0 ELSE BitsRequired(Unsigned(FrameMax - FrameMin))
    /\ pw' = AtValue(1)
    /\ pc' = "pack"
    /\ UNCHANGED <<chunk, enc, bytes, pr, unpacked, result>>

-----------------------------------------------------------------------------
(* PackBits and UnpackBits.                                                *)

\* As many bits of the value as the byte has room for; a full byte goes out.
PackBits ==
    LET take == Lesser(ByteBits - pw.cur_bits, pw.remaining)
        cur == (pw.cur + (pw.v % Pow2[take]) * Pow2[pw.cur_bits]) % Pow2[ByteBits]
        full == pw.cur_bits + take = ByteBits
    IN
    /\ pc = "pack" /\ pw.i <= n /\ bw > 0
    /\ bytes' = IF full THEN Append(bytes, cur) ELSE bytes
    /\ pw' = [i |-> IF pw.remaining = take THEN pw.i + 1 ELSE pw.i,
              v |-> IF pw.remaining > take THEN pw.v \div Pow2[take]
                    ELSE IF pw.i < n THEN vals[pw.i + 1] ELSE 0,
              remaining |-> IF pw.remaining = take THEN bw ELSE pw.remaining - take,
              cur |-> IF full THEN 0 ELSE cur,
              cur_bits |-> IF full THEN 0 ELSE pw.cur_bits + take]
    /\ UNCHANGED <<chunk, enc, pc, payload, vals, bw, pr, unpacked, result>>

\* Mutant: the last byte is dropped unless it is full.
PackEndDrops ==
    /\ pc = "pack" /\ (pw.i > n \/ bw = 0)
    /\ pc' = "unpack"
    /\ UNCHANGED <<chunk, enc, payload, vals, bw, pw, bytes, pr, unpacked, result>>

\* What is left goes into a last byte.
PackEnd ==
    /\ pc = "pack" /\ (pw.i > n \/ bw = 0)
    /\ bytes' = IF pw.cur_bits > 0 THEN Append(bytes, pw.cur) ELSE bytes
    /\ pc' = "unpack"
    /\ UNCHANGED <<chunk, enc, payload, vals, bw, pw, pr, unpacked, result>>

\* Width 0: all values are zero and no byte is read.
UnpackZeros ==
    /\ pc = "unpack" /\ bw = 0
    /\ unpacked' = [i \in 1 .. n |-> 0]
    /\ pc' = "decode"
    /\ UNCHANGED <<chunk, enc, payload, vals, bw, pw, bytes, pr, result>>

\* The loop is about to read in[byte_idx++].
NeedsByte == pc = "unpack" /\ bw > 0 /\ Len(unpacked) < n /\ pr.cur_bits = 0

\* A new byte if the last one is used up, then as many bits as it has and the
\* value wants.
UnpackBits ==
    LET cur == IF pr.cur_bits = 0 THEN bytes[pr.byte_idx + 1] ELSE pr.cur
        avail == IF pr.cur_bits = 0 THEN ByteBits ELSE pr.cur_bits
        take == Lesser(avail, bw - pr.got)
        val == Unsigned(pr.val + (cur % Pow2[take]) * Pow2[pr.got])
        complete == pr.got + take = bw
    IN
    /\ pc = "unpack" /\ bw > 0 /\ Len(unpacked) < n
    /\ NeedsByte => pr.byte_idx < Len(bytes)
    /\ pr' = [byte_idx |-> IF pr.cur_bits = 0 THEN pr.byte_idx + 1 ELSE pr.byte_idx,
              cur |-> cur \div Pow2[take], cur_bits |-> avail - take,
              val |-> IF complete THEN 0 ELSE val, got |-> IF complete THEN 0 ELSE pr.got + take]
    /\ unpacked' = IF complete THEN Append(unpacked, val) ELSE unpacked
    /\ UNCHANGED <<chunk, enc, pc, payload, vals, bw, pw, bytes, result>>

UnpackEnd ==
    /\ pc = "unpack" /\ bw > 0 /\ Len(unpacked) = n
    /\ pc' = "decode"
    /\ UNCHANGED <<chunk, enc, payload, vals, bw, pw, bytes, pr, unpacked, result>>

-----------------------------------------------------------------------------
(* DecodeChunk.                                                            *)

\* Appends a value or, where the bitmap says so, a NULL.
WithNulls(decoded) == [i \in 1 .. n |-> IF payload.validity[i] THEN decoded[i] ELSE Null]

AsType(x) ==
    CASE chunk.type = "int" -> Signed(x, IntWidth)
      [] chunk.type = "bigint" -> Signed(x, Width)
      [] OTHER -> x

Decoded(res) ==
    /\ result' = res
    /\ pc' = "done"
    /\ UNCHANGED <<chunk, enc, payload, vals, bw, pw, bytes, pr, unpacked>>

DecodePlain ==
    /\ pc = "decode" /\ enc = "plain"
    /\ Decoded(WithNulls([i \in 1 .. n |-> AsType(Slot(payload.slots[i]))]))

DecodeRle ==
    /\ pc = "decode" /\ enc = "rle"
    /\ LET slots == FlattenSeq([r \in DOMAIN payload.runs |->
                       [k \in 1 .. payload.runs[r][2] |-> payload.runs[r][1]]])
       IN  Decoded(WithNulls([i \in 1 .. n |-> AsType(Slot(slots[i]))]))

DecodeDictionary ==
    /\ pc = "decode" /\ enc = "dictionary"
    /\ Decoded(WithNulls([i \in 1 .. n |-> payload.dict[unpacked[i] + 1]]))

\* frame_min + static_cast<std::int64_t>(deltas[i])
FrameSum(i) == payload.frame_min + Signed(unpacked[i], Width)

DecodeBitpack ==
    /\ pc = "decode" /\ enc = "bitpack"
    /\ Decoded(WithNulls([i \in 1 .. n |-> AsType(FrameSum(i))]))

\* The chunk has been read back.
Done == pc = "done" /\ UNCHANGED vars

Next ==
    \/ EncodePlain \/ EncodeRle \/ EncodeDictionary \/ EncodeBitpack
    \/ PackBits \/ PackEnd \/ UnpackZeros \/ UnpackBits \/ UnpackEnd
    \/ DecodePlain \/ DecodeRle \/ DecodeDictionary \/ DecodeBitpack
    \/ Done

Spec == Init /\ [][Next]_vars

-----------------------------------------------------------------------------
(* Properties.                                                             *)

\* Whatever the type, the values, the NULLs among them and the encoding that
\* EncodeChunk prefers, the chunk is read back as it was written.
RoundTrip == pc = "done" => result = values

\* UnpackBits, which does not know the length of its input, never reads a
\* byte beyond the payload (encoding.cpp:124), and leaves none unread.
WithinPayload ==
    /\ NeedsByte => pr.byte_idx < Len(bytes)
    /\ pc \in {"decode", "done"} => pr.byte_idx = Len(bytes)
=============================================================================
