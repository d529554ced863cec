----------------------------- MODULE FrameParse -----------------------------
(***************************************************************************)
(* Reading a frame: the header (parse/header.rs), the chunks               *)
(* (parse/chunk.rs) and the checks of the whole plan (parse.rs,            *)
(* parse/validate.rs), for parse_frame, frame_size and inspect_header; and *)
(* the shortcut for frames of one zstd node (parse/fast_zstd.rs).          *)
(*                                                                         *)
(* The input is chosen while it is read, one field at a time, so every     *)
(* input made of the given field values is explored, and it may end before *)
(* any field.  A varint, a packed array or a checksum is one field; each   *)
(* byte of a payload is one.  An offset counts fields.  A checksum field   *)
(* is TRUE when it matches what it covers.                                 *)
(***************************************************************************)
EXTENDS Integers, Sequences, SequencesExt, FiniteSets

CONSTANTS
  \* The format versions, and the values that the other fields of an input
  \* take: for every version, up to the first chunk and after it.
  Versions, FieldValues,
  \* Node IDs and the format versions each one may appear in.
  Available,
  \* Limits, under the names of its fields.
  MaxFrameBytes, MaxDecodedBytes, MaxChunks, MaxNodes, MaxStreams,
  MaxTransformHeaderBytes, MaxStoredStreamBytes, MaxBufferBytes, MaxGraphDepth,
  MaxDictsPerBundle, MaxCommentBytes

Types == {"Serial", "Struct", "Numeric", "String"}
Flags == {"decoded", "encoded", "comment", "bundle"}

(* What a chunk header says of a node.  `plain`: it has no variable inputs *)
(* and its distances are 0.  Custom nodes have an ID no version knows.     *)
NodeField == [id : STRING, header : Nat, regens : Nat, dict : SUBSET Nat, plain : BOOLEAN]

ASSUME FieldAssumption ==
  /\ Versions \subseteq Nat /\ DOMAIN FieldValues = Versions \X {"first", "later"}
  /\ \A v \in Versions, when \in {"first", "later"} :
       /\ FieldValues[v, when] \in
            [flags : SUBSET SUBSET Flags, types : SUBSET Seq(Types), size : SUBSET Nat,
             strings : SUBSET Nat, comment : SUBSET Nat, nodes : SUBSET Nat,
             streams : SUBSET Nat, graph : SUBSET NodeField, stored : SUBSET Nat]
       /\ \A n \in FieldValues[v, when].graph : Cardinality(n.dict) <= 1

ASSUME LimitAssumption ==
  {MaxFrameBytes, MaxDecodedBytes, MaxChunks, MaxNodes, MaxStreams,
   MaxTransformHeaderBytes, MaxStoredStreamBytes, MaxBufferBytes, MaxGraphDepth,
   MaxDictsPerBundle, MaxCommentBytes} \subseteq Nat

VARIABLES
  op,        \* parse, size or header: the function that was called
  verify,    \* Options::verify_compressed_checksum, off for frame_size
  phase,     \* the field the reader has come to
  read,      \* the fields read so far: Reader::offset is its length
  header,    \* version, flags, output types, sizes and string counts
  chunk,     \* the ChunkPlan being read
  chunks,    \* the ChunkPlans that are complete
  summary,   \* ChunkSummary
  checked,   \* the ranges of the checksums that were verified
  result

vars == <<op, verify, phase, read, header, chunk, chunks, summary, checked, result>>

ByteRange == [start : Nat, len : Nat]

NoHeader == [version |-> 0, flags |-> {}, types |-> <<>>, sizes |-> <<>>, strings |-> <<>>]
NoChunk  == [start |-> 0, transforms |-> 0, stored |-> 0, nodes |-> <<>>,
             sizes |-> <<>>, headers |-> [start |-> 0, len |-> 0], ranges |-> <<>>,
             decoded |-> FALSE, encoded |-> FALSE]

Init ==
  /\ op \in {"parse", "size", "header"} /\ verify \in BOOLEAN
  /\ op = "size" => ~verify
  /\ phase = "magic" /\ read = <<>> /\ header = NoHeader
  /\ chunk = NoChunk /\ chunks = <<>>
  /\ summary = [chunks |-> 0, transforms |-> 0, stored |-> 0, regenerated |-> 0]
  /\ checked = {} /\ result = "none"
-----------------------------------------------------------------------------
V == header.version
Values == FieldValues[V, IF summary.chunks > 0 THEN "later" ELSE "first"]
Offset == Len(read)
SumOver(s) == FoldLeft(+, 0, s)

(* parse_frame refuses long inputs before it reads; frame_size does not.   *)
Room(n) == op # "parse" \/ Offset + n <= MaxFrameBytes

Take(name, value) == read' = Append(read, [field |-> name, value |-> value])

(* What every step of the header, and of the chunks, leaves alone.         *)
HeaderStep == UNCHANGED <<op, verify, chunk, chunks, summary>>
ChunkStep  == UNCHANGED <<op, verify>>

Fail(kind) ==
  /\ phase' = "done" /\ result' = kind
  /\ UNCHANGED <<op, verify, header, chunk, chunks, summary, checked>>

(* The error of the first check that does not hold: the rest is only       *)
(* looked at when this one does.                                           *)
Check(holds, error, rest) == IF holds THEN rest ELSE error

Proceed(error, next) ==
  IF error = "Ok" THEN next /\ UNCHANGED result ELSE Fail(error)

TooLong ==
  /\ phase = "magic" /\ op = "parse" /\ Fail("max_frame_bytes") /\ UNCHANGED read
-----------------------------------------------------------------------------
(* The header.                                                             *)

ReadMagic ==
  /\ phase = "magic" /\ Room(1)
  /\ \E v \in Versions :
       /\ Take("magic", v)
       /\ Proceed(Check(v \in 8 .. 27, "Unsupported", "Ok"),
            /\ header' = [header EXCEPT !.version = v]
            /\ phase' = IF v >= 21 THEN "flags" ELSE "outputs"
            /\ HeaderStep /\ UNCHANGED checked)

(* FrameFlags::from_byte: later versions know more flags.                  *)
FromByte(flags, v) ==
  flags \cap ({"decoded", "encoded"} \cup (IF v >= 22 THEN {"comment"} ELSE {})
                                     \cup (IF v >= 25 THEN {"bundle"} ELSE {}))

ReadFlags ==
  /\ phase = "flags" /\ Room(1)
  /\ \E byte \in Values.flags :
       LET flags == FromByte(byte, V)
       IN  /\ Take("flags", byte)
           /\ header' = [header EXCEPT !.flags = flags]
           /\ phase' = IF "bundle" \in flags THEN "bundle" ELSE "outputs"
           /\ HeaderStep /\ UNCHANGED <<checked, result>>

(* An ID of no bytes, of too many, or all zero is malformed.               *)
ReadBundleId ==
  /\ phase = "bundle" /\ Room(1)
  /\ \E valid \in BOOLEAN :
       /\ Take("bundle", valid)
       /\ Proceed(Check(valid, "Malformed", "Ok"),
            phase' = "outputs" /\ HeaderStep /\ UNCHANGED <<header, checked>>)

InputLimit(v) == IF v <= 14 THEN 1 ELSE 2048

(* The output count and types: before v14 there is one serial output and   *)
(* no field.  From v21 a frame may say that it has none.                   *)
ReadOutputs ==
  /\ phase = "outputs" /\ Room(1)
  /\ \E types \in Values.types :
       /\ V < 14 => types = <<"Serial">>
       /\ V = 14 => Len(types) = 1
       /\ V < 21 => Len(types) >= 1
       /\ IF V < 14 THEN UNCHANGED read ELSE Take("outputs", types)
       /\ Proceed(Check(Len(types) <= InputLimit(V), "Malformed",
                  Check(Len(types) <= MaxStreams, "max_streams",
                  Check(types # <<>>, "Malformed", "Ok"))),
            /\ header' = [header EXCEPT !.types = types] /\ phase' = "size"
            /\ HeaderStep /\ UNCHANGED checked)

(* v14 has a type byte of its own.                                         *)
BadType ==
  /\ phase = "outputs" /\ V = 14 /\ Room(1)
  /\ Take("bad type", 0) /\ Fail("InvalidType")

(* The size of the next output; from v21 the field holds the size plus one.*)
SizeErrorMutant(size) ==
  Check(size <= MaxBufferBytes, "max_buffer_bytes",
  Check(SumOver(header.sizes) + size <= MaxDecodedBytes, "max_decoded_bytes", "Ok"))
SizeError(size) ==
  Check(size >= 0, IF header.sizes = <<>> THEN "Unsupported" ELSE "Malformed",
  Check(size <= MaxBufferBytes, "max_buffer_bytes",
  Check(SumOver(header.sizes) + size <= MaxDecodedBytes, "max_decoded_bytes", "Ok")))

ReadSize ==
  /\ phase = "size" /\ Room(1)
  /\ \E field \in Values.size :
       LET size == IF V >= 21 THEN field - 1 ELSE field
           more == Len(header.sizes) + 1 < Len(header.types)
       IN  /\ Take("size", field)
           /\ Proceed(SizeError(size),
                /\ header' = [header EXCEPT !.sizes = Append(@, size)]
                /\ phase' = IF more THEN "size" ELSE IF V >= 21 THEN "strings" ELSE "chunks"
                /\ HeaderStep /\ UNCHANGED checked)

AfterComment(flags) == IF "encoded" \in flags THEN "sum" ELSE "chunks"
AfterStrings(flags) == IF "comment" \in flags THEN "comment" ELSE AfterComment(flags)

(* From v21 a string output states its string count, after all sizes.      *)
ReadStringCounts ==
  LET strings == {k \in DOMAIN header.types : header.types[k] = "String"}
  IN  /\ phase = "strings" /\ Room(1)
      /\ \E counts \in [strings -> Values.strings] :
           /\ IF strings = {} THEN UNCHANGED read ELSE Take("strings", counts)
           /\ header' = [header EXCEPT !.strings =
                [k \in DOMAIN header.types |-> IF k \in strings THEN {counts[k]} ELSE {}]]
           /\ phase' = AfterStrings(header.flags)
           /\ HeaderStep /\ UNCHANGED <<checked, result>>

ReadComment ==
  /\ phase = "comment" /\ Room(1)
  /\ \E size \in Values.comment :
       /\ Take("comment", size)
       /\ Proceed(Check(size > 0, "Malformed",
                  Check(size <= MaxCommentBytes, "LimitExceeded", "Ok")),
            /\ phase' = AfterComment(header.flags)
            /\ HeaderStep /\ UNCHANGED <<header, checked>>)

(* A checksum over the fields from `start` up to itself.                   *)
Verified(start, end) ==
  IF verify THEN checked \cup {[start |-> start, len |-> end - start]} ELSE checked

ReadHeaderChecksum ==
  /\ phase = "sum" /\ Room(1)
  /\ \E matches \in BOOLEAN :
       /\ Take("sum", matches)
       /\ Proceed(Check(verify => matches, "ChecksumMismatch", "Ok"),
            /\ checked' = Verified(0, Offset) /\ phase' = "chunks"
            /\ HeaderStep /\ UNCHANGED header)

(* inspect_header is done here.                                            *)
FinishHeader ==
  /\ phase = "chunks" /\ op = "header"
  /\ phase' = "done" /\ result' = "Ok"
  /\ HeaderStep /\ UNCHANGED <<read, header, checked>>
-----------------------------------------------------------------------------
(* The chunks.                                                             *)

(* at_chunks_end: at the end marker from v21 on, after one chunk before.   *)
EndChunks ==
  /\ phase = "chunks" /\ op # "header"
  /\ IF V < 21 THEN summary.chunks > 0 /\ UNCHANGED read
     ELSE Room(1) /\ Take("end", 0)
  /\ phase' = "scanned"
  /\ ChunkStep /\ UNCHANGED <<header, chunk, chunks, summary, checked, result>>

NodeLimit(v)   == IF v < 9 THEN 256 ELSE IF v < 20 THEN 10000 ELSE 20000
StreamLimit(v) == IF v < 9 THEN 256 ELSE IF v < 16 THEN 10000 ELSE 110000

(* read_chunk_counts.  From v21 the field holds the count plus one, and a  *)
(* zero spelled in two bytes is not the end marker but malformed.          *)
ReadCounts ==
  /\ phase = "chunks" /\ op # "header" /\ (V < 21 => summary.chunks = 0) /\ Room(2)
  /\ \E nodes \in Values.nodes, streams \in Values.streams :
       /\ read' = read \o << [field |-> "nodes", value |-> nodes],
                             [field |-> "streams", value |-> streams] >>
       /\ Proceed(Check(nodes <= NodeLimit(V), "Malformed",
                  Check(streams <= StreamLimit(V), "Malformed",
                  Check(nodes <= MaxNodes, "max_nodes",
                  Check(streams <= MaxStreams, "max_streams", "Ok")))),
            /\ chunk' = [NoChunk EXCEPT !.start = Offset, !.transforms = nodes,
                                        !.stored = streams]
            /\ phase' = IF V < 21 THEN "chunk flags" ELSE "graph"
            /\ ChunkStep /\ UNCHANGED <<header, chunks, summary, checked>>)

LongZero ==
  /\ phase = "chunks" /\ op # "header" /\ V >= 21 /\ Room(1)
  /\ Take("long zero", 0) /\ Fail("Malformed")

(* Before v21 the chunk has the flags of the frame.                        *)
ReadChunkFlags ==
  /\ phase = "chunk flags" /\ Room(1)
  /\ \E byte \in Values.flags :
       /\ Take("flags", byte)
       /\ header' = [header EXCEPT !.flags = FromByte(byte, V)]
       /\ phase' = "graph"
       /\ ChunkStep /\ UNCHANGED <<chunk, chunks, summary, checked, result>>

Regenerated(nodes) == SumOver([i \in DOMAIN nodes |-> nodes[i].regens])
HeaderBytes(nodes) == SumOver([i \in DOMAIN nodes |-> nodes[i].header])

(* build_node_plans: node headers follow each other.                       *)
BuildNodesMutant(fields) ==
  [i \in DOMAIN fields |-> [field |-> fields[i],
     start |-> SumOver([j \in 1 .. i - 1 |-> fields[i].header])]]
BuildNodes(fields) ==
  [i \in DOMAIN fields |-> [field |-> fields[i],
     start |-> SumOver([j \in 1 .. i - 1 |-> fields[j].header])]]

Known(node, v)   == node.id \in DOMAIN Available /\ v \in Available[node.id]
HasDicts         == V >= 25 /\ "bundle" \in header.flags
NodeInputs(v)    == IF v <= 15 THEN 1 ELSE InputLimit(v)

(* The arrays that describe the nodes.  Before v16 a node regenerates one  *)
(* stream; dictionary indexes come with a bundle ID.                       *)
ReadGraph ==
  /\ phase = "graph" /\ Room(1)
  /\ \E nodes \in [1 .. chunk.transforms -> Values.graph] :
       /\ \A i \in DOMAIN nodes :
            /\ V < 16 => nodes[i].regens = 1
            /\ nodes[i].dict # {} => HasDicts
       /\ Take("graph", nodes)
       /\ Proceed(Check(\A i \in DOMAIN nodes : Known(nodes[i], V), "Unsupported",
                  Check(\A i \in DOMAIN nodes : nodes[i].regens <= NodeInputs(V), "Malformed",
                  Check(\A i \in DOMAIN nodes :
                          \A d \in nodes[i].dict : d <= MaxDictsPerBundle, "Malformed",
                  Check(Regenerated(nodes) <= StreamLimit(V), "Malformed", "Ok")))),
            /\ chunk' = [chunk EXCEPT !.nodes = BuildNodes(nodes)]
            /\ phase' = "stored"
            /\ ChunkStep /\ UNCHANGED <<header, chunks, summary, checked>>)

ReadStoredSizes ==
  /\ phase = "stored" /\ Room(1)
  /\ \E sizes \in [1 .. chunk.stored -> Values.stored] :
       /\ Take("stored", sizes)
       /\ Proceed(Check(\A i \in DOMAIN sizes : sizes[i] <= MaxBufferBytes,
                        "max_buffer_bytes", "Ok"),
            /\ chunk' = [chunk EXCEPT !.sizes = sizes] /\ phase' = "summary"
            /\ ChunkStep /\ UNCHANGED <<header, chunks, summary, checked>>)

Fields(c)          == [i \in DOMAIN c.nodes |-> c.nodes[i].field]
RegeneratedBy(c)   == Regenerated(Fields(c))
TransformHeader(c) == HeaderBytes(Fields(c))
StoredBytes(c)     == SumOver(c.sizes)

(* ChunkSummary::add: running totals, checked one after the other.         *)
SummaryWithMutant(c) ==
  [chunks |-> summary.chunks + 1, transforms |-> Len(c.nodes),
   stored |-> Len(c.sizes), regenerated |-> RegeneratedBy(c)]
SummaryWith(c) ==
  [chunks      |-> summary.chunks + 1,
   transforms  |-> summary.transforms + Len(c.nodes),
   stored      |-> summary.stored + Len(c.sizes),
   regenerated |-> summary.regenerated + RegeneratedBy(c)]

SummaryError(s) ==
  Check(s.chunks <= MaxChunks, "max_chunks",
  Check(s.transforms <= MaxNodes, "max_nodes",
  Check(s.stored <= MaxStreams, "max_streams",
  Check(s.regenerated <= MaxStreams, "max_streams", "Ok"))))

CountChunk ==
  /\ phase = "summary" /\ UNCHANGED read
  /\ Proceed(SummaryError(SummaryWith(chunk)),
       /\ summary' = SummaryWith(chunk) /\ phase' = "payload"
       /\ ChunkStep /\ UNCHANGED <<header, chunk, chunks, checked>>)

(* ChunkPlan::set_payload_start: the node headers, then the streams.       *)
LocatedMutant(c, start) ==
  [c EXCEPT !.headers = [start |-> start, len |-> TransformHeader(c)],
            !.ranges = [i \in DOMAIN c.sizes |->
              [start |-> start + SumOver(SubSeq(c.sizes, 1, i - 1)), len |-> c.sizes[i]]]]
Located(c, start) ==
  [c EXCEPT !.headers = [start |-> start, len |-> TransformHeader(c)],
            !.ranges = [i \in DOMAIN c.sizes |->
              [start |-> start + TransformHeader(c) + SumOver(SubSeq(c.sizes, 1, i - 1)),
               len |-> c.sizes[i]]]]

PayloadError(c) ==
  Check(TransformHeader(c) <= MaxTransformHeaderBytes, "max_transform_header_bytes",
  Check(StoredBytes(c) <= MaxStoredStreamBytes, "max_stored_stream_bytes", "Ok"))

PayloadBytes(c) == TransformHeader(c) + StoredBytes(c)

ReadPayload ==
  LET bytes == PayloadBytes(chunk)
  IN  /\ phase = "payload" /\ (PayloadError(chunk) = "Ok" => Room(bytes))
      /\ read' = IF PayloadError(chunk) # "Ok" THEN read
                 ELSE read \o [i \in 1 .. bytes |-> [field |-> "payload", value |-> 0]]
      /\ Proceed(PayloadError(chunk),
           /\ chunk' = Located(chunk, Offset) /\ phase' = "checksums"
           /\ ChunkStep /\ UNCHANGED <<header, chunks, summary, checked>>)

(* Before v21 the compressed checksum covers the frame from its start.     *)
ChecksumStartMutant == chunk.headers.start
ChecksumStart == IF V >= 21 THEN chunk.start ELSE 0

(* The content checksum comes first and is covered by the other one.       *)
ReadChecksums ==
  LET decoded == IF "decoded" \in header.flags
                 THEN <<[field |-> "decoded", value |-> 0]>> ELSE <<>>
      encoded == "encoded" \in header.flags
      end     == Offset + Len(decoded)
  IN  /\ phase = "checksums" /\ Room(Len(decoded) + IF encoded THEN 1 ELSE 0)
      /\ \E matches \in IF encoded THEN BOOLEAN ELSE {TRUE} :
           /\ read' = read \o decoded \o
                (IF encoded THEN <<[field |-> "encoded", value |-> matches]>> ELSE <<>>)
           /\ Proceed(Check(verify => matches, "ChecksumMismatch", "Ok"),
                /\ checked' = IF encoded THEN Verified(ChecksumStart, end) ELSE checked
                /\ chunks' = Append(chunks, [chunk EXCEPT !.decoded = decoded # <<>>,
                                                          !.encoded = encoded])
                /\ chunk' = NoChunk /\ phase' = "chunks"
                /\ ChunkStep /\ UNCHANGED <<header, summary>>)

(* The input ends before the next field.                                   *)
Truncated ==
  /\ phase \notin {"summary", "scanned", "done"}
  /\ phase = "outputs" => V >= 14
  /\ phase = "strings" => "String" \in ToSet(header.types)
  /\ phase = "chunks" => op # "header" /\ (V < 21 => summary.chunks = 0)
  /\ phase = "payload" => PayloadError(chunk) = "Ok" /\ PayloadBytes(chunk) > 0
  /\ phase = "checksums" => header.flags \cap {"decoded", "encoded"} # {}
  /\ Fail("Truncated") /\ UNCHANGED read
-----------------------------------------------------------------------------
(* The whole frame.                                                        *)

Done(kind) ==
  /\ phase' = "done" /\ result' = kind
  /\ UNCHANGED <<op, verify, read, header, chunk, chunks, summary, checked>>

FinishSize ==
  /\ phase = "scanned" /\ op = "size"
  /\ Done(IF Offset <= MaxFrameBytes THEN "Ok" ELSE "max_frame_bytes")

(* parse_frame takes nothing after the frame.                              *)
TrailingBytes == phase = "scanned" /\ op = "parse" /\ Room(1) /\ Done("Trailing")

Follows(ranges, start) ==
  \A i \in DOMAIN ranges :
    ranges[i].start = IF i = 1 THEN start ELSE ranges[i - 1].start + ranges[i - 1].len

(* The checks of validate.rs that compare the plan with itself.            *)
ChunkConsistent(c) ==
  /\ Follows([i \in DOMAIN c.nodes |->
               [start |-> c.nodes[i].start, len |-> c.nodes[i].field.header]], 0)
  /\ c.nodes # <<>> => Last(c.nodes).start + Last(c.nodes).field.header = c.headers.len
  /\ Len(c.ranges) = Len(c.sizes)
  /\ Follows(c.ranges, c.headers.start + c.headers.len)
  /\ \A i \in DOMAIN c.ranges : c.ranges[i].len = c.sizes[i]

Totals(plans) ==
  [chunks      |-> Len(plans),
   transforms  |-> SumOver([i \in DOMAIN plans |-> Len(plans[i].nodes)]),
   stored      |-> SumOver([i \in DOMAIN plans |-> Len(plans[i].sizes)]),
   regenerated |-> SumOver([i \in DOMAIN plans |-> RegeneratedBy(plans[i])])]

PlanConsistent ==
  (\A i \in DOMAIN chunks : ChunkConsistent(chunks[i])) /\ summary = Totals(chunks)

ZstdNode(c) ==
  /\ Len(c.nodes) = 1
  /\ LET node == c.nodes[1].field
     IN  node.id = "zstd" /\ node.header = 0 /\ node.regens = 1 /\ node.plain
         /\ node.dict = {}
OneZstdNode(c) == ZstdNode(c) /\ Len(c.sizes) = 1

(* validate_frame_plan.  StreamGraph models the verdict on a graph; a node *)
(* has a depth of at least 1, and a zstd node over one stream is refused   *)
(* only by the depth limit.                                                *)
Validate ==
  /\ phase = "scanned" /\ op = "parse"
  /\ \E fits \in [DOMAIN chunks -> BOOLEAN] :
       LET enough(c) == Len(header.types) <= RegeneratedBy(c) + Len(c.sizes)
       IN  /\ \A i \in DOMAIN chunks :
                /\ chunks[i].nodes # <<>> /\ MaxGraphDepth = 0 => ~fits[i]
                /\ OneZstdNode(chunks[i]) /\ Len(header.types) = 1 => fits[i] = (MaxGraphDepth >= 1)
           /\ Done(IF \E i \in DOMAIN chunks : ~fits[i] \/ ~enough(chunks[i])
                   THEN "InvalidGraph"
                   ELSE IF PlanConsistent THEN "Ok" ELSE "Inconsistent")

Next ==
  \/ TooLong \/ ReadMagic \/ ReadFlags \/ ReadBundleId \/ ReadOutputs \/ BadType
  \/ ReadSize \/ ReadStringCounts \/ ReadComment \/ ReadHeaderChecksum \/ FinishHeader
  \/ EndChunks \/ ReadCounts \/ LongZero \/ ReadChunkFlags \/ ReadGraph
  \/ ReadStoredSizes \/ CountChunk \/ ReadPayload \/ ReadChecksums
  \/ Truncated \/ FinishSize \/ TrailingBytes \/ Validate

Spec == Init /\ [][Next]_vars
-----------------------------------------------------------------------------
(* read_single_output_size.                                                *)
FastSizeFitsMutant(field) == field > 0 /\ field - 1 <= MaxDecodedBytes
FastSizeFits(field) ==
  field > 0 /\ field - 1 <= MaxBufferBytes /\ field - 1 <= MaxDecodedBytes

(* parse_single_zstd_frame on the same fields: what it says of field i of  *)
(* r, when it did not stop before: to go on, that this is not its kind of  *)
(* frame, an error, or a frame.                                            *)
FastField(r, i, trailing) ==
  LET x     == r[i].value
      again == \E j \in 1 .. i - 1 : r[j].field = "graph"
      allow(ok) == IF ok THEN "go" ELSE "error"
      expect(ok) == IF ok THEN "go" ELSE "none"
  IN  CASE r[i].field = "magic" ->
             IF x \notin 8 .. 27 THEN "error" ELSE expect(x >= 21)
        [] r[i].field = "flags" -> expect(FromByte(x, r[1].value) \cap {"comment", "bundle"} = {})
        [] r[i].field = "outputs" ->
             IF x # <<"Serial">> THEN "none" ELSE allow(MaxStreams >= 1)
        [] r[i].field = "size" -> allow(FastSizeFits(x))
        [] r[i].field = "nodes" -> expect(~again)
        [] r[i].field = "long zero" -> IF again THEN "none" ELSE "error"
        [] r[i].field = "streams" ->
             IF x # 1 \/ r[i - 1].value # 1 THEN "none"
             ELSE allow(\A limit \in {MaxNodes, MaxStreams, MaxChunks, MaxGraphDepth} :
                          limit >= 1)
        [] r[i].field = "graph" ->
             LET n == x[1]
             IN  IF n.id = "zstd" /\ ~Known(n, r[1].value) THEN "error"
                 ELSE expect(n.id = "zstd" /\ n.header = 0 /\ n.regens = 1 /\ n.plain)
        [] r[i].field = "stored" ->
             allow(x[1] <= MaxBufferBytes /\ x[1] <= MaxStoredStreamBytes)
        [] r[i].field \in {"sum", "encoded"} -> allow(verify => x)
        [] r[i].field = "end" -> IF again /\ ~trailing THEN "frame" ELSE "none"
        [] OTHER -> "go"

FastVerdict(r, trailing) ==
  LET goes(i) == FastField(r, i, trailing) = "go"
  IN  IF \A i \in DOMAIN r : goes(i) THEN "go"
      ELSE FastField(r, CHOOSE i \in DOMAIN r : ~goes(i) /\ \A j \in 1 .. i - 1 : goes(j), trailing)

(* The SingleZstdFrame it returns.                                         *)
FastFrame(r) ==
  LET i == CHOOSE k \in DOMAIN r : r[k].field = "stored"
  IN  [stored  |-> [start |-> i, len |-> r[i].value[1]],
       decoded |-> \E k \in DOMAIN r : r[k].field = "decoded",
       bytes   |-> r[4].value - 1,
       frame   |-> Len(r)]
-----------------------------------------------------------------------------
NodePlan == [field : NodeField, start : Nat]
Plan == [start : Nat, transforms : Nat, stored : Nat, nodes : Seq(NodePlan), sizes : Seq(Nat),
         headers : ByteRange, ranges : Seq(ByteRange), decoded : BOOLEAN, encoded : BOOLEAN]

(* Every variable has the type its field has in the code; from the         *)
(* payload on the chunk being read has a node and a size for every count.  *)
TypeOK ==
  /\ op \in {"parse", "size", "header"} /\ verify \in BOOLEAN
  /\ phase \in {"magic", "flags", "bundle", "outputs", "size", "strings", "comment", "sum",
                "chunks", "chunk flags", "graph", "stored", "summary", "payload",
                "checksums", "scanned", "done"}
  /\ header \in [version : Nat, flags : SUBSET Flags, types : Seq(Types),
                 sizes : Seq(Nat), strings : Seq(SUBSET Nat)]
  /\ chunk \in Plan /\ chunks \in Seq(Plan)
  /\ summary \in [chunks : Nat, transforms : Nat, stored : Nat, regenerated : Nat]
  /\ checked \subseteq ByteRange
  /\ phase \in {"payload", "checksums"} =>
       Len(chunk.nodes) = chunk.transforms /\ Len(chunk.sizes) = chunk.stored

(* The consistency checks of validate.rs are a second line of defence: no  *)
(* input makes the reader build a plan that one of them refuses, and what  *)
(* it builds has the shape TypeOK gives it all along.                      *)
RedundantChecksNeverFail == TypeOK /\ result # "Inconsistent"

Covers(range) == range.start + 1 .. range.start + range.len
Disjoint(ranges) == \A i, j \in DOMAIN ranges : i # j => Covers(ranges[i]) \cap Covers(ranges[j]) = {}

(* The node headers and stored streams of the chunks whose payload was     *)
(* read, as ranges of the input.                                           *)
NodeHeaders(c) ==
  [i \in DOMAIN c.nodes |->
    [start |-> c.headers.start + c.nodes[i].start, len |-> c.nodes[i].field.header]]
PlansLocated == IF chunk.headers.start > 0 THEN Append(chunks, chunk) ELSE chunks
PayloadParts ==
  FlattenSeq([k \in DOMAIN PlansLocated |->
               NodeHeaders(PlansLocated[k]) \o PlansLocated[k].ranges])

(* Every payload byte belongs to exactly one node header or stored stream, *)
(* of one chunk, and these hold nothing else.                              *)
PayloadTiled ==
  /\ Disjoint(PayloadParts)
  /\ UNION {Covers(PayloadParts[i]) : i \in DOMAIN PayloadParts}
       = {i \in DOMAIN read : read[i].field = "payload"}

(* With compressed checksums on and verified, an accepted frame has every  *)
(* field under exactly one of them: all but these checksums themselves and *)
(* the end marker.                                                         *)
EveryFieldChecked ==
  result = "Ok" /\ op = "parse" /\ verify /\ "encoded" \in header.flags =>
    \A i \in DOMAIN read :
      Cardinality({r \in checked : i \in Covers(r)}) =
        IF read[i].field \in {"sum", "encoded", "end"} THEN 0 ELSE 1

(* What a scanned frame may ask of a decoder.                              *)
ScanWithinLimits ==
  result = "Ok" /\ op # "header" =>
    /\ Len(read) <= MaxFrameBytes
    /\ SumOver(header.sizes) <= MaxDecodedBytes
    /\ \A k \in DOMAIN header.sizes : header.sizes[k] <= MaxBufferBytes
    /\ Len(chunks) <= MaxChunks
    /\ SumOver([i \in DOMAIN chunks |-> Len(chunks[i].nodes)]) <= MaxNodes
    /\ SumOver([i \in DOMAIN chunks |-> Len(chunks[i].sizes)]) <= MaxStreams
    /\ SumOver([i \in DOMAIN chunks |-> RegeneratedBy(chunks[i])]) <= MaxStreams
    /\ \A i \in DOMAIN chunks :
         /\ TransformHeader(chunks[i]) <= MaxTransformHeaderBytes
         /\ StoredBytes(chunks[i]) <= MaxStoredStreamBytes

(* The shortcut and the full reader agree: a frame of the shortcut is one  *)
(* that the full reader accepts with the same content; every accepted      *)
(* frame of its kind is one; it refuses no frame that the full reader      *)
(* accepts, and runs out of input only where the full reader does.         *)
FastPathAgrees ==
  phase = "done" /\ op = "parse" /\ result # "max_frame_bytes" =>
    LET fast == FastVerdict(read, result = "Trailing")
    IN  /\ fast = "go" => result = "Truncated"
        /\ fast = "frame" => result = "Ok"
        /\ result = "Ok" => fast \in {"frame", "none"}
        /\ result = "Ok" =>
             (fast = "frame" <=>
                /\ V >= 21 /\ header.flags \cap {"comment", "bundle"} = {}
                /\ header.types = <<"Serial">>
                /\ Len(chunks) = 1 /\ OneZstdNode(chunks[1]))
        /\ fast = "frame" =>
             FastFrame(read) = [stored  |-> chunks[1].ranges[1], decoded |-> chunks[1].decoded,
                                bytes   |-> header.sizes[1], frame |-> Len(read)]

-----------------------------------------------------------------------------
(* Why these hold: what is true between any two fields.                    *)
HeaderPhases == {"magic", "flags", "bundle", "outputs", "size", "strings", "comment", "sum"}

(* Versions decide which phases there are, and when flags are known.       *)
Gates ==
  /\ phase = "magic" => read = <<>> /\ header = NoHeader
  /\ phase \notin {"magic", "done"} =>
       /\ V \in Versions /\ V \in 8 .. 27
       /\ read # <<>> /\ read[1] = [field |-> "magic", value |-> V]
  /\ phase \in {"flags", "bundle", "strings", "comment", "sum"} => V >= 21
  /\ phase = "chunk flags" => V < 21
  /\ V < 21 /\ phase \notin {"chunks", "scanned", "done"} => chunks = <<>>
  /\ V < 21 /\ phase \in HeaderPhases \cup {"chunks", "chunk flags"} /\ chunks = <<>>
       => header.flags = {}
  /\ phase \in {"magic", "flags", "bundle", "outputs"} => header.sizes = <<>>
  /\ phase = "size" => Len(header.sizes) < Len(header.types)
  /\ phase = "scanned" => op # "header" /\ (V < 21 => chunks # <<>>)

NodesRead == phase \in {"stored", "summary", "payload", "checksums"}
InChunk == phase = "graph" \/ NodesRead

Small(c) ==
  TransformHeader(c) <= MaxTransformHeaderBytes /\ StoredBytes(c) <= MaxStoredStreamBytes

(* A plan with nodes, sizes and payload in place.                          *)
Complete(c) ==
  c.nodes = BuildNodes(Fields(c)) /\ c = Located(c, c.headers.start) /\ Small(c)

(* The chunk being read holds what its header has said so far.             *)
ChunkAsRead ==
  /\ phase \in HeaderPhases \cup {"chunks", "scanned"} => chunk = NoChunk
  /\ phase \in {"chunk flags", "graph"} => chunk.nodes = <<>>
  /\ NodesRead => Len(chunk.nodes) = chunk.transforms /\ chunk.nodes = BuildNodes(Fields(chunk))
  /\ phase \in {"summary", "payload", "checksums"} => Len(chunk.sizes) = chunk.stored
  /\ phase \notin {"checksums", "done"} => chunk.headers.start = 0
  /\ phase = "checksums" => Complete(chunk) /\ chunk.headers.start > 0
  /\ InChunk \/ phase = "chunk flags" => chunk.start <= Len(read)
  /\ \A i \in DOMAIN chunks : Complete(chunks[i])

(* The running totals are those of the chunks counted, within the limits.  *)
Counted == IF phase \in {"payload", "checksums"} THEN Append(chunks, chunk) ELSE chunks
SummaryExact == phase # "done" => summary = Totals(Counted)
Admitted ==
  /\ SumOver(header.sizes) <= MaxDecodedBytes
  /\ \A k \in DOMAIN header.sizes : header.sizes[k] <= MaxBufferBytes
  /\ summary.chunks <= MaxChunks /\ summary.transforms <= MaxNodes
  /\ summary.stored <= MaxStreams /\ summary.regenerated <= MaxStreams

(* parse_frame does not read past its limit.                               *)
ReadFits == op = "parse" => Len(read) <= MaxFrameBytes

PlanInv == TypeOK /\ Gates /\ ReadFits /\ ChunkAsRead /\ SummaryExact /\ Admitted

(* Every field up to `Frontier` is under one checksum or is one; those     *)
(* after it are still to be covered.                                       *)
Exempt == {"sum", "encoded", "end"}
Frontier == IF phase \in {"chunks", "scanned"} THEN Len(read) ELSE ChecksumStart
CoveredOnce(i, ranges) ==
  /\ \E r \in ranges : i \in Covers(r)
  /\ \A r, t \in ranges : i \in Covers(r) /\ i \in Covers(t) => r = t
CheckedUpTo(n, fields, ranges) ==
  /\ n <= Len(fields)
  /\ \A r \in ranges : r.start + r.len <= n
  /\ \A i \in 1 .. n : IF fields[i].field \in Exempt THEN \A r \in ranges : i \notin Covers(r)
                       ELSE CoveredOnce(i, ranges)
  /\ \A i \in n + 1 .. Len(fields) : fields[i].field \notin Exempt
ChecksCoverAll ==
  /\ phase \in HeaderPhases =>
       /\ checked = {} /\ \A i \in DOMAIN read : read[i].field \notin Exempt
       /\ phase = "sum" => "encoded" \in header.flags
  /\ verify /\ "encoded" \in header.flags /\ phase # "done" => CheckedUpTo(Frontier, read, checked)
  /\ "encoded" \notin header.flags /\ phase # "done" =>
       checked = {} /\ \A i \in DOMAIN read : read[i].field \in Exempt => phase = "scanned"
  /\ verify /\ "encoded" \in header.flags /\ result = "Ok" /\ op = "parse" =>
       CheckedUpTo(Len(read), read, checked)

(* How far the two readers are together.  Where the shortcut goes on, the  *)
(* fields read are those of its kind of frame;                             *)
Fast == FastVerdict(read, FALSE)
MayDecodeOne == \A limit \in {MaxNodes, MaxStreams, MaxChunks, MaxGraphDepth} : limit >= 1

HasField(r, name) == \E i \in DOMAIN r : r[i].field = name
StoredAt(r, range) ==
  \E k \in DOMAIN r :
    /\ \A j \in DOMAIN r : r[j].field = "stored" <=> j = k
    /\ range = [start |-> k, len |-> r[k].value[1]]

OnFastPath ==
  /\ phase \notin {"bundle", "comment", "chunk flags", "done"}
  /\ phase = "flags" => Len(read) = 1
  /\ phase = "outputs" => Len(read) = 2
  /\ phase = "size" => Len(read) = 3
  /\ phase \in {"magic", "flags", "outputs", "size"} \/ Len(read) >= 4
  /\ phase # "magic" => V >= 21
  /\ phase \notin {"magic", "flags"} => header.flags \cap {"comment", "bundle"} = {}
  /\ phase \notin {"magic", "flags", "outputs"} => header.types = <<"Serial">>
  /\ phase \notin {"magic", "flags", "outputs", "size"} => header.sizes = <<read[4].value - 1>>
  /\ Len(chunks) <= 1 /\ (chunks # <<>> => phase \in {"chunks", "scanned"} /\ OneZstdNode(chunks[1]))
  /\ chunks # <<>> => StoredAt(read, chunks[1].ranges[1])
  /\ InChunk \/ chunks # <<>> => MayDecodeOne
  /\ InChunk => chunk.transforms = 1 /\ chunk.stored = 1
  /\ NodesRead => ZstdNode(chunk)
  /\ phase \in {"summary", "payload"} =>
       StoredBytes(chunk) <= MaxStoredStreamBytes
       /\ StoredAt(read, [start |-> Len(read), len |-> chunk.sizes[1]])
  /\ phase = "checksums" => StoredAt(read, chunk.ranges[1])

(* where it has handed the frame over, they are not;                       *)
OffFastPath ==
  \/ phase # "magic" /\ V < 21
  \/ phase \notin {"magic", "flags"} /\ header.flags \cap {"comment", "bundle"} # {}
  \/ phase \notin {"magic", "flags", "bundle", "outputs"} /\ header.types # <<"Serial">>
  \/ phase = "scanned" /\ chunks = <<>>
  \/ InChunk /\ (chunks # <<>> \/ chunk.transforms # 1 \/ chunk.stored # 1)
  \/ NodesRead /\ ~ZstdNode(chunk)
  \/ Len(chunks) > 1 \/ \E i \in DOMAIN chunks : ~OneZstdNode(chunks[i])

(* and where it has refused the frame, a check still to come will do so.   *)
Doomed ==
  \/ MaxChunks = 0 /\ phase \in {"graph", "stored", "summary"}
  \/ MaxGraphDepth = 0 /\ InChunk /\ chunk.transforms > 0
  \/ MaxGraphDepth = 0 /\ \E i \in DOMAIN chunks : chunks[i].nodes # <<>>
  \/ phase \in {"summary", "payload"} /\ StoredBytes(chunk) > MaxStoredStreamBytes

(* What the fields read say of the chunks.                                 *)
FieldsRead ==
  /\ HasField(read, "graph") <=> NodesRead \/ chunks # <<>>
  /\ HasField(read, "decoded") <=> \E i \in DOMAIN chunks : chunks[i].decoded
  /\ HasField(read, "stored") => phase \in {"summary", "payload", "checksums"} \/ chunks # <<>>

Together ==
  /\ Fast = "go" => OnFastPath /\ phase # "scanned"
  /\ Fast = "none" => OffFastPath
  /\ Fast = "error" => Doomed
  /\ Fast = "frame" => OnFastPath /\ phase = "scanned" /\ chunks # <<>>

ReadersTogether == phase # "done" => FieldsRead /\ Together

(* Limits::max_nodes says: "Most transform nodes per chunk."               *)
NodesLimitedPerChunk ==
  result = "max_nodes" =>
    \E i \in DOMAIN read : read[i].field = "nodes" /\ read[i].value > MaxNodes
=============================================================================
