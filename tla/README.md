# ozlrip in TLA+

ozlrip is a decoder for OpenZL frames, written in Rust without unsafe code. A
frame holds a header, chunks, and in every chunk a graph of transform nodes that
turn stored streams into the outputs. The decoder reads frames it does not
trust, so most of its code is checks, and most of what can go wrong is a check
that another part relies on.

The library is sequential: no threads, no async, no files. Its state is what one
`Decoder` keeps from call to call (a pool of buffers, dictionary bundles), what
one call builds up (a parsed plan, a table of streams, budgets), and the
caller's outputs, which a call may find filled. The hard behaviours are
therefore *protocols*: one pass validates what another relies on; two readers
accept the same format; a failure in the middle unwinds; buffers, entries and
dictionaries outlive the call that made them.

Paths below are relative to `src/crates/decode/src/` unless they name
another crate.

## 1. Inventory

| part | code | state | operations | talks to |
|---|---|---|---|---|
| Public API | `lib.rs`, `info.rs`, `outputs.rs`, `../../core` | options, pool, store, provider of a `Decoder` | `decode_into`, `decode_chunks`, `decode_outputs_into`, `inspect*`, `frame_size`, loads, clears, `shrink_to_fit` | all parts |
| Frame reader | `parse.rs`, `parse/*` | reader position, header, chunk plans, running totals | `parse_frame`, `frame_size`, `inspect_header`, the one-zstd shortcut | gives plans to the executor |
| Graph validator | `parse/validate.rs`, `standard.rs` | cursor, produced streams, depth of each stream | `validate_chunk_plan`, one-node shortcut | the executor trusts it |
| Plan and stream table | `execute/plan.rs`, `slots.rs`, `streams.rs` | resolved nodes, slots, live bytes | build, take, place, move | node loop |
| Node loop and tails | `execute/chunk.rs`, `node.rs`, `direct_append.rs` | next node, the vector appended to | run a node, detect and run a tail | nodes, table, pool |
| Frame decode | `execute.rs`, `execute/output.rs` | `OutputBudget`, the chunk's buffer, `start_len` | decode a chunk, charge, verify, sink, unwind | node loop, pool, caller |
| Typed outputs | `execute/outputs.rs` | caller's entries, budgets, hasher | reset, append, verify, finish | node loop |
| Scratch pool | `execute/runtime.rs` | buffers and the sum of their capacities | take, take stale, recycle, clear | everything that needs a buffer |
| Dictionaries | `dict.rs`, `provider.rs` | bundles, each dictionary or its context | load, replace, clear, ask on demand, build contexts | zstd nodes, provider (callback) |
| zstd, lz4 | `execute/codecs/*` | one decompressor for each call and dictionary | decode a node, decode a frame of one node | external libraries |
| LZ nodes | `execute/lz/*` | output, literal position, repeat offsets | one token at a time | node loop, tails |
| String and dispatch nodes | `execute/strings/*`, `dispatch/*` | cursors into every source | one string at a time | node loop, tails |
| ROLZ decoder | `execute/lz/rolz*.rs` | output, match table, literal cursors, repeat offsets | one sequence at a time | node loop |
| Bit and element readers | `varint.rs`, `execute/elements.rs`, `numeric/bit_reader.rs` | register, pending bits, next byte | refill, take, finish | the codecs |
| Entropy, numeric, layout codecs | `execute/entropy/*`, `numeric/*`, `layout/*` | none between calls | bytes to bytes | node loop |

What makes each part correct, and what is hard about it:

* **Reader.** All fields are covered by one checksum each, payload ranges tile the
  payload, limits hold for what was read, and the two readers agree. Hard:
  version gates, empty ranges, running totals, coverage that changed with
  v21.
* **Validator and executor.** No node of an accepted graph finds an input
  missing or an output slot taken, and a chunk's outputs are the value of its
  graph. Hard: two separate walks of the nodes, and tails that skip the table.
* **Frame decode.** A call appends the whole content or nothing, and accepts
  exactly the sound frames. Hard: four ways to the output, three entry points,
  an error after any chunk, one pool.
* **Typed outputs.** After an error the entries hold the frame up to one point
  and nothing of an earlier frame. Hard: two parts of a string output (bytes,
  lengths) with budgets of their own, entries that are reused.
* **Dictionaries.** A map from IDs to dictionaries within the limits. Hard:
  dictionaries move into contexts on first use, bundles are replaced, the
  provider may answer with anything.
* **LZ nodes.** The doubling copy is the element-wise copy, and no match
  reaches what was there before. Hard: offsets shorter than matches, chunk
  copies past the end, three repeat offsets.
* **String nodes.** The loops rely on checks made before them, or on the checks
  of other nodes. Hard: one loop for CSV rows, two cursors in each source.

* **ROLZ.** The table holds what the encoder's table held at the same moment.
  Hard: rows are rings, a match may be inserted before its bytes are there, and
  a wrong entry only shows matches later.
* **Readers and codecs.** A read gives the next bits, a codec the numbers, elements or
  symbols its streams encode. Hard: the last bytes of a buffer, registers that
  keep bits they no longer count, batches without checks, hand-written copies
  of a general loop, nested containers.

`PROJECT.json` lists these parts with their status, and under `hazards` what a
test would hardly reach, each with its line and the properties that cover it.

## 2. Modules

```
FrameParse ──────── plans ───────▶ StreamGraph ◀── StreamGraphProofs
 (reader, fast path)                (validator, plan, table, tails)
     ▲                                  │
     FrameParseProofs                   │
                                        │ what a chunk's graph computes
             ┌──────────────────────────┼─────────────────┐
     FrameDecode                  TypedOutputs      LzSequences, StringNodes,
     extends ScratchBuffers             ▲           NodeKernels (single nodes)
     implements AtomicDecode    TypedOutputsProofs
     ▲                                  Dictionaries implements DictionaryMap
     FrameDecodeProofs                  ▲
                                        DictionariesProofs

StringNodes ◀───────────────┐
NodeKernels ─┬─ Rolz ◀──────┼─ KernelProofs
             ├─ BitStreams ◀┘
             └─ CodecCalls ─┬─ BucketCodecs ─┐
                            ├─ LayoutCodecs ─┼─ NumericCodecs ── Elements
                            └─ TreeCodecs ── EntropyCodecs ─┘
```

DataInduction holds the lemmas by induction over data that the proofs of StreamGraph,
FrameParse, FrameDecode, Dictionaries, TypedOutputs, LzSequences, StringNodes and Rolz
share.

Every level takes the one below as data. FrameDecode and TypedOutputs are
given what a chunk's graph computes, or that it fails; StreamGraph takes
codecs as uninterpreted functions; the modules of single nodes are the
codecs. `MC*` modules give small instances, `*Proofs` modules hold theorems.
Formulas named `...Mutant` are plausible bugs beside the definition they would
replace; each shows that one property can fail.

### StreamGraph

One chunk from the parsed nodes to its final streams. `phase` says which pass
is running, and passes take one node in each step:

| action | code |
|---|---|
| `ParseNode` | a node from the header arrays, with its distances laid out node after node |
| `BeginValidate`, `ValidateSingle`, `ValidateNode`, `EndValidate` | `validate_chunk_plan` and its shortcut for one node |
| `BuildNode`, `InitSlots` | `ExecutionPlan`: targets and the input cursor; the stream table |
| `ExecuteNode`, `Finish`, `AppendTail` | `run_chunk`, `execute_node`, final outputs, direct-append tails |

Bytes are symbolic. A stored stream is one byte that names it; a codec makes bytes
that name the node, the output, the position and *all the input it was given*.
Equal bytes mean that the same codecs ran on the same inputs in the same order,
so `FinalStreamsAreGraphValues` compares the executor with the meaning of the
graph, whichever way it ran. A codec may fail at every node. `splitn` and
`dedup_num` take their outputs' bytes from their inputs, other codecs regenerate
`OutLen[id]` bytes; a string codec regenerates two strings, and
`interleave_string` deals out those it reads.

`why` tells the errors of the executor apart. `"fault"` stands for the
`InvalidGraph` errors of `plan.rs`, `slots.rs` and `chunk.rs` that blame a graph
the validator should have refused: a target that is out of range or already
regenerated, a left-over stored stream, a node input that is missing or empty, a
number of targets the node's shape does not allow, an output out of the table or
on a stream, a missing final. `NoGraphFault` says none of these is reachable.
Left out are the header ranges (FrameParse) and the checks a tail makes of the
pattern that was just detected. `"count"` is an `InvalidGraph` error an accepted
graph does reach (`execute/chunk.rs:133`): `interleave_string` takes the number
of its outputs from its header and never compares it with the graph, so
`HeaderCounts` are the numbers a header may hold and `MiscountNode` ends the
chunk after the node's inputs are gone. `concat_*` compares the two itself and
`dedup_num` has no number of its own; what a codec refuses is `"codec"`.

### FrameDecode, ScratchBuffers, AtomicDecode

A decoder through several calls: `dst` (capacity and bytes) and `scratch` last
from call to call. A chunk says how its bytes come out of its graph (stored,
borrowed, an owned buffer, an LZ tail, a zstd tail), whether a codec fails after
some bytes, and what its checksum is a checksum of. A step is what the code does
between two places where it can fail: open and check the budget, decode on one
of the paths, charge the budget, verify, give to the sink, finish, return.
Every reservation may fail. `ScratchBuffers` has the pool operations as
operators on a pool value. Growth slack of `Vec` is left out: a capacity is what
was asked for.

`AtomicDecode` is the contract: accept a sound frame and append its whole
content, or refuse and change nothing. `ImplementsAtomicDecode` refines it:
`out` is `saved` while a call runs and `dst` in between, so all appending and
truncating is invisible until a call ends. `Sound` reads a frame's data only, so
the refinement also says that the order of the checks does not matter.

### Dictionaries, DictionaryMap

The store, the provider as a callback that may answer anything, and the zstd
nodes of a decode that use dictionaries one after another. An encoded bundle is
abstracted to what parsing it finds. `DictionaryMap` promises a plain map; the
refinement reads a dictionary from wherever it is, waiting or inside a
context. `given` and `supplied` are history variables. A load ends with
`"Loaded"` and a decode with `"Ok"`, to tell the two apart in the contract.

### TypedOutputs

`decode_outputs_into` for frames that are not one serial output. Entries stay
from call to call. `AppendBytes`, `AppendStrings` and `StringsFail` split
`append_stream` where it can fail, since a string's bytes are appended before its
lengths are checked. `hashed` is what the hasher was fed; length `n` is `-1 - n`
in it, so lengths and bytes cannot be confused.

### FrameParse

The input is *chosen while it is read*, one field in each step, so all inputs
made of the given values are explored, and the input may end before every
field. `read` is the input so far and `Reader::offset` its length. A varint, a
packed array or a checksum is one field; a payload byte is one field; a
checksum field is TRUE when it matches. Errors are named by the limit that
refused. `"Inconsistent"` stands for the consistency checks of `validate.rs`
and `"Trailing"` for bytes after the end. Whether a graph is valid is
StreamGraph's question. The metadata readers for one node and for several are
one action. `FastVerdict` is the shortcut of `parse/fast_zstd.rs` as a function
of the same input: `FastPathAgrees` compares both readers on all inputs.

### LzSequences

`lz`, `field_lz` and `fastlz_deprecated` as one machine with the copy loop they
share. The unit is the byte, in `field_lz` the element. Literals are their
number, so an element of the output tells where it came from; what was there
before the node is `Old`. Tokens are chosen while they are read. An offset or
extra-length stream is one entry for each value. `Exhausted`, `Leftover` and
`Size` are `Malformed` in the code; they get names of their own as the model
chooses whether a stream ends. `DecodesAsDefined` compares the output with a
definition that appends one element at a time and keeps repeat offsets as a list
in order of last use.

### StringNodes

Seven nodes that cut and join strings. A `Call` is a node with its inputs; `StartNode`
makes the checks and reservations that precede the loop, then each string (or
run, or output) is one step. Sources, tags and tokens are numbered from 1.
`"Redundant"` is an error or panic inside a loop that the checks before it
should exclude. A reservation may fail in `StartNode`. The CSV row pattern is a
constant: three sources and four strings to a row in the run, against eight strings
in the code.

### Rolz

`rolz_deprecated` one literal, one inserted position and one match in each step,
so the table can be looked at between any two of them. Bytes are values here:
the row of a position is a hash of the two bytes before it (`RowOf`, any function). What
a sequence takes from its three value streams is chosen while it is read;
types and literals belong to the call. Positions count from 0 as in the code, and an
entry holds a position plus one, so that 0 is an empty slot. `"Redundant"` is the error
of a table entry at or behind the position that looks it up. `RolzDecodesAsDefined`
recomputes output and table from the sequences read, without rings: the entries of a
row are all inserted positions of that hash, the newest first.

### BitStreams

`ForwardBitReader`. A string of bits is the set of places of its ones: OR is
union, a shift moves places. A 64-bit refill ORs a whole word above the pending
bits, although it only accounts for the whole bytes that fit; the surplus bits
stay and the next refill ORs the same bits over them. Steps are a read, the
choice of refill, every byte of the slow refill, mask and shift, and the check
for zero padding, in any order a node may call them.

### Codecs

`Elements` (widths, varints, packed bits), `NumericCodecs`, `BucketCodecs`
(quantize, partition), `LayoutCodecs`, `EntropyCodecs` (FSE, Huffman and the
ROLZ value streams) and `TreeCodecs` (PivCo-Huffman and the legacy containers)
translate each node to an operator from its streams and header to a stream or an
error, in the order of the code's checks and with the code's way of computing:
the buffered, windowed and short-window unpackers, the FSE batches and their checked
tail, the rank starts of a Huffman table, the flat leaves of the PivCo tree.
Beside each one stands what it should give (`...Right`): the encoding of the result
gives the input again wherever an encoder has no choice, and a definition by
positions where it has. `CodecCalls` makes a call of each an action;
`NodeKernels` puts it together with Rolz and BitStreams as
`execute_standard_node` dispatches them.

A header of flags is a record of its fields; one of varints or elements keeps its
bytes. Size-prefixed streams are parts: the stored size and the bytes. Bytes have
`ByteBits` bits and a word `WordBytes` bytes. `Sealed`, `Backwards` and `Taken` are
the contract of zrip's reverse bit reader; an FSE table is what zrip builds and
belongs to the input.

## 3. Runs

Twelve runs; all finish in a minute or so. One states fairness: `lz` checks
`EveryCallEnds`, that each call of an LZ node ends, under weak fairness of its next
step. That is what sequential code gives: a thread that runs takes its next
step, and nothing waits for anything. The copy loops are where termination is not
plain, as they end when pieces add up. The runs that say `CHECK_DEADLOCK FALSE`
do so because a read, a chunk, a node or the last of the bounded calls comes to
an end. Dictionaries and TypedOutputs never stop and are checked for deadlock.

| run | asks | bounds |
|---|---|---|
| `graph_tails` | Do the table and the tails compute the same value? Is the live-byte count exact? | 3 nodes of 6 kinds that form tails, every arrangement of streams |
| `graph_shapes` | Does validation exclude the faults that blame the graph? Shortcut, depth, inductive invariant | 3 nodes, fan-out, joins, all malformed nodes, headers of 1 to 3 outputs, depth limit 2 |
| `graph_live` (finding) | Do streams together stay under `max_live_bytes`? | chains of 2 nodes |
| `frame_calls` | Contract, unwinding, sink, pool | 2 calls, 2 chunks (an owned or LZ chunk before every path, every path twice), pool of 2 buffers and 3 bytes |
| `dictionaries` | Limits, asking once, contract | 2 IDs, 11 bundles, unbounded histories |
| `outputs_frames` | Entries at every step, acceptance | 2 outputs, 2 chunks, unbounded histories |
| `outputs_entries` (finding) | One entry for each output after an error? | the same |
| `parse_frames` | Do the two readers agree? Ranges, coverage, totals | all headers with one flag, chunks one field away from a single zstd node; 2 chunks of 2 nodes and 2 streams, v16 and v21 |
| `parse_nodes` (finding) | Is `max_nodes` a limit of each chunk? | the same |
| `lz` | Copies against definition, isolation, reserve, termination | all pairs of tokens, lengths to 5, offsets to 3 |
| `strings` | Strings restored, checks suffice | sources of up to 4 strings, lengths off by a byte |
| `kernels` | Do ROLZ, the bit reader and every codec give what their streams encode? | 4-bit bytes, words of 4 bytes, every input accepted or refused for each reason; ROLZ rows of 2 entries; registers of 4 two-bit bytes |

Why these bounds are enough to meet the interesting cases:

* *Graphs.* A codec with two conversions behind it is the shortest chain with a
  middle, and the other tails have two nodes; three leave room for a node before
  them. A clash of targets, a join or a move needs two nodes and a reader. Depth
  differs from node count only where nodes are not in a chain.
* *Calls.* What one call leaves for the next is `dst`, the pool and nothing else;
  the second call starts from every state the first can leave. A pool of two
  buffers has a best fit, a swap-remove and both caps.
* *Dictionaries.* Limits of 3 dictionaries and 4 bytes admit only some pairs and some
  replacements. A frame names at most one bundle, so two IDs show a named and an
  other one.
* *Parse.* Limits lie between values of the fields. `FrameParse` meets both sides
  of the gates at 8, 14, 15, 21 and 25.
* *LZ.* A match of 5 with offsets 1 to 3 has a first piece, a doubling, and a
  last piece cut short. Scaled constants: `COPY_CHUNK` 16 to 2, the length escape 15
  to 2, the fastlz minimum offset 16 to 2.
* *Strings.* Two sources, three strings and a byte too many or too few tell all
  checks apart; `COPY_CHUNK` is 2.

* *ROLZ.* Rows of two entries wrap at the third insertion and lose their oldest
  entry; four pairs of bytes in three rows collide. Three sequences with literals and each match
  type show insertions before and after a match and a later look-up of both.
* *Bit reader.* With two bits to a byte and four bytes to the register, a read
  of up to 6 bits is one take, 7 or 8 are two and 9 is refused; sources of up to 6
  bytes have word refills, byte refills and ends between them. Nine patterns of
  ones put them at the ends of bytes, words and sources.
* *Codecs.* Bytes of 4 bits make every value of an element of one byte, and widths
  of 1, 2 and 4 bytes remain; varints have 6 bytes, the last with one bit, as ten
  of 7 bits have in 64. Direct codes below 4 stand for those below 16 and 32, table logs
  of 2 and 3 for 11 to 20, batches keep their 4. The limit of 28 bytes lies
  between the sizes of the inputs; `BufferMax` is a little more, as the two limits of the
  code differ: copies of `dedup_num` lie on both sides of each.

### What the findings say

1. `graph_live`: `Limits::max_live_bytes` (`../../core/src/lib.rs:154`) is "Most
   bytes all intermediate streams of one chunk may hold at once". `execute_node`
   charges outputs after it released inputs, though both exist while the node
   runs: under a limit of 2 bytes, a chain of two `zstd` nodes that regenerate 2
   bytes each holds 4 for a moment and decodes.
2. `outputs_entries`: `decode_outputs_into` (`lib.rs:258`) says an error leaves "one
   entry per output". The provider is asked before the entries are reset, so its
   error leaves those of the previous frame.
3. `parse_nodes`: `max_nodes` (`../../core/src/lib.rs:144`) is "Most transform nodes per
   chunk"; the code checks the running total over chunks.

Seen in the source while modelling, and not worth a run: `max_streams` ("per
chunk", `../../core/src/lib.rs:146`) is a running total in the same way, and
`max_stored_stream_bytes` ("Largest stored stream", line 150) bounds their sum.
The comment at `execute/chunk.rs:151` reads as if every kernel respected
`max_output`; only zstd does, and the budget refuses the others afterwards. The
expansion check counts no string lengths in v15 to v20, where a frame does not state
their number. These follow from the definitions in FrameParse, FrameDecode and
TypedOutputs. In the legacy containers, `LegacyLimit::Buffer` is documented as
"checked against the buffer limit" (`execute/entropy/legacy.rs:210`), but a
Huffman block in such a container calls `check_output_len`, which also applies the limit
of node outputs (`HuffmanBlock` in TreeCodecs).

## 4. Proofs

TLAPS proves these for every value of the constants that satisfies the `ASSUME`s
(types of the inputs, natural bounds, a token's shape): any node plans and depth
limit, frames, number of calls, bundles, tokens.

* **DataInduction.** Sums, concatenations and folds are recursive functions, and the
  library's induction theorems take an operator as a parameter, which the
  provers cannot instantiate. `SetInduction` and `BoundedInduction` say the same of a
  *set* of numbers, from `<` being well-founded on `Nat`. From them follow that the
  recursive functions exist and unfold, and what is cited elsewhere: the sum and the
  concatenation of a sequence made longer by one (`SumLast`, `FlattenLast`), of one
  with an entry replaced (`SumReplaced`), of a part of it (`SumGrows`,
  `FlattenGrows`), and of a fold by a function (`FoldIsSolved`, `FoldLast`). Sums over
  sets are built on a CHOOSE of one element at a time; `SolutionAdds` shows that the choice
  does not matter, by induction over the subsets (`SubsetInduction`), and
  `QuotientIs` and `Shares` are what rings and dealing in turn need of remainders.

* **StreamGraphProofs.** `NoGraphFault` is not inductive: that a slot is full when
  a node reads it depends on who wrote it. `GraphInv` adds the reason. `Validated`:
  a node's targets lie above the end of its inputs, and no two nodes share
  one. Nodes read consecutive streams, so a producer precedes the
  only reader. `Resolved`: the plan resolves what was validated. `Counted`:
  distances number the regenerated streams, so the stored streams are exactly the
  other slots. `SlotsFollowPlan`: a slot is empty exactly if it was read or is
  yet to be written. Given that, `ExecuteNode` cannot fault (a miscount of
  `interleave_string` is an error of its own) and `Finish`
  finds all finals. The same invariant carries four more results.
  `GraphValuesDecoded`: the meaning of a graph is a recursive function over its nodes;
  it unfolds (`ValueAt`), as a node reads only streams above its outputs, so every
  full slot holds the value of its stream (`Holds`) and a detected tail, which
  skips the table, computes the same value as its nodes one after another.
  `LiveBytesCounted`: the counter is the sum over the slots, which each step changes in
  the slots it empties and fills. `DepthStaysBounded`: the depth the validator counts
  from its table of streams is the recursive depth of the nodes.
  `SingleNodeShortcutSound`: the shortcut for one node refuses and accepts as the
  general validation would.
* **FrameParseProofs.** None of the invariants is inductive by itself; `Base` says what
  is true between any two fields. `Gates`: which phase a version allows.
  `ChunkAsRead`: what is known of the chunk under way, up to `Complete`, a plan whose
  nodes follow each other and whose ranges are those `set_payload_start` computes.
  `SummaryExact`: the running totals are the sums over the chunks counted. From
  `Complete` follow all comparisons of `validate.rs` (`PlansAreConsistent`);
  with `Admitted`, the sums within their limits, an accepted scan is within all of
  them (`ScansStayWithinLimits`). `ChecksCoverAll` keeps a `Frontier`: up to
  it each field is under one verified checksum or is one, after it none is yet; a
  checksum moves it to its own end, since it starts where the last one ended, at the chunk
  from v21 on and at the first byte before, where only one chunk and no header
  checksum exist. Hence `FieldsAreCheckedOnce`. `PayloadIsTiled`: ranges that follow
  each other tile what they span (`RangesTile`), and disjoint tilings join
  (`TilesJoin`), chunk after chunk.
  `ReadersAgree`, on the shortcut, needs to know how far the two readers are together
  (`ReadersTogether`): while the shortcut goes on, the reader is on its path
  (`OnFastPath`: what each phase has read is of the shortcut's kind); where it handed
  the frame over, the reader has seen what is not of this kind (`OffFastPath`); where it
  refused, a check the reader has still to make will refuse as well (`Doomed`). Its
  checks come in another order than the reader's, so the last two must be kept until
  the end (`OffStays`, `DoomedStays`); `PathStep` has a lemma for every field on
  the path, at which the two either go on together or part in one of these ways.
* **FrameDecodeProofs.** `DecodeInv` follows the output's length through the
  budget in every phase (`BudgetExact`) and keeps the caller's bytes as a prefix
  (`Kept`). Truncating to `start_len` then restores them, and a success has
  appended the declared size: `OutputRestoredOrComplete`. `PoolWithinCaps` needs the
  facts about removing from and adding to the pool; `PoolCountIsExact` adds that a best fit
  taken by swap-remove, a buffer recycled or dropped, and a clear change the stored
  count by what they change the sum by. `SizesInv` and `ContentExact` follow the
  *bytes*: at the end of each chunk the output is the caller's bytes, then the
  concatenation of the chunks decoded, whose checks all passed, and the sink has been
  given those chunks and no byte of the one under way. Hence
  `SinkIsGivenVerifiedPrefix` and the refinement `DecodeImplementsAtomicDecode`: a
  success has appended the whole content of a sound frame, a refusal had a reason that
  `Sound` names, and every other step is a stutter.
* **DictionariesProofs.** `StoreInv` says that IDs are distinct, each dictionary is in
  one place, what the provider supplied is loaded, and a question is only asked for what is
  not. The refinement theorem `StoreIsAMap` rests on two lemmas: inserting a
  bundle is `Put` on the map (`InsertIsPut`), and building a context does not
  change it (`BuildKeepsMap`). `LimitsHold`: the limits are checked against a count
  made before the bundle is put in, without the bundle it replaces; the count is the
  sum after it (`InsertWeighs`), and a dictionary that moves into a context is not
  counted twice (`UseWeighs`).
* **TypedOutputsProofs.** The check of a stream's bytes looks at a budget, that of
  its lengths at the entry. `OutputInv` adds that every budget counts the bytes its
  entry holds and that the entries are about the frame being decoded; then what
  passes both checks fits, and `ContentWithinDeclared` holds after every step, also
  of a chunk that fails between a string output's bytes and its lengths.
  `EntriesInv` and `ContentExact` say what each entry holds at every point of the
  loop over outputs: those already served hold all chunks up to this one, the others up to the
  one before. So after an error the entries are the frame cut at one point
  (`OutputsCutAtOnePoint`), and since the budgets then measure the same lists as the
  frame's definition, acceptance is soundness (`OutputsAcceptExactlySound`).
* **LzSequencesProofs.** `LzInv` adds `Periodic`: while a match is copied, the last
  `offset` elements equal the `offset` elements before the match. From it
  follows that doubling what has been copied continues the repetition, for all
  offsets and lengths, and `MatchRepeats` holds. Offsets are bounded by what the
  node itself has made, hence `NothingFromBefore`; `Reserved` carries the
  capacity to the chunk copies, hence `ReservesOnce`. `DecodesAsDefinedHolds` compares
  with the definition that appends one element at a time, a fold over the tokens
  read. A match in it is a fold of its own, which gives the repetition (`RepeatFolds`);
  with `Periodic` the two copies are the same sequence. `Meant` states the agreement
  between any two tokens and inside of one, the three offset variables as the
  definition's list in order of last use (`Agree`), and that an error is reported
  only for a token that defines nothing (`Ended`).
* **KernelProofs, ROLZ.** `RolzInv` is inductive together with the types. `PointsBack`: an
  entry is a position before the end of the output, and the two bytes before it
  belong to its row. `NewestFirst`: around a ring
  from its head, positions fall, and no filled slot follows an empty one.
  `InStep` ties the position to insert, the literals left and the length of the
  match to the phase. Rings make arithmetic modulo the row size, so the proof
  goes through lemmas on `Slot` and `HeadBefore`: moving the head back shifts
  every entry by one place and drops the last. From it follows that the error
  `"Redundant"`, an entry not behind the position that looks it up, does not occur.

  `SequencesDecodeAsDefined` builds on it. The definition has no rings and no phases: it is a
  recursion over the sequences read, a sequence in it is its literals, its match and the
  positions both insert, and the n-th entry of a row is the n-th newest position of
  that hash (`Nth`). `Following` ties the decoder to it in each phase (`InLiterals`, `InMatch`,
  `InRest`, `AtSequence`): the bytes so far, the literals not taken (`Untaken`), the
  recent offsets, and the table as the list of the positions inserted so far. Its core:
  a position put in makes every other of its row one older and moves no other row
  (`NthAppended`, `TablePut`), and output that only grows leaves all rows alone (`NthStays`);
  the bytes of a match repeat the last `offset` ones (`CopiedIs`); one length has a
  given code (`CodedIs`); the decoder resolves the match the sequence means, or there is none
  (`MatchIs`). The order of insertion matters: a ROLZ match goes in before its bytes, any other
  afterwards and at two positions.
* **KernelProofs, bit reader.** `ReadsGiveTheBits` rests on `BitInv`: every one in
  the register is the source's bit of that place, and every pending bit is
  there (`Mirrors`; a copy above `available` is a bit not loaded yet); what the
  read has so far is the bits from where it began (`ReadsBits`); after a load
  the bits wanted are there or no byte is left (`Loads`). That is the reason that OR-ing a word
  over surplus bits is sound, for all byte and register sizes.
* **KernelProofs, strings.** `StringChecksSuffice`: what a string node checks before its
  loop is enough for the loop. `StringInv` has one conjunct for each loop
  (`DispatchDone`, `TagsDone`, `PrefixDone`, `TokensDone`, `DealDone`, `ComponentsDone`),
  which says how far it is in numbers: the bytes taken of a source and those an output holds
  are sums of lengths over the places passed so far. A check is a sum over all
  places, and `SumOfPart` says that a part adds up to no more: so a slice lies in its
  source, an output stays within what was reserved for it, chunk copies included, and
  the tags have dealt out everything when they end. Assumed of the constants:
  a call has the shape the registry gives its node, and the CSV row has a string.

  `NodesRestoreStrings` builds on it: the strings are those the inputs describe, and inputs
  refused as malformed describe none. `RestoreInv` adds to `StringInv` what each loop has
  made so far, as a prefix of `Contents` (`StringsMade`, with `DispatchMade`, `OneMade`,
  `DealMade`, `RunsMade` and `ComponentsMade` for the kinds of loop). Its core are
  lemmas on cutting: strings cut one after the other join to a cut of the content
  (`StringsJoin`), the next string of a source is where `bytePosition` is
  (`StringAt`), dealing in turn gives output o its k-th string at place
  (k - 1) * count + o (`Shares`), and the bytes a prefix copies from the output are a prefix
  of the string before (`PrefixedFits`: the check by lengths is the check by strings).
  It also shows where acceptance is decided late: the dispatch to serial output, which
  does not add up the lengths of its sources, and concat only know at the end of their
  loops, and that check and `Accepted` agree (`SourcesUsedUp`, `RunsUsedUp`).

Only model-checked:

* `NumericAsDefined`, `LayoutAsDefined` and `EntropyAsDefined`: bit operators and trees
  of codes are RECURSIVE operators in modules of theirs, which tlapm cannot use;
* `EveryCallEnds`: liveness under fairness.

## 5. Not modelled

* `parse_int`, which formats decimal text with the standard library, and the
  conversions that keep all bytes and only check widths and headers.
* How packed headers of FSE, Huffman and ROLZ nodes are read from their bytes: the
  fields are inputs, and a malformed header is one outcome. zrip's table
  builder and its decoding of byte Huffman streams are external.
* 64-bit arithmetic as such: with small words the codecs meet the same
  boundaries, and TLC has 32-bit integers. SIMD variants are the scalar definition.
* The zstd and lz4 libraries: external.
* Formatting of errors, info types, tests, fuzzing, benchmarks and the C shim.
* Memory: a reservation may fail everywhere it is fallible; `Vec` growth policy is
  left out.

## 6. Plan

Done, in the order of importance: StreamGraph (the validator as the
foundation of the executor), FrameDecode with its pool and contract,
Dictionaries, TypedOutputs, FrameParse, LzSequences, StringNodes, then the codecs,
the bit reader and ROLZ as NodeKernels.

What is left is composition: put what StreamGraph computes in the place of FrameDecode's
chunks, for the interplay of tails, budget and pool inside a node.
