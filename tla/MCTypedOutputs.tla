--------------------------- MODULE MCTypedOutputs ---------------------------
(***************************************************************************)
(* Small instances of TypedOutputs for TLC.  Streams are listed as the     *)
(* graph leaves them: the last one is output 1.                            *)
(***************************************************************************)
EXTENDS TypedOutputs

Numbers(width, bytes) == [type |-> "Numeric", width |-> width, bytes |-> bytes, lengths |-> {}]
Records(width, bytes) == [type |-> "Struct", width |-> width, bytes |-> bytes, lengths |-> {}]
Strings(bytes, lengths) == [type |-> "String", width |-> 1, bytes |-> bytes, lengths |-> {lengths}]
Plain(bytes) == [type |-> "Serial", width |-> 1, bytes |-> bytes, lengths |-> {}]

Of(streams) == [streams |-> streams, fails |-> FALSE, sum |-> {}]
Failing == [streams |-> <<>>, fails |-> TRUE, sum |-> {}]

Out(type, size, elements) == [type |-> type, size |-> size, elements |-> elements]

Typed(version, encoded, outs, chunks) ==
  [prepared |-> "Ok", version |-> version, encoded |-> encoded,
   outputs |-> outs, chunks |-> chunks]

(* With the checksum of its content, as each format hashes it, or none.    *)
Summed(f) ==
  {f} \cup {[f EXCEPT !.chunks = [i \in DOMAIN f.chunks |->
               [f.chunks[i] EXCEPT
                  !.sum = {ChunkHash([f EXCEPT !.version = v], f.chunks[i])}]]] :
              v \in {14, 15}}

OneString == {Strings(<<>>, <<0>>), Strings(<<1>>, <<1>>), Strings(<<2>>, <<0, 1>>),
              [Strings(<<1>>, <<1>>) EXCEPT !.lengths = {}], Plain(<<1>>),
              [Strings(<<1>>, <<1>>) EXCEPT !.width = 2]}

(* A number column and a string column: every chunk of the second one.     *)
Columns ==
  UNION {Summed(Typed(v, 9, <<Out("Numeric", 2, {}), Out("String", size, n)>>,
                 <<Of(<<Plain(<<1>>), Strings(<<1>>, <<1>>), Numbers(1, <<1>>)>>),
                   Of(<<s, Numbers(1, <<2>>)>>)>>)) :
         v \in {21}, size \in 1 .. 2, n \in {{}, {2}, {3}}, s \in OneString}

(* One typed output in two chunks: widths, partial elements, types.        *)
Widening ==
  {Typed(14, 9, <<Out(t, 4, {})>>, <<Of(<<a>>), Of(<<b>>)>>) :
     t \in {"Numeric", "Struct"},
     a \in {Numbers(2, <<1, 2>>), Records(0, <<>>), Records(2, <<1, 1>>), Records(4, <<1, 1, 1, 1>>)},
     b \in {Numbers(2, <<2, 1>>), Numbers(1, <<1, 2>>), Numbers(2, <<1>>), Records(0, <<>>),
            Records(3, <<1, 2, 1>>), Records(2, <<2, 2>>), Numbers(3, <<1, 2, 1>>)}}

(* Frames that fail before or while they are planned, or between chunks.   *)
Refused ==
  {[Typed(25, 9, <<Out("String", 1, {1}), Out("Serial", 1, {})>>, <<>>) EXCEPT !.prepared = p] :
     p \in {"Malformed", "provider"}}
  \cup {Typed(21, e, <<Out("String", size, {n}), Out("Serial", 1, {})>>,
              <<Of(<<Plain(<<1>>), Strings(<<1>>, <<1>>)>>)>>) :
          e \in {1, 2, 9}, size \in {1, 12}, n \in {1, 4}}
  \cup {Typed(21, 9, <<Out("Serial", 1, {}), Out("Struct", 2, {})>>, <<c, d>>) :
          c \in {Of(<<Records(2, <<1, 2>>), Plain(<<1>>)>>), Failing},
          d \in {Of(<<Plain(<<>>)>>), Failing, Of(<<Records(1, <<>>), Plain(<<>>)>>),
                 Of(<<Records(2, <<>>), Plain(<<>>)>>)}}

(* From v15 to v20 a frame states no string count.                         *)
Uncounted ==
  {Typed(15, e, <<Out("String", 1, {}), Out("Serial", 0, {})>>,
         <<Of(<<Plain(<<>>), Strings(<<1>>, lengths)>>)>>) :
     e \in {1, 9}, lengths \in {<<1>>, <<0, 1>>, <<0, 0, 1>>, <<0, 0, 0, 1>>}}

TypedFrames == Columns \cup Widening \cup Refused \cup Uncounted
             \cup UNION {Summed([f EXCEPT !.version = v]) : v \in {14, 15},
                          f \in {g \in Uncounted : g.encoded = 9}}
=============================================================================
