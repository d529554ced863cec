--------------------------- MODULE MCFrameDecode ---------------------------
(***************************************************************************)
(* Small instances of FrameDecode for TLC.                                 *)
(***************************************************************************)
EXTENDS FrameDecode

Plain(path, bytes) ==
  [path |-> path, bytes |-> bytes, fails |-> FALSE, sum |-> {}]

Frame(serial, declared, encoded, chunks) ==
  [serial |-> serial, declared |-> declared, encoded |-> encoded,
   chunks |-> chunks]

Failing(path, bytes) == [Plain(path, bytes) EXCEPT !.fails = TRUE]
Summed(path, bytes, of) == [Plain(path, bytes) EXCEPT !.sum = {of}]

(* Headers no decode opens: other outputs, unknown, too large, expanding;  *)
(* and some that may.                                                      *)
SomeHeaders ==
  {Frame(FALSE, 1, 1, <<Plain("stored", <<1>>)>>)}
  \cup {Frame(TRUE, d, e, <<Plain(p, <<1, 2>>)>>) :
          d \in {Unknown, 2}, e \in {0, 1, 5}, p \in {"owned", "zstd"}}
  \cup {Frame(TRUE, 4, 2, cs) :
          cs \in {<<Plain(p, <<1, 2>>), Plain(p, <<1, 2>>)>> : p \in {"lz", "owned"}}
                 \cup {<<Plain("zstd", <<1, 2, 1, 2>>)>>}}
  \cup {Frame(TRUE, d, 1, <<>>) : d \in {0, 1}}

(* One chunk on every path: too short, too long, failing, and with its own *)
(* or another's checksum.                                                  *)
OneChunk ==
  UNION {{Frame(TRUE, 1, 2, <<Failing(p, <<2>>)>>),
          Frame(TRUE, 1, 2, <<Plain(p, <<1, 2>>)>>),
          Frame(TRUE, 2, 2, <<Plain(p, <<1>>)>>),
          Frame(TRUE, 2, 2, <<Summed(p, <<1, 2>>, <<1, 2>>)>>),
          Frame(TRUE, 2, 2, <<Summed(p, <<1, 2>>, <<1>>)>>)} : p \in Paths}

(* Two chunks, the first sound, the second sound or one that fails late.   *)
TwoChunks ==
  {Frame(TRUE, 2, 2, <<Plain(p, <<1>>), c>>) :
     p \in {"owned", "lz"},
     c \in UNION {{Plain(q, <<2>>), Plain(q, <<1, 2>>), Failing(q, <<2>>),
                   Summed(q, <<2>>, <<1>>)} : q \in Paths}}
  \cup {Frame(TRUE, 3, 2, <<Plain(p, <<1, 2>>), Plain(p, b)>>) :
          p \in Paths, b \in {<<1>>, <<1, 2>>}}

AllFrames == SomeHeaders \cup OneChunk \cup TwoChunks
=============================================================================
