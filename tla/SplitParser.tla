---------------------------- MODULE SplitParser ----------------------------
(***************************************************************************)
(* SplitParser (src/src/io/datastream.cpp): the parser that hands a stream *)
(* to the shell in the pieces between markers.  The stream comes in parts  *)
(* of any size; what has no marker behind it yet waits in a buffer.  The   *)
(* scan takes up the tail of the buffer, where a marker may have begun, at *)
(* negative positions.                                                     *)
(***************************************************************************)
EXTENDS Integers, Sequences

CONSTANTS
  Bytes,
  Markers,    \* the values of splitMarker
  MaxStream,  \* bound: length of the stream
  MaxPart     \* bound: length of a part

VARIABLES
  splitMarker,
  markerChanged,  \* mSplitMarkerChanged
  buffer,
  read,           \* what read() was emitted with
  stream,         \* history: all that came in
  switched        \* history: the marker was changed

parserVars == <<splitMarker, markerChanged, buffer, read, stream, switched>>

Least(a, b) == IF a < b THEN a ELSE b
LastOf(s)   == s[Len(s)]

\* Mutant: the tail of the buffer is not looked at.
ByteForgets(buf, in, i) == IF i < 0 THEN in[1] ELSE in[i + 1]
\* The byte at position i of the scan.
Byte(buf, in, i) == IF i < 0 THEN buf[Len(buf) + i + 1] ELSE in[i + 1]

\* A scan from `first' to `last' for the positions in `at', which goes on `step' after each.
Scan(at, first, last, step) ==
  LET found[i \in first..last + step] ==
        IF i > last THEN <<>>
        ELSE IF i \in at THEN <<i>> \o found[i + step] ELSE found[i + 1]
  IN found[first]

\* The positions at which the scan of a part finds a marker.  It passes over one byte
\* after each.
MarkersAt(buf, in, first) ==
  {i \in first..Len(in) - Len(splitMarker) :
     \A k \in 1..Len(splitMarker) : Byte(buf, in, i + k - 1) = splitMarker[k]}
Cuts(buf, in) ==
  LET n     == Len(splitMarker)
      first == 0 - Least(Len(buf), n - 1)
  IN Scan(MarkersAt(buf, in, first), first, Len(in) - n, n + 1)

\* The pieces of text before and after the markers at the positions cuts, which
\* count from the offset off; n: length of a marker.
Pieces(text, cuts, off, n) ==
  [k \in DOMAIN cuts |-> SubSeq(text, IF k = 1 THEN 1 ELSE cuts[k - 1] + off + n + 1, cuts[k] + off)]
Remainder(text, cuts, off, n) ==
  IF cuts = <<>> THEN text ELSE SubSeq(text, LastOf(cuts) + off + n + 1, Len(text))

\* parseBytes(buffer, buffer), which a changed marker calls for: the positions
\* before the buffer are those of its own tail.
Rescanned ==
  LET cuts == Cuts(buffer, buffer)
  IN [read   |-> Pieces(buffer, cuts, 0, Len(splitMarker)),
      buffer |-> Remainder(buffer, cuts, 0, Len(splitMarker))]

\* parseBytes() of a part.
Parse(in) ==
  LET old  == IF markerChanged THEN Rescanned ELSE [read |-> <<>>, buffer |-> buffer]
      text == old.buffer \o in
      cuts == Cuts(old.buffer, in)
      off  == Len(old.buffer)
      n    == Len(splitMarker)
  IN IF splitMarker = <<>>
     THEN /\ read' = read \o (IF buffer = <<>> THEN <<>> ELSE <<buffer>>) \o <<in>>
          /\ buffer' = <<>>
          /\ UNCHANGED markerChanged
     ELSE /\ read' = read \o old.read \o Pieces(text, cuts, off, n)
          /\ buffer' = Remainder(text, cuts, off, n)
          /\ markerChanged' = FALSE

ParseBytes ==
  \E n \in 1..MaxPart : \E in \in [1..n -> Bytes] :
    /\ Len(stream) + n <= MaxStream
    /\ stream' = stream \o in
    /\ Parse(in)
    /\ UNCHANGED <<splitMarker, switched>>

SetSplitMarker ==
  /\ \E marker \in Markers \ {splitMarker} : splitMarker' = marker
  /\ markerChanged' = TRUE
  /\ switched' = (switched \/ stream # <<>>)
  /\ UNCHANGED <<buffer, read, stream>>

-----------------------------------------------------------------------------
Init ==
  /\ splitMarker \in Markers \ {<<>>} /\ markerChanged \in BOOLEAN
  /\ buffer = <<>> /\ read = <<>> /\ stream = <<>> /\ switched = FALSE

Next == ParseBytes \/ SetSplitMarker

Spec == Init /\ [][Next]_parserVars

-----------------------------------------------------------------------------
TypeOK ==
  /\ splitMarker \in Markers /\ {markerChanged, switched} \subseteq BOOLEAN
  /\ buffer \in Seq(Bytes) /\ stream \in Seq(Bytes)
  /\ \A i \in DOMAIN read : read[i] \in Seq(Bytes)

\* The markers in the stream, from left to right.
MarkersIn(s) ==
  LET n  == Len(splitMarker)
      at == {i \in 0..Len(s) - n : SubSeq(s, i + 1, i + n) = splitMarker}
  IN Scan(at, 0, Len(s) - n, n)

\* "DataStreamParser.read(s) is emitted once per delimited chunk of the stream",
\* however the stream is cut into parts, if there is a marker and always was.
OncePerChunk ==
  ~switched /\ splitMarker # <<>> =>
    LET cuts == MarkersIn(stream)
    IN /\ read = Pieces(stream, cuts, 0, Len(splitMarker))
       /\ buffer = Remainder(stream, cuts, 0, Len(splitMarker))

Adjacent(cuts) == \E i \in 1..Len(cuts) - 1 : cuts[i + 1] = cuts[i] + Len(splitMarker)

\* So it is as long as no marker follows another directly.
SplitsExactly ==
  splitMarker # <<>> => Adjacent(MarkersIn(stream)) \/ OncePerChunk
=============================================================================
