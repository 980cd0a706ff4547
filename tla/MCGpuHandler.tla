---------------------------- MODULE MCGpuHandler ----------------------------
(* Songs of three lines for GpuHandler: two that share a text and one of its  *)
(* own, each fine, missing or doubtful, and at each place of the song one of  *)
(* a few things the full transcription may have heard.                        *)
EXTENDS GpuHandler

CONSTANTS hook, verse, dash

TwoWords == [t \in {hook, verse, dash} |-> 2]
OddTexts == {dash}
BothModes == {"both", "demucs", "whisper"}

Line(text, from, to, status) ==
  [text |-> text, start |-> from, end |-> to,
   kept |-> status # "missing", clean |-> status # "doubtful"]

Phrase(text, from, to, heard) ==
  [text |-> text, start |-> from, end |-> to, heard |-> heard]

Statuses == {"fine", "missing", "doubtful"}

\* How close the lines lie, what they say and how long the song is.
Close == << <<2, 8>>, <<10, 16>>, <<18, 24>> >>
Wide  == << <<2, 8>>, <<14, 20>>, <<36, 42>> >>
Layouts == {
  [texts |-> <<hook, hook, verse>>, at |-> Close, duration |-> 28],
  [texts |-> <<hook, hook, verse>>, at |-> Close, duration |-> Unknown],
  [texts |-> <<hook, dash, hook>>, at |-> Close, duration |-> 28],
  [texts |-> <<hook, verse, hook>>, at |-> Wide, duration |-> 48]}

LineOf(l, k, status) == Line(l.texts[k], l.at[k][1], l.at[k][2], status)
HeardAt(l, k, n) ==
  LET from == l.at[k][1] to == l.at[k][2]
  IN  CASE n = "words"  -> {Phrase(l.texts[k], from, to, "good")}
        [] n = "faint"  -> {Phrase(l.texts[k], from, to, "faint")}
        [] n = "unsafe" -> {Phrase(l.texts[k], from, to, "unsafe")}
        [] n = "later"  -> {Phrase(l.texts[k], from + 2, to + 2, "good")}
        [] n = "nothing" -> {}

\* Around each place nothing is heard, the words, faint or unsafe words, or the
\* words a second late.
Around == {"nothing", "words", "faint", "unsafe", "later"}

SmallSongs ==
  { [rows     |-> <<LineOf(l, 1, s1), LineOf(l, 2, s2), LineOf(l, 3, s3)>>,
     phrases  |-> UNION {HeardAt(l, 1, n1), HeardAt(l, 2, n2), HeardAt(l, 3, n3)},
     duration |-> l.duration] :
      l \in Layouts, s1 \in Statuses, s2 \in Statuses, s3 \in Statuses,
      n1 \in Around, n2 \in Around, n3 \in Around }

Spot(from, to) == [start |-> from, end |-> to]
SmallSpots == {Spot(2, 8), Spot(4, 10), Spot(10, 16), Spot(18, 24), Spot(36, 42)}
=============================================================================
