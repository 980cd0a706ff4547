---------------------------- MODULE MCTimingMerge ----------------------------
(* Records of five lines, three to seven seconds apart: of different lines,  *)
(* with a line that comes back, and with one that is sung at two tags.       *)
EXTENDS TimingMerge

CONSTANTS la, lb, lc, ld, le

Line(text, time) == [text |-> text, times |-> {time}]

MCRecords ==
    { <<Line(la, 10), Line(lb, 16), Line(lc, 24), Line(ld, 32), Line(le, 46)>>,
      <<Line(la, 10), Line(lb, 16), Line(la, 20), Line(la, 26), Line(lb, 40)>>,
      <<Line(la, 10), [text |-> lb, times |-> {16, 32}], Line(lc, 20), Line(la, 26), Line(ld, 40)>> }

\* Exact, with and without word times; a little late; with the first word pulled
\* back over silence; on a neighbour's place.
MCPlacings ==
    { [start |-> 0, words |-> {}], [start |-> 0, words |-> {2}], [start |-> 2, words |-> {}],
      [start |-> -8, words |-> {2}], [start |-> 10, words |-> {}] }
=============================================================================
