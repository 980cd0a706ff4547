----------------------------- MODULE TimingMerge -----------------------------
(***************************************************************************)
(* How a curated record of LRCLIB and the GPU aligner's lines become the   *)
(* timed lyrics of a job: _select_lyrics in worker/pipeline.py with        *)
(* estimate_lrclib_offset, shift_lrc, merge_lrclib_word_tags and           *)
(* aligned_text_agreement in worker/lyrics.py.                             *)
(*                                                                         *)
(* The record was timed by people against some release of the song.  The   *)
(* aligner is given the record's text and the vocals of this audio, in     *)
(* which every line comes "delay" later; it drops lines, and places others *)
(* where they do not belong.  The code first asks whether the aligner's    *)
(* lines agree on one delay and shifts the record by it, then walks the    *)
(* record and the aligner's lines side by side and splices word times into *)
(* lines both put at the same time, and at last keeps the record, the      *)
(* aligner's own lines, or neither.                                        *)
(*                                                                         *)
(* Times are counted in half seconds, and every time given by a constant   *)
(* is a whole second, so that the median of two is exact.                  *)
(***************************************************************************)
EXTENDS Integers, Sequences, FiniteSets

CONSTANTS
    Records,        \* curated records: sequences of [text, times]
    Delays,         \* by how much this audio runs behind the record
    Placings,       \* [start, words]: where the aligner puts a line and its second word, from where it is sung
    OffsetLines,    \* _OFFSET_MIN_LINES
    CoverageLines,  \* _ALIGN_COVERAGE_MIN_LINES
    FallbackLines   \* the six lines an aligned text must have to stand alone

ASSUME TimesAreWhole ==
    /\ \A d \in Delays : d \in Int /\ d % 2 = 0
    /\ \A r \in Records : \A i \in DOMAIN r : \A t \in r[i].times : t \in Nat /\ t % 2 = 0
    /\ \A p \in Placings :
        /\ p.start \in Int /\ p.start % 2 = 0
        /\ \A w \in p.words : w \in Int /\ w % 2 = 0 /\ p.start <= w

\* Records whose every line has a tag: a line without one passes through the merge, but
\* its text is sent to the aligner too, which may place it.
ASSUME RecordsAreTimed ==
    \A r \in Records :
        /\ Len(r) \in Nat /\ DOMAIN r = 1 .. Len(r)
        /\ \A i \in DOMAIN r : IsFiniteSet(r[i].times) /\ r[i].times # {}

ASSUME ThresholdsAreCounts ==
    OffsetLines \in Nat /\ CoverageLines \in Nat \ {0} /\ FallbackLines \in Nat

VARIABLES
    record,     \* the curated record as LRCLIB has it
    delay,      \* what this audio adds (known to no code)
    aligned,    \* the aligner's lines: [line, text, start, words]
    offset,     \* the shift of the record
    at,         \* the record's line that is next
    cursor,     \* the aligner's line that is next
    landed,     \* <<line, entry>>: the lines of the record that found an aligner line
    timing,     \* whether any line got word times
    phase       \* "align", "estimate", "merge", "gate", or what is shipped

vars == <<record, delay, aligned, offset, at, cursor, landed, timing, phase>>

-----------------------------------------------------------------------------
Distance(a, b) == IF a < b THEN b - a ELSE a - b
Later(s, d) == IF s + d < 0 THEN 0 ELSE s + d

MinAbs == 4         \* _OFFSET_MIN_ABS_S
MaxSpread == 2      \* _OFFSET_MAX_SPREAD_S
Drift == 4          \* _WORD_MERGE_DRIFT_S

FirstTime(line) == CHOOSE t \in line.times : \A u \in line.times : t <= u

\* A line with one tag; one that is sung at several tags is never timed by words.
Single(line) == Cardinality(line.times) = 1

\* _curated_lines: the record's lines that take part in any count.
Curated ==
    LET upTo[n \in 0 .. Len(record)] ==
            IF n = 0 THEN <<>>
            ELSE IF Single(record[n]) THEN Append(upTo[n - 1], record[n])
            ELSE upTo[n - 1]
    IN  upTo[Len(record)]

\* shift_lrc: every tag of the record moves, none before the start.
ShiftLrc(r, d) == [i \in DOMAIN r |-> [r[i] EXCEPT !.times = {Later(t, d) : t \in @}]]

\* The record the merge works on.
Shown == IF offset = 0 THEN record ELSE ShiftLrc(record, offset)

-----------------------------------------------------------------------------
(* Pairing by text: the longest common subsequence and the way the code     *)
(* walks back through its table.                                            *)

\* The table of the first i and the first j lines, cell <<i, j>>, and its neighbours.
Cells(left, right) == (0 .. Len(left)) \X (0 .. Len(right))
Edge(c) == c[1] = 0 \/ c[2] = 0
Both(c) == <<c[1] - 1, c[2] - 1>>
Up(c)   == <<c[1] - 1, c[2]>>
Back(c) == <<c[1], c[2] - 1>>

\* How many lines can be paired.
Common(left, right) ==
    LET row[c \in Cells(left, right)] ==
            IF Edge(c) THEN 0
            ELSE IF left[c[1]].text = right[c[2]].text THEN row[Both(c)] + 1
            ELSE IF row[Up(c)] >= row[Back(c)] THEN row[Up(c)]
            ELSE row[Back(c)]
    IN  row

\* _lcs_pairs: equal texts are paired from the end; else the longer side is followed.
LcsPairs(left, right) ==
    LET row == Common(left, right)
        walk[c \in Cells(left, right)] ==
            IF Edge(c) THEN <<>>
            ELSE IF left[c[1]].text = right[c[2]].text THEN Append(walk[Both(c)], c)
            ELSE IF row[Up(c)] >= row[Back(c)] THEN walk[Up(c)]
            ELSE walk[Back(c)]
    IN  walk[<<Len(left), Len(right)>>]

\* By how much the aligner is behind the record at each pair.
Deltas ==
    LET pairs == LcsPairs(Curated, aligned)
    IN  [k \in 1 .. Len(pairs) |->
            aligned[pairs[k][2]].start - FirstTime(Curated[pairs[k][1]])]

\* The one at place k, counted from 1, when a sequence is sorted.
Smallest(d, k) ==
    CHOOSE v \in {d[i] : i \in 1 .. Len(d)} :
        /\ Cardinality({i \in 1 .. Len(d) : d[i] < v}) < k
        /\ Cardinality({i \in 1 .. Len(d) : d[i] <= v}) >= k

\* Seeded fault: the smallest stands for all of them.
MedianOfFirst(d) == Smallest(d, 1)

\* The middle one, or the mean of the two in the middle.
Median(d) ==
    LET n == Len(d)
    IN  (Smallest(d, n \div 2 + 1) + Smallest(d, (n - 1) \div 2 + 1)) \div 2

\* The interquartile range.
Spread(d) ==
    LET n == Len(d)
        third == IF (3 * n) \div 4 < n THEN (3 * n) \div 4 ELSE n - 1
    IN  Smallest(d, third + 1) - Smallest(d, n \div 4 + 1)

\* estimate_lrclib_offset and lrclib_offset_is_reliable.
Reliable(d) ==
    /\ Len(d) >= 2
    /\ Distance(Median(d), 0) >= MinAbs
    /\ Len(d) >= OffsetLines
    /\ 5 * Len(d) >= 4 * Len(Curated)
    /\ Spread(d) <= MaxSpread

-----------------------------------------------------------------------------
Init ==
    /\ record \in Records
    /\ delay \in Delays
    /\ aligned = <<>>
    /\ offset = 0
    /\ at = 1
    /\ cursor = 1
    /\ landed = {}
    /\ timing = FALSE
    /\ phase = "align"

\* The aligner and the filters behind it, line by line: the line is dropped, or
\* placed at or after the one before it.
Place ==
    /\ phase = "align"
    /\ at <= Len(record)
    /\ \E p \in Placings :
        LET sung == FirstTime(record[at]) + delay
            entry == [line |-> at, text |-> record[at].text, start |-> sung + p.start,
                      words |-> {sung + w : w \in p.words}]
        IN  /\ entry.start >= 0
            /\ \A k \in DOMAIN aligned : aligned[k].start <= entry.start
            /\ aligned' = Append(aligned, entry)
    /\ at' = at + 1
    /\ UNCHANGED <<record, delay, offset, cursor, landed, timing, phase>>

Drop ==
    /\ phase = "align"
    /\ at <= Len(record)
    /\ at' = at + 1
    /\ UNCHANGED <<record, delay, aligned, offset, cursor, landed, timing, phase>>

Aligned ==
    /\ phase = "align"
    /\ at > Len(record)
    /\ at' = 1
    /\ phase' = "estimate"
    /\ UNCHANGED <<record, delay, aligned, offset, cursor, landed, timing>>

\* The record is shifted when the aligner's lines agree on one delay.  Nothing
\* is measured, and nothing merged, without an aligned text.
Estimate ==
    /\ phase = "estimate"
    /\ offset' = IF aligned # <<>> /\ Reliable(Deltas) THEN Median(Deltas) ELSE 0
    /\ phase' = IF aligned = <<>> THEN "gate" ELSE "merge"
    /\ UNCHANGED <<record, delay, aligned, at, cursor, landed, timing>>

-----------------------------------------------------------------------------
(* merge_lrclib_word_tags                                                   *)

Anchors(entry) == {entry.start} \cup entry.words

\* The aligner's first or second word is close to one of the line's tags.
DriftOk(entry, line) ==
    \E a \in Anchors(entry), t \in line.times : Distance(a, t) <= Drift

\* Seeded fault: an entry that does not fit is thrown away at once.
DeferNever(entry, i) == FALSE

\* The entry is for a later line of the same text.
Defer(entry, i) ==
    \E j \in i + 1 .. Len(record) :
        Shown[j].text = record[i].text /\ DriftOk(entry, Shown[j])

Facing == cursor <= Len(aligned) /\ aligned[cursor].text = record[at].text

\* The aligner has no line for this one: its next entry waits.
Unmatched ==
    /\ ~Facing
    /\ UNCHANGED <<cursor, landed, timing>>

\* The texts agree and the times do not.
Drifted ==
    /\ Facing
    /\ ~DriftOk(aligned[cursor], Shown[at])
    /\ cursor' = IF Defer(aligned[cursor], at) THEN cursor ELSE cursor + 1
    /\ UNCHANGED <<landed, timing>>

\* The line found its entry.  It takes the word times when it has one tag, the
\* entry has word times, and the words are as many.
Match ==
    /\ Facing
    /\ DriftOk(aligned[cursor], Shown[at])
    /\ cursor' = cursor + 1
    /\ landed' = landed \cup {<<at, cursor>>}
    /\ \E asMany \in BOOLEAN :
        timing' = (timing \/ (asMany /\ Single(record[at]) /\ aligned[cursor].words # {}))

MergeLine ==
    /\ phase = "merge"
    /\ at <= Len(record)
    /\ Unmatched \/ Drifted \/ Match
    /\ at' = at + 1
    /\ UNCHANGED <<record, delay, aligned, offset, phase>>

Merged ==
    /\ phase = "merge"
    /\ at > Len(record)
    /\ phase' = "gate"
    /\ UNCHANGED <<record, delay, aligned, offset, at, cursor, landed, timing>>

-----------------------------------------------------------------------------
(* The match-quality gate and the fallback to the aligner's own lines.      *)

\* The lines that count: those with one tag.
MatchedLines == Cardinality({pair \in landed : Single(record[pair[1]])})

\* Seeded fault: no line at all on the audio reads as no measurement.
RejectedIfSome ==
    /\ aligned # <<>>
    /\ MatchedLines > 0
    /\ Len(Curated) >= CoverageLines
    /\ 10 * MatchedLines < 3 * Len(Curated)

\* Too few lines of the record landed on the audio.
Rejected ==
    /\ aligned # <<>>
    /\ Len(Curated) >= CoverageLines
    /\ 10 * MatchedLines < 3 * Len(Curated)

\* aligned_text_agreement: what the aligner kept is the record's text.
Agreed == Common(Curated, aligned)[<<Len(Curated), Len(aligned)>>]

Faithful ==
    /\ Len(aligned) >= FallbackLines
    /\ 4 * Len(aligned) >= Len(Curated)
    /\ 5 * Agreed >= 4 * Len(aligned)

Ship ==
    /\ phase = "gate"
    /\ phase' = IF ~Rejected THEN "curated" ELSE IF Faithful THEN "aligned" ELSE "floor"
    /\ UNCHANGED <<record, delay, aligned, offset, at, cursor, landed, timing>>

-----------------------------------------------------------------------------
Next == Place \/ Drop \/ Aligned \/ Estimate \/ MergeLine \/ Merged \/ Ship

Spec == Init /\ [][Next]_vars

-----------------------------------------------------------------------------
(* Properties                                                               *)

Texts(lines) == {lines[i].text : i \in DOMAIN lines}
NoRepeats == Cardinality(Texts(record)) = Len(record)

Sung(entry) == FirstTime(record[entry.line]) + delay

\* The aligner put the line within a second of where it is sung.
Accurate(entry) == \A a \in Anchors(entry) : Distance(a, Sung(entry)) <= 2

\* The aligner's lines that the estimate can go by: those of a line with one tag.
Telling == {k \in 1 .. Len(aligned) : Single(record[aligned[k].line])}

Done == phase \in {"curated", "aligned", "floor"}

(***************************************************************************)
(* When every aligner line is close to its own line of the record, each    *)
(* one finds a line, however lines are repeated and whichever of them the  *)
(* aligner dropped: none is spent on an earlier line of the same text, and *)
(* none blocks the ones after it.                                          *)
(***************************************************************************)
GoodTagsLand ==
    /\ Done
    /\ aligned # <<>>
    /\ \A k \in DOMAIN aligned : DriftOk(aligned[k], Shown[aligned[k].line])
    => {pair[2] : pair \in landed} = DOMAIN aligned

(***************************************************************************)
(* A few aligner lines on the wrong audio do not move the estimate: when   *)
(* most of those it goes by are within a second of where they are sung, a  *)
(* record of lines that are all different is shifted by this audio's       *)
(* delay, to a second, or not at all.                                      *)
(***************************************************************************)
ShiftIsTheDelay ==
    /\ NoRepeats
    /\ offset # 0
    /\ 2 * Cardinality({k \in Telling : Accurate(aligned[k])}) > Cardinality(Telling)
    => Distance(offset, delay) <= 2

(***************************************************************************)
(* A record that is shipped whole is on time: when the aligner tells where *)
(* the lines it kept are sung, to a second, no line of a curated record is *)
(* shown further from where it is sung than the drift the merge allows and *)
(* that second.  Shift, merge and gate have to work together for it: a     *)
(* record the shift does not cover must be rejected by the gate.           *)
(***************************************************************************)
CuratedOnTime ==
    /\ phase = "curated"
    /\ NoRepeats
    /\ aligned # <<>>
    /\ Len(Curated) >= CoverageLines
    /\ \A k \in DOMAIN aligned : Accurate(aligned[k])
    => Distance(offset, delay) <= Drift + 2

=============================================================================
