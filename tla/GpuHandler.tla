----------------------------- MODULE GpuHandler -----------------------------
(***************************************************************************)
(* One run of the RunPod image: separate the vocals, transcribe them,      *)
(* align the supplied lyrics to them, and try to recover the lines whose   *)
(* alignment is missing or doubtful.  Recovery listens: to what the full   *)
(* transcription heard at the line's place, then to short crops of the     *)
(* vocals, under budgets of crops, audio and time.                         *)
(*                                                                         *)
(* Times are half seconds.  The words of a line are one phrase of the      *)
(* transcription: [text, start, end, heard], where heard is "good",        *)
(* "faint" (sound timestamps, too little confidence) or "unsafe" (in a     *)
(* segment Whisper itself does not trust).                                 *)
(***************************************************************************)
EXTENDS Integers, Sequences, FiniteSets, SequencesExt, FiniteSetsExt

CONSTANTS
  Songs,    \* what alignment and transcription may find: [rows, phrases, duration]
  Modes,    \* of the modes "both", "lyrics", "demucs", "whisper" those requested
  Spots,    \* bound: where a crop may hear a phrase, as [start, end]
  MaxHeard, \* bound: phrases of the lines in question that one crop hears
  Unknown,  \* the duration of a transcription that does not tell
  Words,    \* how many words a text has
  Odd,      \* texts with tokens no transcription can match, such as a dash
  MaxCrops, \* _RETRY_MAX_CROPS
  MaxCrop,  \* _RETRY_MAX_CROP_SECONDS
  MaxAudio  \* _RETRY_MAX_AUDIO_SECONDS

Near == 4  \* two seconds

Budgets == MaxCrops \in Nat /\ MaxCrop \in Nat /\ MaxAudio \in Nat /\ MaxHeard \in Nat

\* Times are counted from the start of the song, a row and a phrase end no earlier
\* than they start, and what is heard starts before the song ends.
Timed(r) == r.start \in Nat /\ r.end \in Nat /\ r.start <= r.end

Singable(s) ==
  /\ Len(s.rows) \in Nat /\ DOMAIN s.rows = 1..Len(s.rows)
  /\ \A k \in DOMAIN s.rows : Timed(s.rows[k]) /\ s.rows[k].text \in DOMAIN Words
  /\ IsFiniteSet(s.phrases) /\ \A p \in s.phrases : Timed(p)
  /\ s.duration # Unknown =>
       s.duration \in Nat \ {0} /\ \A p \in s.phrases : p.start < s.duration

Hearable ==
  /\ \A t \in DOMAIN Words : Words[t] \in Nat
  /\ Odd \subseteq DOMAIN Words
  /\ \A s \in Spots : Timed(s)

ASSUME BudgetAssumption == Budgets
ASSUME SongsAssumption == Hearable /\ \A s \in Songs : Singable(s)

VARIABLES
  pc, mode,
  song,      \* the rows of the alignment, the phrases of the full transcription
  row,       \* the row the pass over the full transcription is at
  anchors,   \* rows whose place in time is certain: row -> [start, end]
  recovered, \* row -> the phrase that was accepted for it
  bounds,    \* row -> [lower, upper]: where its crops may place it
  queue,     \* crops to decode: [start, end, rows, phase]
  planned,   \* planned_bounds
  attempts, audio,
  late,      \* the clock is within ten seconds of the deadline
  lrc,       \* the lyrics so far, as rows, and whether each was recovered
  error,     \* what diagnostics say failed: "none", "alignment_error", "retry_error"
  aligned_lrc, \* what the result holds of the lyrics; <<>> before it holds any
  decoded    \* ghost: in which phases each row was decoded anew

plan == <<anchors, bounds, planned>>
work == <<recovered, queue, attempts, audio, late, decoded>>
lyrics == <<lrc, error, aligned_lrc>>
handlerVars == <<pc, mode, song, row, anchors, recovered, bounds, queue, planned, attempts,
                 audio, late, lrc, error, aligned_lrc, decoded>>

-----------------------------------------------------------------------------
(* What was heard *)

Rows == DOMAIN song.rows

Least(a, b) == IF a < b THEN a ELSE b
Most(a, b)  == IF a > b THEN a ELSE b
Apart(a, b) == Most(a - b, b - a)

\* The phrases that spell the row's text; an unsafe one is a barrier.
Matching(k, phrases) ==
  {p \in phrases : p.text = song.rows[k].text /\ p.heard # "unsafe"}

First(phrases) == CHOOSE p \in phrases : \A q \in phrases : p.start <= q.start

Within(p, lower, upper) == p.start >= lower /\ p.end <= upper

Plausible(p, lower, upper) == p.heard = "good" /\ Within(p, lower, upper)

ConfidenceOnly(p, lower, upper) == p.heard = "faint" /\ Within(p, lower, upper)

Problem(k) == ~song.rows[k].kept \/ ~song.rows[k].clean

Corroborating(k) ==
  {p \in Matching(k, song.phrases) :
     /\ Plausible(p, 0, p.end)
     /\ Apart(p.start, song.rows[k].start) <= Near
     /\ Apart(p.end, song.rows[k].end) <= Near}

CorroboratedAnchors ==
  [k \in {j \in Rows : ~Problem(j) /\ Corroborating(j) # {}} |->
     [start |-> First(Corroborating(k)).start, end |-> First(Corroborating(k)).end]]

-----------------------------------------------------------------------------
(* Where a row may be *)

Lefts(k)  == {j \in DOMAIN anchors : j < k}
Rights(k) == {j \in DOMAIN anchors : j > k}

Lower(k) == IF Lefts(k) = {} THEN 0 ELSE anchors[Max(Lefts(k))].end
Upper(k) == IF Rights(k) = {} THEN song.duration ELSE anchors[Min(Rights(k))].start

\* Seeded fault: only an overlap is refused, not a phrase out of its order.
ClashesByOverlap(k, p, taken) ==
  \E j \in DOMAIN taken : Most(p.start, taken[j].start) < Least(p.end, taken[j].end)

\* A phrase that overlaps one used before or is out of order with it.
Clashes(k, p, taken) ==
  \E j \in DOMAIN taken :
     \/ j < k /\ taken[j].end > p.start
     \/ j > k /\ taken[j].start < p.end

\* accept: the row takes the first of its candidates that can stand.
Accept(taken, k, candidates) ==
  LET fitting == {p \in candidates : song.rows[k].text \notin Odd /\ ~Clashes(k, p, taken)}
  IN  IF fitting = {} THEN taken
      ELSE [j \in DOMAIN taken \cup {k} |-> IF j = k THEN First(fitting) ELSE taken[j]]

\* The rows of a crop, one after the other.
AcceptAll(rows, candidates) ==
  LET upTo[n \in 0..Len(rows)] ==
        IF n = 0 THEN recovered
        ELSE Accept(upTo[n - 1], rows[n], candidates[rows[n]])
  IN  upTo[Len(rows)]

\* The members of a sequence that are in a set, in their order.
Those(rows, S) ==
  LET upTo[n \in 0..Len(rows)] ==
        IF n = 0 THEN <<>>
        ELSE IF rows[n] \in S THEN Append(upTo[n - 1], rows[n]) ELSE upTo[n - 1]
  IN  upTo[Len(rows)]

-----------------------------------------------------------------------------
(* Crops *)

\* Where _retry_window looks for a row: at a phrase with its text, however
\* faint, else where the aligner put it.
Target(k) ==
  LET heard == {p \in Matching(k, song.phrases) :
                  /\ Apart(p.start, song.rows[k].start) <= Near
                  /\ Lower(k) <= p.start /\ p.start < p.end /\ p.end <= Upper(k)}
  IN  IF heard = {} THEN song.rows[k] ELSE First(heard)

LineSpan(k) == Least(30, Most(10, 3 * Words[song.rows[k].text]))

NoWindow(k) ==
  \/ Lefts(k) = {} /\ Rights(k) = {} /\ (song.duration = Unknown \/ song.duration > MaxCrop)
  \/ (Lefts(k) = {} \/ Rights(k) = {}) /\ song.duration = Unknown

Beside(k) ==
  \/ Upper(k) <= Lower(k)
  \/ Target(k).start < Lower(k) - Near
  \/ Target(k).start >= Upper(k)

\* The target with two seconds around it, a near anchor's phrase in full, and
\* six seconds at least.
Window(k) ==
  LET from  == Most(Target(k).start, Lower(k))
      to    == Least(Upper(k), Most(from + 1, Least(Target(k).end, from + LineSpan(k))))
      left  == IF Lefts(k) # {} /\ from - Lower(k) <= Near
                 THEN Most(0, anchors[Max(Lefts(k))].start - 1) ELSE from
      right == IF Rights(k) # {} /\ Upper(k) - to <= Near
                 THEN anchors[Min(Rights(k))].end + 1 ELSE to
      start == Least(Most(0, from - Near), left)
      end   == Most(to + Near, right)
      pad   == Most(0, 12 - (end - start)) \div 2
      last  == end + pad
  IN  [start |-> Most(0, start - pad),
       end   |-> IF song.duration = Unknown THEN last ELSE Least(last, song.duration),
       rows  |-> <<k>>]

Joinable(group, window) ==
  /\ window.start <= group.end
  /\ Most(window.end, group.end) - group.start <= MaxCrop

\* Contexts that overlap share one decode.
Merge(groups, window) ==
  LET n == Len(groups)
  IN  IF n > 0 /\ Joinable(groups[n], window)
        THEN [groups EXCEPT ![n] = [start |-> @.start, end |-> Most(@.end, window.end),
                                    rows |-> @.rows \o window.rows]]
        ELSE Append(groups, window)

\* The row whose window starts first, the upper one of two.
Earliest(open) ==
  CHOOSE k \in open : \A j \in open :
    \/ Window(k).start < Window(j).start
    \/ Window(k).start = Window(j).start /\ k <= j

\* The windows of the open rows, merged in the order in which they start.
Groups(open) ==
  LET upTo[n \in 0..Cardinality(open)] ==
        IF n = 0 THEN [left |-> open, groups |-> <<>>]
        ELSE LET k == Earliest(upTo[n - 1].left)
             IN  [left   |-> upTo[n - 1].left \ {k},
                  groups |-> Merge(upTo[n - 1].groups, Window(k))]
  IN  upTo[Cardinality(open)].groups

\* Groups with a missing line come first, then those with a line nobody heard.
Priority(group) ==
  LET members == ToSet(group.rows)
  IN  IF \E k \in members : ~song.rows[k].kept THEN 0
      ELSE IF \E k \in members : Matching(k, song.phrases) = {} THEN 1 ELSE 2

\* Within a priority the worse score goes first, which may be any of them.
Orders(groups) ==
  {q \in SetToSeqs(ToSet(groups)) :
     \A m, n \in DOMAIN q : m < n => Priority(q[m]) <= Priority(q[n])}

\* _alternate_retry_window: the whole of a neighbouring phrase on either side.
Alternate(group) ==
  LET safe  == {p \in song.phrases : p.heard # "unsafe"}
      left  == {p.start : p \in {q \in safe : q.start < group.start /\ group.start - 6 <= q.end}}
      right == {p.end : p \in {q \in safe : q.end > group.end /\ q.start <= group.end + 6}}
      last  == IF right = {} THEN group.end ELSE Min(right) + 1
  IN  [start |-> IF left = {} THEN group.start ELSE Most(0, Max(left) - 1),
       end   |-> IF song.duration = Unknown THEN last ELSE Least(last, song.duration)]

Span(group) == [start |-> group.start, end |-> group.end]

\* Another context for the rows whose words were heard but too faintly.
Alternates(group, faint) ==
  LET a == Alternate(group)
  IN  IF /\ group.phase = "primary"
         /\ faint # <<>>
         /\ a # Span(group) /\ a \notin planned
         /\ a.end - a.start <= MaxCrop
        THEN <<[start |-> a.start, end |-> a.end, rows |-> faint, phase |-> "alternate"]>>
        ELSE <<>>

\* Seeded fault: a new context is decoded at once.
EnqueueFirst(q, more) == more \o q

Enqueue(q, more) == q \o more

-----------------------------------------------------------------------------
(* The handler *)

HandlerInit ==
  /\ pc = "separate"
  /\ song \in Songs
  /\ mode \in Modes
  /\ row = 0
  /\ anchors = <<>> /\ recovered = <<>> /\ bounds = <<>>
  /\ queue = <<>> /\ planned = {}
  /\ attempts = 0 /\ audio = 0
  /\ late = FALSE
  /\ lrc = <<>> /\ error = "none" /\ aligned_lrc = <<>>
  /\ decoded = [k \in DOMAIN song.rows |-> <<>>]

\* A stage fails and the handler raises: RunPod marks the run FAILED.
Raises == pc' = "raised"

\* The input, and the stems with their uploads; mode "lyrics" sends a stem.
Separate ==
  /\ pc = "separate"
  /\ pc' = (IF mode = "demucs" THEN "align" ELSE "transcribe") \/ Raises
  /\ UNCHANGED <<mode, song, row, plan, work, lyrics>>

Transcribe ==
  /\ pc = "transcribe"
  /\ pc' = (IF mode = "whisper" THEN "done" ELSE "align") \/ Raises
  /\ UNCHANGED <<mode, song, row, plan, work, lyrics>>

Kept == {k \in Rows : song.rows[k].kept}

\* The aligned lyrics: recovered rows in their new form, kept ones as they were.
Rendered(keep, new) ==
  LET in == Those([k \in Rows |-> k], keep \cup DOMAIN new)
  IN  [m \in DOMAIN in |-> [row |-> in[m], new |-> in[m] \in DOMAIN new]]

\* Alignment is never fatal; without a transcription there are no retries.
Align ==
  /\ pc = "align"
  /\ \/ /\ pc' = "done" \* no lyrics supplied
        /\ UNCHANGED <<lrc, error>>
     \/ /\ pc' = "done"
        /\ error' = "alignment_error"
        /\ UNCHANGED lrc
     \/ /\ lrc' = Rendered(Kept, <<>>)
        /\ pc' = (IF mode = "demucs" \/ Rows = {} THEN "return" ELSE "budget")
        /\ UNCHANGED error
  /\ UNCHANGED <<mode, song, row, plan, work, aligned_lrc>>

\* The retries get the time that is left, which may be none.  A budget in the input
\* that is no number ends the alignment, which had succeeded.
Budget ==
  /\ pc = "budget"
  /\ \/ /\ pc' = "full" /\ row' = 1
        /\ anchors' = CorroboratedAnchors
        /\ late' \in BOOLEAN
        /\ UNCHANGED error
     \/ /\ pc' = "done"
        /\ error' = "alignment_error"
        /\ UNCHANGED <<row, anchors, late>>
  /\ UNCHANGED <<mode, song, bounds, planned, recovered, queue, attempts, audio, decoded,
                 lrc, aligned_lrc>>

\* One row of the pass over the full transcription; what it accepts is an anchor
\* for the rows after it.
FullPass ==
  /\ pc = "full"
  /\ row \in Rows
  /\ LET near  == {p \in Matching(row, song.phrases) :
                     /\ Apart(p.start, song.rows[row].start) <= Near
                     /\ Plausible(p, Lower(row), Upper(row))}
         taken == IF Problem(row) /\ Upper(row) # Unknown
                    THEN Accept(recovered, row, near) ELSE recovered
     IN  /\ recovered' = taken
         /\ anchors' = [k \in DOMAIN anchors \cup (DOMAIN taken \ DOMAIN recovered) |->
                          IF k \in DOMAIN anchors THEN anchors[k]
                          ELSE [start |-> taken[k].start, end |-> taken[k].end]]
  /\ row' = row + 1
  /\ UNCHANGED <<pc, mode, song, bounds, planned, queue, attempts, audio, late, lyrics, decoded>>

Pending == {k \in Rows : Problem(k) /\ k \notin DOMAIN recovered}

\* _retry_window for each row still open, merged into crops and ordered.
PlanCrops ==
  /\ pc = "full"
  /\ row \notin Rows
  /\ LET open == {k \in Pending : ~NoWindow(k) /\ ~Beside(k)
                                  /\ Window(k).end - Window(k).start <= MaxCrop}
     IN  /\ bounds' = [k \in open |-> [lower |-> Lower(k), upper |-> Upper(k)]]
         /\ \E q \in Orders(Groups(open)) :
              /\ queue' = [m \in DOMAIN q |->
                             [start |-> q[m].start, end |-> q[m].end, rows |-> q[m].rows,
                              phase |-> "primary"]]
              /\ planned' = {Span(q[m]) : m \in DOMAIN q}
  /\ pc' = "crops"
  /\ UNCHANGED <<mode, song, row, anchors, recovered, attempts, audio, late, lyrics, decoded>>

\* Seeded fault: the audio budget is looked at before the crop is counted.
AudioSpentSoFar(group) == audio >= MaxAudio

AudioSpent(group) == audio + group.end - group.start > MaxAudio

Affordable(group) == attempts < MaxCrops /\ ~AudioSpent(group) /\ ~late

\* The budgets do not allow the next crop.
SkipCrop ==
  /\ pc = "crops"
  /\ queue # <<>>
  /\ ~Affordable(Head(queue))
  /\ queue' = Tail(queue)
  /\ UNCHANGED <<pc, mode, song, row, plan, recovered, attempts, audio, late, lyrics, decoded>>

\* What the next crop may hear of the rows it is for; in a text that repeats itself
\* phrases share words and overlap.
Hearings(group) ==
  LET phrases == [text  : {song.rows[k].text : k \in ToSet(group.rows)},
                  spot  : {s \in Spots : s.start >= group.start /\ s.end <= group.end},
                  heard : {"good", "faint"}]
      Flat(h) == {[text |-> p.text, start |-> p.spot.start, end |-> p.spot.end,
                   heard |-> p.heard] : p \in h}
  IN  {Flat(h) : h \in
        {g \in UNION {kSubset(n, phrases) : n \in 0..MaxHeard} :
           \A p, q \in g : p.text = q.text /\ p.spot = q.spot => p = q}}

\* The budget is taken; the clock may run into its last ten seconds.
TakeCrop ==
  /\ pc = "crops"
  /\ queue # <<>>
  /\ Affordable(Head(queue))
  /\ attempts' = attempts + 1
  /\ audio' = audio + Head(queue).end - Head(queue).start
  /\ late' \in {late, TRUE}
  /\ decoded' = [k \in Rows |-> IF k \in ToSet(Head(queue).rows)
                                  THEN Append(decoded[k], Head(queue).phase) ELSE decoded[k]]
  /\ UNCHANGED <<pc, mode, song, row, anchors, bounds, lyrics>>

Crop ==
  /\ TakeCrop
  /\ \E heard \in Hearings(Head(queue)) :
       LET group == Head(queue)
           taken == AcceptAll(group.rows,
                      [k \in ToSet(group.rows) |->
                         {p \in Matching(k, heard) :
                            Plausible(p, bounds[k].lower, bounds[k].upper)}])
           faint == {k \in ToSet(group.rows) \ DOMAIN taken :
                       \E p \in Matching(k, heard) :
                         ConfidenceOnly(p, bounds[k].lower, bounds[k].upper)}
           more == Alternates(group, Those(group.rows, faint))
       IN  /\ recovered' = taken
           /\ queue' = Enqueue(Tail(queue), more)
           /\ planned' = planned \cup {Span(more[m]) : m \in DOMAIN more}

\* ffmpeg or the model fails, or the deadline passes amid the decode.
CropFails ==
  /\ TakeCrop
  /\ queue' = Tail(queue)
  /\ UNCHANGED <<recovered, planned>>

\* What was recovered takes its place among the lines the aligner kept.
Finish ==
  /\ pc = "crops"
  /\ queue = <<>>
  /\ lrc' = IF recovered = <<>> THEN lrc ELSE Rendered(Kept, recovered)
  /\ pc' = "return"
  /\ UNCHANGED <<mode, song, row, plan, work, error, aligned_lrc>>

\* Seeded fault: the retries' failure is the alignment's.
RetriesFailAll ==
  /\ pc \in {"full", "crops"}
  /\ pc' = "done" /\ error' = "alignment_error"
  /\ UNCHANGED <<mode, song, row, plan, work, lrc, aligned_lrc>>

\* Anything else that goes wrong amid the retries leaves the baseline.
RetriesFail ==
  /\ pc \in {"full", "crops"}
  /\ pc' = "return" /\ error' = "retry_error"
  /\ UNCHANGED <<mode, song, row, plan, work, lrc, aligned_lrc>>

Return ==
  /\ pc = "return"
  /\ aligned_lrc' = lrc
  /\ pc' = "done"
  /\ UNCHANGED <<mode, song, row, plan, work, lrc, error>>

HandlerNext ==
  \/ Separate \/ Transcribe \/ Align \/ Budget
  \/ FullPass \/ PlanCrops
  \/ SkipCrop \/ Crop \/ CropFails
  \/ Finish \/ RetriesFail \/ Return

HandlerSpec == HandlerInit /\ [][HandlerNext]_handlerVars
-----------------------------------------------------------------------------
(* Properties *)

TypeOK ==
  /\ pc \in {"separate", "transcribe", "align", "budget", "full", "crops", "return", "done",
             "raised"}
  /\ DOMAIN anchors \subseteq Rows
  /\ DOMAIN recovered \subseteq Rows
  /\ DOMAIN bounds \subseteq Rows
  /\ \A m \in DOMAIN queue : ToSet(queue[m].rows) \subseteq DOMAIN bounds

\* A line is recovered only where its own words were heard well, between the
\* lines next to it whose place is certain, and no two recovered lines overlap
\* or change their order, whichever pass, crop or context each comes from.
RecoveredAreSung ==
  \A k \in DOMAIN recovered :
    /\ Problem(k)
    /\ recovered[k].text = song.rows[k].text
    /\ recovered[k].heard = "good"
    /\ recovered[k].start >= Lower(k) /\ recovered[k].end <= Upper(k)
    /\ \A j \in DOMAIN recovered : j < k => recovered[j].end <= recovered[k].start

\* No crop is longer than the model's window or reaches past the song's end, no two
\* that wait are the same, and those decoded stay within the budget the run reserves.
BudgetKept ==
  /\ attempts <= MaxCrops /\ audio <= MaxAudio
  /\ \A m \in DOMAIN queue :
       /\ queue[m].end - queue[m].start <= MaxCrop
       /\ song.duration # Unknown => queue[m].end <= song.duration
       /\ \A n \in DOMAIN queue : Span(queue[m]) = Span(queue[n]) => m = n

\* No line is decoded in a second context before every line had its chance of a
\* first one, which the budgets may deny it, and none is decoded in a third.
FirstContextsFirst ==
  /\ \A k \in Rows : decoded[k] \in {<<>>, <<"primary">>, <<"primary", "alternate">>}
  /\ (\E k \in Rows : "alternate" \in ToSet(decoded[k]))
       => \A m \in DOMAIN queue : queue[m].phase = "alternate"

\* Once the retries have begun, the result has lyrics whatever fails in them: every
\* line the aligner kept, in order, and no other line but those recovered; and when
\* the retries fail, at whatever point, exactly what the aligner made.
BaselineSurvives ==
  (pc = "done" /\ row # 0) =>
    /\ \A m, n \in DOMAIN aligned_lrc : m < n => aligned_lrc[m].row < aligned_lrc[n].row
    /\ Kept \subseteq {aligned_lrc[m].row : m \in DOMAIN aligned_lrc}
    /\ \A m \in DOMAIN aligned_lrc :
         IF aligned_lrc[m].new THEN aligned_lrc[m].row \in DOMAIN recovered
         ELSE aligned_lrc[m].row \in Kept
    /\ error # "none" => aligned_lrc = Rendered(Kept, <<>>)
=============================================================================
