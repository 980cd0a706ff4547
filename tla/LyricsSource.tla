----------------------------- MODULE LyricsSource -----------------------------
(***************************************************************************)
(* LyricsSource.fetch: the look-up of a song's curated lyrics at LRCLIB.   *)
(*                                                                         *)
(* A look-up climbs a list of requests.  The first are scoped to an        *)
(* artist: the exact record and a search, for the parsed metadata and for  *)
(* those of the audio release.  If a duration is known, up to three        *)
(* searches by title alone follow, each with a request for the other       *)
(* editions of a title it hit.  The first usable answer ends the look-up;  *)
(* a record of the wrong cut leaves its words behind for the aligner.      *)
(*                                                                         *)
(* Look-ups run in worker threads, one per job; they share the cache and   *)
(* nothing else.  What LRCLIB answers is not known: any few records that   *)
(* match the question.                                                     *)
(***************************************************************************)
EXTENDS Integers, FiniteSets, SequencesExt

CONSTANTS
  Threads,
  Metadata,        \* what the pipeline may ask for
  Songs,           \* what each thread's jobs ask for
  Records,         \* what LRCLIB may hold
  None,            \* no artist, no title, no duration
  NonLatinWords,   \* of titles
  LatinArtists,
  Tolerance,       \* _DURATION_TOLERANCE_S
  Reject,          \* _DURATION_REJECT_S
  MaxQueries,      \* _MAX_LADDER_QUERIES
  MaxLookups       \* bound: look-ups per thread

ASSUME SourceAssumption ==
  /\ Metadata # {} /\ Songs \in [Threads -> SUBSET Metadata]
  /\ Tolerance \in Nat /\ Reject \in Nat /\ Tolerance <= Reject
  /\ MaxQueries \in Nat \ {0} /\ MaxLookups \in Nat

\* A title is a set of words; the variants of a track are what the clean-up of
\* titles, track_cleanup_variants, makes of it: other titles than the track.
ASSUME VariantsAssumption ==
  \A md \in Metadata :
    md.variants \in Seq(Range(md.variants)) /\ md.track \notin Range(md.variants)

VARIABLES
  cache,    \* LyricsSource._cache
  look,     \* the look-up of each thread
  lookups   \* how many each has begun

vars == <<cache, look, lookups>>

-----------------------------------------------------------------------------
(* Records and their durations *)

Durations(md) == {md.dur, md.cdur} \ {None}

Apart(a, b) == IF a > b THEN a - b ELSE b - a

\* _duration_delta: None when either side is unknown.
Delta(rec, durs) ==
  IF rec.dur = None \/ durs = {}
  THEN None
  ELSE CHOOSE n \in {Apart(rec.dur, d) : d \in durs} :
         \A d \in durs : n <= Apart(rec.dur, d)

Near(rec, durs)     == Delta(rec, durs) # None /\ Delta(rec, durs) <= Reject
WrongCut(rec, durs) == Delta(rec, durs) # None /\ Delta(rec, durs) > Reject

\* _record_is_junk
Junk(rec) == rec.body = "junk"

\* _score_candidate: points for duration, timings and title; then the nearer.
Points(rec, title, durs) ==
  (IF Delta(rec, durs) # None /\ Delta(rec, durs) <= Tolerance THEN 1 ELSE 0)
    + (IF rec.body = "synced" THEN 1 ELSE 0)
    + Cardinality(rec.title \cap title)

Nearer(a, b, durs) ==
  Delta(a, durs) # None /\ (Delta(b, durs) = None \/ Delta(a, durs) < Delta(b, durs))

Better(a, b, title, durs) ==
  \/ Points(a, title, durs) > Points(b, title, durs)
  \/ Points(a, title, durs) = Points(b, title, durs) /\ Nearer(a, b, durs)

\* Among equals the one that LRCLIB lists first: any.
Best(recs, title, durs) ==
  {a \in recs : \A b \in recs : ~Better(b, a, title, durs)}

-----------------------------------------------------------------------------
(* Requests, and what LRCLIB may answer *)

Ask(how, artist, title, dur) ==
  [how |-> how, artist |-> artist, title |-> title, dur |-> dur]

\* /api/get has its own gate of two seconds.
Fits(rec, req) ==
  /\ req.artist # None => rec.artist = req.artist
  /\ IF req.how \in {"get", "edition"} THEN rec.title = req.title
                                       ELSE rec.title \cap req.title # {}
  /\ req.how = "get" /\ req.dur # None => rec.dur # None /\ Apart(rec.dur, req.dur) <= 2

\* Bound: two records in an answer.
Bodies(req) ==
  LET fit == {rec \in Records : Fits(rec, req)}
  IN  {{}} \cup {{a, b} : a \in fit, b \in IF req.how = "get" THEN {} ELSE fit}
            \cup {{a} : a \in fit}

\* A rung: /api/get is only asked with an artist.
Rung(artist, title, dur) ==
  (IF artist = None THEN <<>> ELSE <<Ask("get", artist, title, dur)>>)
    \o <<Ask("search", artist, title, None)>>

\* The parsed metadata, then the artist of the release, then its title too.
Scoped(md) ==
  Rung(md.artist, md.track, md.dur)
    \o (IF md.cartist \in {None, md.artist} THEN <<>>
                                            ELSE Rung(md.cartist, md.track, md.cdur))
    \o (IF md.cartist = None \/ md.ctrack \in {None, md.track} THEN <<>>
                                            ELSE Rung(md.cartist, md.ctrack, md.cdur))

AtMost(n, s) == SubSeq(s, 1, IF Len(s) <= n THEN Len(s) ELSE n)

ByTitle(titles) == [i \in 1..Len(titles) |-> Ask("q", None, titles[i], None)]

NonLatin(title) == title # None /\ title \cap NonLatinWords # {}

\* Seeded fault: the track is asked for without its artist whatever was found.
LadderOverRejection(md, kept) ==
  LET release == IF NonLatin(md.ctrack) /\ md.ctrack # md.track
                    /\ ~Contains(md.variants, md.ctrack)
                 THEN <<md.ctrack>> ELSE <<>>
      itself  == IF md.artist # None /\ NonLatin(md.track)
                    /\ ~Contains(md.variants, md.track)
                 THEN <<md.track>> ELSE <<>>
      titles  == release \o md.variants \o itself
  IN  IF Durations(md) = {} THEN <<>> ELSE ByTitle(AtMost(MaxQueries, titles))

\* Titles to ask for without an artist, if there is a duration to judge by: the
\* title of the release (non-Latin only), the cleaned variants, the track itself
\* (non-Latin only, and never over the words of a wrong cut).
Ladder(md, kept) ==
  LET release == IF NonLatin(md.ctrack) /\ md.ctrack # md.track
                    /\ ~Contains(md.variants, md.ctrack)
                 THEN <<md.ctrack>> ELSE <<>>
      itself  == IF md.artist # None /\ NonLatin(md.track) /\ kept = None
                    /\ ~Contains(md.variants, md.track)
                 THEN <<md.track>> ELSE <<>>
      titles  == release \o md.variants \o itself
  IN  IF Durations(md) = {} THEN <<>> ELSE ByTitle(AtMost(MaxQueries, titles))

-----------------------------------------------------------------------------
(* What a body comes to: a hit, the words of a wrong cut, or nothing *)

Nothing        == [kind |-> "none", rec |-> None, how |-> "none"]
Hit(rec, how)  == [kind |-> "hit", rec |-> rec, how |-> how]

Words(rec)     == [kind |-> "rejected", rec |-> rec, how |-> "none"]

ASSUME NoneAssumption == None \notin {Words(rec) : rec \in Records}

\* Seeded fault: candidates are ranked before they are gated, and the best is
\* taken when it has no duration.
PickRanked(recs, req, durs, artists) ==
  {rec \in Best(recs, req.title, durs) : ~WrongCut(rec, durs)}

\* _pick_gated: only what is near; our artists before others.
PickGated(recs, req, durs, artists) ==
  LET near == {rec \in recs : Near(rec, durs)}
      ours == {rec \in near : rec.artist \in artists}
  IN  Best(IF ours # {} THEN ours ELSE near, req.title, durs)

\* _salvage_exact: the exact title by one of our artists, in Latin letters.
Salvage(recs, req, durs, artists) ==
  LET exact == {rec \in recs : /\ rec.body # "instrumental" /\ rec.title = req.title
                               /\ rec.artist \in artists \cap LatinArtists}
      best  == {a \in exact : \A b \in exact : ~Nearer(b, a, durs)}
  IN  IF exact = {} THEN {None} ELSE {Words(rec) : rec \in best}

\* The other editions of the titles that were hit, in some order.
Editions(recs, req) ==
  LET artists == {rec.artist : rec \in {x \in recs : x.title = req.title}}
  IN  {AtMost(MaxQueries, [i \in 1..Len(s) |-> Ask("edition", s[i], req.title, None)]) :
         s \in SetToSeqs(artists)}

-----------------------------------------------------------------------------
(* A look-up *)

\* "idle", "scoped" and "ladder" while fetch asks, "text" while search_by_text
\* does, "done".  agenda is what is still to be asked; kept the words of the first
\* wrong cut; spare those of a title whose other editions are asked for; shaky the
\* flag of the thread: a request failed.  Ghosts: asked, what was asked so far;
\* lost, that a request of this look-up failed; cut, that a search by artist found
\* the song in another cut.
Fresh(md) == [at |-> "scoped", md |-> md, agenda |-> Scoped(md), kept |-> None,
              spare |-> None, shaky |-> FALSE, answer |-> None,
              asked |-> {}, lost |-> FALSE, cut |-> FALSE]

Key(md) == [artist |-> md.artist, track |-> md.track, dur |-> md.dur,
            cartist |-> md.cartist, cdur |-> md.cdur]

Init ==
  /\ cache = [k \in {Key(md) : md \in Metadata} |-> None]
  /\ look = [t \in Threads |-> [Fresh(CHOOSE md \in Metadata : TRUE) EXCEPT !.at = "idle"]]
  /\ lookups = [t \in Threads |-> 0]

Ended(l, answer) ==
  [Fresh(l.md) EXCEPT !.at = "done", !.agenda = <<>>, !.answer = answer, !.cut = l.cut]

Idle(t) == look[t].at \in {"idle", "done"}

\* Seeded fault: the flag is one for all threads.
BeginForAll(t, md) ==
  /\ Idle(t) /\ lookups[t] < MaxLookups
  /\ lookups' = [lookups EXCEPT ![t] = @ + 1]
  /\ look' = IF cache[Key(md)] # None
             THEN [look EXCEPT ![t] = Ended(Fresh(md), cache[Key(md)])]
             ELSE [u \in Threads |-> IF u = t THEN Fresh(md)
                                              ELSE [look[u] EXCEPT !.shaky = FALSE]]
  /\ UNCHANGED cache

\* fetch: what the cache has is the answer; otherwise the thread's flag is reset.
Begin(t, md) ==
  /\ Idle(t) /\ lookups[t] < MaxLookups
  /\ lookups' = [lookups EXCEPT ![t] = @ + 1]
  /\ look' = [look EXCEPT ![t] =
                IF cache[Key(md)] # None
                THEN Ended(Fresh(md), cache[Key(md)])
                ELSE Fresh(md)]
  /\ UNCHANGED cache

\* Titles that the transcript suggests: by title alone, judged by the durations.
BeginText(t, md) ==
  /\ Idle(t) /\ lookups[t] < MaxLookups
  /\ md.variants # <<>> /\ Durations(md) # {}
  /\ lookups' = [lookups EXCEPT ![t] = @ + 1]
  /\ look' = [look EXCEPT ![t] = [Fresh(md) EXCEPT
                !.at = "text", !.agenda = ByTitle(AtMost(MaxQueries, md.variants))]]
  /\ UNCHANGED cache

\* The end of fetch: a miss after a failure is not cached.
Conclude(t, l, answer) ==
  /\ look' = [look EXCEPT ![t] = Ended(l, answer)]
  /\ cache' = IF l.at = "text" \/ (answer.kind = "none" /\ l.shaky)
              THEN cache
              ELSE [cache EXCEPT ![Key(l.md)] = answer]

\* When no edition is left to ask for, the words found before them count.
Settled(l) ==
  IF l.agenda # <<>> /\ Head(l.agenda).how = "edition"
  THEN l
  ELSE [l EXCEPT !.kept = IF @ = None THEN l.spare ELSE @, !.spare = None]

\* Seeded fault: the ladder is climbed until it brings something.
ClimbedAgain(l) ==
  IF l.at # "text" /\ l.agenda = <<>>
  THEN [l EXCEPT !.at = "ladder", !.agenda = Ladder(l.md, l.kept)]
  ELSE l

Climbed(l) ==
  IF l.at = "scoped" /\ l.agenda = <<>>
  THEN [l EXCEPT !.at = "ladder", !.agenda = Ladder(l.md, l.kept)]
  ELSE l

\* On with the next request, with the ladder, or to the end.
Proceed(t, l) ==
  LET next == Climbed(Settled(l))
  IN  IF next.agenda = <<>>
      THEN Conclude(t, next, IF next.kept = None THEN Nothing ELSE next.kept)
      ELSE look' = [look EXCEPT ![t] = next] /\ UNCHANGED cache

Asking(t) == look[t].at \in {"scoped", "ladder", "text"} /\ UNCHANGED lookups

Request(t) == Head(look[t].agenda)
Sent(l)    == [l EXCEPT !.agenda = Tail(@), !.asked = @ \cup {Head(l.agenda)}]
Durs(t)    == Durations(look[t].md)
Ours(t)    == IF look[t].at = "text" THEN {} ELSE {look[t].md.artist, look[t].md.cartist} \ {None}

\* Any status but 200 and those that are tried again: the next request.
Refused(t) ==
  /\ Asking(t)
  /\ Proceed(t, Sent(look[t]))

\* 503, 429, no connection: _request tries three times and raises the flag.
Fails(t) ==
  /\ Asking(t)
  /\ Proceed(t, [Sent(look[t]) EXCEPT !.shaky = TRUE, !.lost = TRUE])

Real(body) == {rec \in body : ~Junk(rec)}

AnswerGet(t) ==
  /\ Asking(t) /\ Request(t).how = "get"
  /\ \E body \in Bodies(Request(t)) :
       IF Real(body) = {}
       THEN Proceed(t, Sent(look[t]))
       ELSE \E rec \in Real(body) : Conclude(t, Sent(look[t]), Hit(rec, "get"))

\* _try_search: the best one, of which only the words are kept if the cut is wrong.
AnswerSearch(t) ==
  /\ Asking(t) /\ Request(t).how = "search"
  /\ \E body \in Bodies(Request(t)) :
       IF Real(body) = {}
       THEN Proceed(t, Sent(look[t]))
       ELSE \E rec \in Best(Real(body), Request(t).title, Durs(t)) :
              IF WrongCut(rec, Durs(t))
              THEN Proceed(t, [Sent(look[t]) EXCEPT !.spare = Words(rec), !.cut = TRUE])
              ELSE Conclude(t, Sent(look[t]), Hit(rec, "search"))

\* What is to be asked once the other editions of a title are left alone.
NextTitles(agenda) ==
  LET titles == {i \in 1..Len(agenda) : agenda[i].how = "q"}
  IN  SubSeq(agenda, Min(titles \cup {Len(agenda) + 1}), Len(agenda))

\* An instrumental found by title alone is not believed: the next title.
TakeOrSkip(t, rec) ==
  IF rec.body = "instrumental"
  THEN Proceed(t, [Sent(look[t]) EXCEPT !.spare = None, !.agenda = NextTitles(@)])
  ELSE Conclude(t, Sent(look[t]), Hit(rec, "q"))

\* _try_search_q: the best near one, or the other editions of the title.
AnswerTitle(t) ==
  /\ Asking(t) /\ Request(t).how = "q"
  /\ \E body \in Bodies(Request(t)) :
       LET picked == PickGated(Real(body), Request(t), Durs(t), Ours(t))
       IN  IF picked # {}
           THEN \E rec \in picked : TakeOrSkip(t, rec)
           ELSE \E words \in Salvage(Real(body), Request(t), Durs(t), Ours(t)),
                   more \in Editions(body, Request(t)) :
                  Proceed(t, [Sent(look[t]) EXCEPT !.agenda = more \o @, !.spare = words])

AnswerEdition(t) ==
  /\ Asking(t) /\ Request(t).how = "edition"
  /\ \E body \in Bodies(Request(t)) :
       LET picked == PickGated(Real(body), Request(t), Durs(t), Ours(t))
       IN  IF picked # {}
           THEN \E rec \in picked : TakeOrSkip(t, rec)
           ELSE Proceed(t, Sent(look[t]))

Step(t) ==
  Refused(t) \/ Fails(t) \/ AnswerGet(t) \/ AnswerSearch(t) \/ AnswerTitle(t) \/ AnswerEdition(t)

Next ==
  \E t \in Threads :
    \/ \E md \in Songs[t] : Begin(t, md) \/ BeginText(t, md)
    \/ Step(t)

\* Every request has a timeout of its own.
Spec == Init /\ [][Next]_vars /\ \A t \in Threads : WF_vars(Step(t))

-----------------------------------------------------------------------------
(* Properties *)

Answers == {cache[k] : k \in DOMAIN cache} \cup {look[t].answer : t \in Threads}

TypeOK ==
  /\ \A t \in Threads :
       /\ look[t].at \in {"idle", "scoped", "ladder", "text", "done"}
       /\ look[t].md \in Metadata
       /\ look[t].at \in {"scoped", "ladder", "text"} => look[t].agenda # <<>>
       /\ look[t].at = "done" <=> look[t].answer # None
       /\ look[t].shaky \in BOOLEAN /\ look[t].lost \in BOOLEAN /\ look[t].cut \in BOOLEAN
       /\ \A words \in {look[t].kept, look[t].spare} \ {None} : words.kind = "rejected"
       /\ lookups[t] \in 0..MaxLookups
  /\ \A a \in Answers \ {None} :
       a.kind \in {"hit", "rejected", "none"} /\ (a.kind # "none" => a.rec \in Records)

\* No timings or instrumental flag of another cut: a hit of a search is not known to
\* be of another length than the video and the release, and one found by title
\* alone is known to be near one of them, and has lyrics (#148, #230), whether
\* it comes from LRCLIB or from the cache.
Trusted(a, durs) ==
  a # None /\ a.kind = "hit" =>
    /\ a.rec.body # "junk"
    /\ a.how = "search" => ~WrongCut(a.rec, durs)
    /\ a.how = "q" => Near(a.rec, durs) /\ a.rec.body # "instrumental"

NoWrongCut ==
  /\ \A t \in Threads : Trusted(look[t].answer, Durs(t))
  /\ \A k \in DOMAIN cache : Trusted(cache[k], Durations(k))

\* Once a search by artist has met the song in another cut, the look-up does not ask
\* for the track without its artist, and ends with a hit or with those words, never
\* with nothing (#149, the review of #260).
WrongCutIsKept ==
  \A t \in Threads : look[t].cut =>
    /\ Ask("q", None, look[t].md.track, None) \notin look[t].asked
    /\ look[t].at = "done" => look[t].answer.kind # "none"

\* What enters the cache as a miss is one: every request that the metadata call for
\* was made and answered, whatever other threads meet meanwhile (#281).
CachedMissIsTrue ==
  [][\A k \in DOMAIN cache :
       cache'[k] # cache[k] /\ cache'[k] = Nothing =>
         \E t \in Threads :
           /\ look'[t] # look[t] /\ Key(look[t].md) = k /\ ~look[t].lost
           /\ Range(Scoped(look[t].md) \o Ladder(look[t].md, None))
                \subseteq look[t].asked \cup {Request(t)}]_vars

\* Every look-up ends, whatever LRCLIB answers.
LookupEnds ==
  \A t \in Threads : look[t].at \in {"scoped", "ladder", "text"} ~> look[t].at = "done"
=============================================================================
