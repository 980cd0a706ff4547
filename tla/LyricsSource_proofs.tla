------------------------- MODULE LyricsSource_proofs -------------------------
(* Proofs about LyricsSource, for any threads, metadata, records and tolerances. *)
EXTENDS LyricsSource, FiniteSetTheorems, WellFoundedInduction, TLAPS

USE SourceAssumption

-----------------------------------------------------------------------------
(* A look-up as the proofs see it *)

Fields == {"at", "md", "agenda", "kept", "spare", "shaky", "answer", "asked", "lost", "cut"}

\* Words put aside are no hit.
Aside(words) == words = None \/ words.kind = "rejected"

\* A look-up of some metadata whose answer, if there is one, can be trusted.
Sound(l) ==
  /\ DOMAIN l = Fields
  /\ l.md \in Metadata
  /\ Aside(l.kept) /\ Aside(l.spare)
  /\ Trusted(l.answer, Durations(l.md))

Keys == {Key(md) : md \in Metadata}

\* All look-ups are sound and so is the cache.
AllSound ==
  /\ look = [t \in Threads |-> look[t]] /\ cache = [k \in Keys |-> cache[k]]
  /\ \A t \in Threads : Sound(look[t])
  /\ \A k \in Keys : Trusted(cache[k], Durations(k))

\* The key of the cache has both durations of the metadata.
LEMMA KeysTellDurations ==
  \A md \in Metadata : Key(md) \in Keys /\ Durations(Key(md)) = Durations(md)
  BY DEF Keys, Key, Durations

\* No answer and the words of a wrong cut are no hit.
LEMMA NoHit ==
  ASSUME NEW a, NEW durs, a = None \/ a = Nothing \/ a.kind = "rejected"
  PROVE  Trusted(a, durs)
  BY DEF Trusted, Nothing

\* A look-up begins sound.
LEMMA FreshSound ==
  ASSUME NEW md \in Metadata
  PROVE  Sound(Fresh(md)) /\ Fresh(md).md = md
  <1>1. DOMAIN Fresh(md) = Fields
    BY DEF Fresh, Fields
  <1>2. /\ Fresh(md).md = md /\ Fresh(md).kept = None /\ Fresh(md).spare = None
        /\ Fresh(md).answer = None
    BY DEF Fresh
  <1> QED BY <1>1, <1>2, NoHit DEF Sound, Aside

\* What ends a look-up with an answer to be trusted is sound.
LEMMA EndedSound ==
  ASSUME NEW l, l.md \in Metadata, NEW a, Trusted(a, Durations(l.md))
  PROVE  Sound(Ended(l, a))
  <1> DEFINE f == Fresh(l.md)
  <1>1. DOMAIN f = Fields /\ f.md = l.md /\ f.kept = None /\ f.spare = None
    BY FreshSound DEF Fresh, Fields
  <1>2. Ended(l, a) = [f EXCEPT !.at = "done", !.agenda = <<>>, !.answer = a, !.cut = l.cut]
    BY DEF Ended
  <1> HIDE DEF f
  <1>3. /\ DOMAIN Ended(l, a) = Fields /\ Ended(l, a).md = l.md
        /\ Ended(l, a).kept = None /\ Ended(l, a).spare = None /\ Ended(l, a).answer = a
    BY <1>1, <1>2 DEF Fields
  <1> QED BY <1>3 DEF Sound, Aside

\* Sending a request leaves a look-up sound, whatever it puts aside, asks or notes.
LEMMA SentSound ==
  ASSUME NEW l, Sound(l)
  PROVE  /\ Sound(Sent(l)) /\ Sent(l).md = l.md
         /\ Sound([Sent(l) EXCEPT !.shaky = TRUE, !.lost = TRUE])
         /\ \A words : Aside(words) => Sound([Sent(l) EXCEPT !.spare = words, !.cut = TRUE])
         /\ \A words, more : Aside(words) =>
              Sound([Sent(l) EXCEPT !.agenda = more \o @, !.spare = words])
         /\ \A more : Sound([Sent(l) EXCEPT !.spare = None, !.agenda = more])
  <1> DEFINE s == Sent(l)
  <1>1. /\ DOMAIN s = Fields /\ s.md = l.md /\ s.kept = l.kept /\ s.spare = l.spare
        /\ s.answer = l.answer
    BY DEF Sent, Sound, Fields
  <1>2. Sound(s)
    BY <1>1 DEF Sound
  <1> HIDE DEF s
  <1>3. Sound([s EXCEPT !.shaky = TRUE, !.lost = TRUE])
    BY <1>1, <1>2 DEF Sound, Fields
  <1>4. ASSUME NEW words, Aside(words) PROVE Sound([s EXCEPT !.spare = words, !.cut = TRUE])
    BY <1>1, <1>2, <1>4 DEF Sound, Fields
  <1>5. ASSUME NEW words, NEW more, Aside(words)
        PROVE Sound([s EXCEPT !.agenda = more, !.spare = words])
    BY <1>1, <1>2, <1>5 DEF Sound, Fields
  <1>6. Aside(None)
    BY DEF Aside
  <1>7. \A more : [s EXCEPT !.spare = None, !.agenda = more] = [s EXCEPT !.agenda = more, !.spare = None]
    BY <1>1 DEF Fields
  <1> QED BY <1>1, <1>2, <1>3, <1>4, <1>5, <1>6, <1>7 DEF s

\* Settling and climbing leave a look-up sound.
LEMMA ClimbedSound ==
  ASSUME NEW l, Sound(l)
  PROVE  Sound(Climbed(Settled(l))) /\ Climbed(Settled(l)).md = l.md
  <1>1. Sound(Settled(l)) /\ Settled(l).md = l.md
    BY DEF Settled, Sound, Aside, Fields
  <1> DEFINE s == Settled(l)
  <1>2. Sound(s) /\ s.md = l.md
    BY <1>1
  <1> HIDE DEF s
  <1>3. Sound(Climbed(s)) /\ Climbed(s).md = s.md
    BY <1>2 DEF Climbed, Sound, Fields
  <1> QED BY <1>2, <1>3 DEF s

-----------------------------------------------------------------------------
(* The steps *)

\* Ending a look-up with an answer to be trusted keeps everything sound.
LEMMA ConcludeSound ==
  ASSUME AllSound, NEW t \in Threads, NEW l, Sound(l),
         NEW a, Trusted(a, Durations(l.md)), Conclude(t, l, a)
  PROVE  AllSound'
  <1>1. look' = [look EXCEPT ![t] = Ended(l, a)] /\ Sound(Ended(l, a))
    BY EndedSound DEF Conclude, Sound
  <1>2. Key(l.md) \in Keys /\ Durations(Key(l.md)) = Durations(l.md)
    BY KeysTellDurations DEF Sound
  <1>3. cache' = cache \/ cache' = [cache EXCEPT ![Key(l.md)] = a]
    BY DEF Conclude
  <1>4. cache' = [k \in Keys |-> cache'[k]] /\ \A k \in Keys : Trusted(cache'[k], Durations(k))
    BY <1>2, <1>3 DEF AllSound
  <1>5. look' = [u \in Threads |-> look'[u]] /\ \A u \in Threads : Sound(look'[u])
    BY <1>1 DEF AllSound
  <1> QED BY <1>4, <1>5 DEF AllSound

\* Going on with the next request, or to an end without a hit, does too.
LEMMA ProceedSound ==
  ASSUME AllSound, NEW t \in Threads, NEW l, Sound(l), Proceed(t, l)
  PROVE  AllSound'
  <1> DEFINE n == Climbed(Settled(l))
             a == IF n.kept = None THEN Nothing ELSE n.kept
  <1>1. Sound(n)
    BY ClimbedSound
  <1>2. Trusted(a, Durations(n.md))
    BY <1>1, NoHit DEF Sound, Aside
  <1>3. \/ Conclude(t, n, a)
        \/ look' = [look EXCEPT ![t] = n] /\ UNCHANGED cache
    BY DEF Proceed
  <1> HIDE DEF n, a
  <1>4. CASE Conclude(t, n, a)
    BY <1>1, <1>2, <1>4, ConcludeSound
  <1>5. CASE look' = [look EXCEPT ![t] = n] /\ UNCHANGED cache
    BY <1>1, <1>5 DEF AllSound
  <1> QED BY <1>3, <1>4, <1>5

\* What is picked by title alone is near and real.
LEMMA PickedIsNear ==
  ASSUME NEW recs, NEW req, NEW durs, NEW artists, NEW rec \in PickGated(recs, req, durs, artists)
  PROVE  rec \in recs /\ Near(rec, durs)
  BY DEF PickGated, Best

\* A record near the durations is taken only with lyrics.
LEMMA TakeSound ==
  ASSUME AllSound, NEW t \in Threads, NEW rec, Near(rec, Durs(t)), ~Junk(rec), TakeOrSkip(t, rec)
  PROVE  AllSound'
  <1>0. Sound(look[t]) /\ Sound(Sent(look[t])) /\ Sent(look[t]).md = look[t].md
    BY SentSound DEF AllSound
  <1>1. CASE rec.body = "instrumental"
    <2>1. PICK more : Proceed(t, [Sent(look[t]) EXCEPT !.spare = None, !.agenda = more])
      BY <1>1 DEF TakeOrSkip
    <2> QED BY <1>0, <2>1, SentSound, ProceedSound
  <1>2. CASE rec.body # "instrumental"
    <2>1. Conclude(t, Sent(look[t]), Hit(rec, "q"))
      BY <1>2 DEF TakeOrSkip
    <2>2. Trusted(Hit(rec, "q"), Durs(t))
      BY <1>2 DEF Trusted, Hit, Junk
    <2> QED BY <1>0, <2>1, <2>2, ConcludeSound DEF Durs
  <1> QED BY <1>1, <1>2

\* Every request of a look-up keeps everything sound.
LEMMA StepSound ==
  ASSUME AllSound, NEW t \in Threads, Step(t)
  PROVE  AllSound'
  <1> DEFINE s == Sent(look[t])
  <1>0. Sound(look[t]) /\ Sound(s) /\ s.md = look[t].md
    BY SentSound DEF AllSound
  <1>1. CASE Refused(t)
    BY <1>0, <1>1, ProceedSound DEF Refused
  <1>2. CASE Fails(t)
    BY <1>0, <1>2, SentSound, ProceedSound DEF Fails
  <1>3. CASE AnswerGet(t)
    <2>1. PICK body : IF Real(body) = {} THEN Proceed(t, s)
                      ELSE \E rec \in Real(body) : Conclude(t, s, Hit(rec, "get"))
      BY <1>3 DEF AnswerGet
    <2>2. CASE Real(body) = {}
      BY <1>0, <2>1, <2>2, ProceedSound
    <2>3. CASE Real(body) # {}
      <3>1. PICK rec \in Real(body) : Conclude(t, s, Hit(rec, "get"))
        BY <2>1, <2>3
      <3>2. Trusted(Hit(rec, "get"), Durations(s.md))
        BY DEF Trusted, Hit, Real, Junk
      <3> HIDE DEF s
      <3> QED BY <1>0, <3>1, <3>2, ConcludeSound
    <2> QED BY <2>2, <2>3
  <1>4. CASE AnswerSearch(t)
    <2>1. PICK body :
            IF Real(body) = {} THEN Proceed(t, s)
            ELSE \E rec \in Best(Real(body), Request(t).title, Durs(t)) :
                   IF WrongCut(rec, Durs(t))
                   THEN Proceed(t, [s EXCEPT !.spare = Words(rec), !.cut = TRUE])
                   ELSE Conclude(t, s, Hit(rec, "search"))
      BY <1>4 DEF AnswerSearch
    <2>2. CASE Real(body) = {}
      BY <1>0, <2>1, <2>2, ProceedSound
    <2>3. CASE Real(body) # {}
      <3>1. PICK rec \in Best(Real(body), Request(t).title, Durs(t)) :
                   IF WrongCut(rec, Durs(t))
                   THEN Proceed(t, [s EXCEPT !.spare = Words(rec), !.cut = TRUE])
                   ELSE Conclude(t, s, Hit(rec, "search"))
        BY <2>1, <2>3
      <3>2. CASE WrongCut(rec, Durs(t))
        <4>1. Aside(Words(rec))
          BY DEF Aside, Words
        <4>2. Sound([s EXCEPT !.spare = Words(rec), !.cut = TRUE])
          BY <1>0, <4>1, SentSound
        <4> QED BY <3>1, <3>2, <4>2, ProceedSound
      <3>3. CASE ~WrongCut(rec, Durs(t))
        <4>1. ~Junk(rec)
          BY DEF Best, Real
        <4>2. Trusted(Hit(rec, "search"), Durations(s.md))
          BY <1>0, <3>3, <4>1 DEF Trusted, Hit, Durs, Junk
        <4>3. Conclude(t, s, Hit(rec, "search"))
          BY <3>1, <3>3
        <4> HIDE DEF s
        <4> QED BY <1>0, <4>2, <4>3, ConcludeSound
      <3> QED BY <3>2, <3>3
    <2> QED BY <2>2, <2>3
  <1>5. CASE AnswerTitle(t)
    <2>1. PICK body :
            LET picked == PickGated(Real(body), Request(t), Durs(t), Ours(t))
            IN  IF picked # {}
                THEN \E rec \in picked : TakeOrSkip(t, rec)
                ELSE \E words \in Salvage(Real(body), Request(t), Durs(t), Ours(t)),
                        more \in Editions(body, Request(t)) :
                       Proceed(t, [s EXCEPT !.agenda = more \o @, !.spare = words])
      BY <1>5 DEF AnswerTitle
    <2>2. ASSUME NEW rec \in PickGated(Real(body), Request(t), Durs(t), Ours(t)), TakeOrSkip(t, rec)
          PROVE AllSound'
      <3>1. rec \in Real(body) /\ Near(rec, Durs(t))
        BY PickedIsNear
      <3> QED BY <2>2, <3>1, TakeSound DEF Real
    <2>3. ASSUME NEW words \in Salvage(Real(body), Request(t), Durs(t), Ours(t)), NEW more,
                 Proceed(t, [s EXCEPT !.agenda = more \o @, !.spare = words])
          PROVE AllSound'
      <3>1. Aside(words)
        BY DEF Salvage, Words, Aside
      <3>2. Sound([s EXCEPT !.agenda = more \o @, !.spare = words])
        BY <1>0, <3>1, SentSound
      <3> QED BY <2>3, <3>2, ProceedSound
    <2> QED BY <2>1, <2>2, <2>3
  <1>6. CASE AnswerEdition(t)
    <2>1. PICK body :
            LET picked == PickGated(Real(body), Request(t), Durs(t), Ours(t))
            IN  IF picked # {} THEN \E rec \in picked : TakeOrSkip(t, rec) ELSE Proceed(t, s)
      BY <1>6 DEF AnswerEdition
    <2>2. ASSUME NEW rec \in PickGated(Real(body), Request(t), Durs(t), Ours(t)), TakeOrSkip(t, rec)
          PROVE AllSound'
      <3>1. rec \in Real(body) /\ Near(rec, Durs(t))
        BY PickedIsNear
      <3> QED BY <2>2, <3>1, TakeSound DEF Real
    <2>3. CASE Proceed(t, s)
      BY <1>0, <2>3, ProceedSound
    <2> QED BY <2>1, <2>2, <2>3
  <1> QED BY <1>1, <1>2, <1>3, <1>4, <1>5, <1>6 DEF Step

\* A look-up that begins is sound, or has what the cache has for its key.
LEMMA BeginSound ==
  ASSUME AllSound, NEW t \in Threads, NEW md \in Metadata, Begin(t, md) \/ BeginText(t, md)
  PROVE  AllSound'
  <1>1. Sound(Fresh(md)) /\ Fresh(md).md = md
    BY FreshSound
  <1>2. ASSUME NEW l, Sound(l), look' = [look EXCEPT ![t] = l], UNCHANGED cache PROVE AllSound'
    BY <1>2 DEF AllSound
  <1>3. CASE Begin(t, md)
    <2>1. Trusted(cache[Key(md)], Durations(md))
      BY KeysTellDurations DEF AllSound
    <2>2. Sound(Ended(Fresh(md), cache[Key(md)]))
      BY <1>1, <2>1, EndedSound
    <2> QED BY <1>1, <1>2, <1>3, <2>2 DEF Begin
  <1>4. CASE BeginText(t, md)
    <2> DEFINE f == Fresh(md)
               q == ByTitle(AtMost(MaxQueries, md.variants))
    <2>1. Sound(f)
      BY <1>1
    <2>2. look' = [look EXCEPT ![t] = [f EXCEPT !.at = "text", !.agenda = q]] /\ UNCHANGED cache
      BY <1>4 DEF BeginText
    <2> HIDE DEF f, q
    <2>3. Sound([f EXCEPT !.at = "text", !.agenda = q])
      BY <2>1 DEF Sound, Fields
    <2> QED BY <1>2, <2>2, <2>3
  <1> QED BY <1>3, <1>4

\* Everything is always sound.
LEMMA SoundAlways == Spec => []AllSound
  <1>1. Init => AllSound
    <2> SUFFICES ASSUME Init PROVE AllSound
      OBVIOUS
    <2> DEFINE m == CHOOSE md \in Metadata : TRUE
    <2>1. m \in Metadata
      OBVIOUS
    <2> DEFINE f == Fresh(m)
    <2>2. Sound(f)
      BY <2>1, FreshSound
    <2>3. look = [t \in Threads |-> [f EXCEPT !.at = "idle"]]
      BY DEF Init
    <2> HIDE DEF f, m
    <2>4. Sound([f EXCEPT !.at = "idle"])
      BY <2>2 DEF Sound, Fields
    <2>5. \A k \in Keys : Trusted(None, Durations(k))
      BY NoHit
    <2>6. cache = [k \in Keys |-> None]
      BY DEF Init, Keys
    <2> QED BY <2>3, <2>4, <2>5, <2>6 DEF AllSound
  <1>2. AllSound /\ [Next]_vars => AllSound'
    <2> SUFFICES ASSUME AllSound, [Next]_vars PROVE AllSound'
      OBVIOUS
    <2>1. CASE UNCHANGED vars
      BY <2>1 DEF vars, AllSound
    <2>2. ASSUME NEW t \in Threads, NEW md \in Songs[t], Begin(t, md) \/ BeginText(t, md) PROVE AllSound'
      BY <2>2, BeginSound
    <2>3. ASSUME NEW t \in Threads, Step(t) PROVE AllSound'
      BY <2>3, StepSound
    <2> QED BY <2>1, <2>2, <2>3 DEF Next
  <1> QED BY <1>1, <1>2, PTL DEF Spec

(***************************************************************************)
(* No look-up ends with the timings of another cut, and none comes out of  *)
(* the cache, for any number of threads, whatever LRCLIB has and answers.  *)
(***************************************************************************)
THEOREM WrongCutsAreRefused == Spec => []NoWrongCut
  <1>1. AllSound => NoWrongCut
    BY DEF AllSound, Sound, NoWrongCut, Durs
  <1> QED BY <1>1, SoundAlways, PTL

-----------------------------------------------------------------------------
(* Requests *)

\* A set of naturals that is not empty has a least member.
LEMMA LeastNumber ==
  ASSUME NEW S \in SUBSET Nat, S # {}
  PROVE  \E n \in S : \A m \in S : n <= m
  <1> DEFINE less == OpToRel(<, Nat)
  <1>1. IsWellFoundedOn(less, Nat)
    BY NatLessThanWellFounded
  <1>2. \A m, n \in Nat : <<m, n>> \in less <=> m < n
    BY DEF OpToRel
  <1> HIDE DEF less
  <1>3. PICK n \in S : \A m \in S : ~(<<m, n>> \in less)
    BY <1>1, WFMin
  <1>4. \A m \in S : n <= m
    <2> SUFFICES ASSUME NEW m \in S PROVE n <= m
      OBVIOUS
    <2>1. ~(m < n) /\ m \in Nat /\ n \in Nat
      BY <1>2, <1>3
    <2> QED BY <2>1
  <1> QED BY <1>4

\* All that may be asked.
Names  == {None} \cup {md.artist : md \in Metadata} \cup {md.cartist : md \in Metadata}
            \cup {rec.artist : rec \in Records}
Titles == {md.track : md \in Metadata} \cup {md.ctrack : md \in Metadata}
            \cup UNION {Range(md.variants) : md \in Metadata}
Lengths == {None} \cup {md.dur : md \in Metadata} \cup {md.cdur : md \in Metadata}

\* Requests scoped to an artist, and requests by title.
ByArtist == [how : {"get", "search"}, artist : Names, title : Titles, dur : Lengths]
ByTitles == [how : {"q", "edition"}, artist : Names, title : Titles, dur : Lengths]
ByEdition == {r \in ByTitles : r.how = "edition"}

\* The track without its artist.
TrackAlone(md) == Ask("q", None, md.track, None)

\* The first n of a sequence.
LEMMA AtMostFirst ==
  ASSUME NEW X, NEW s \in Seq(X), NEW n \in Nat
  PROVE  /\ AtMost(n, s) \in Seq(X) /\ Len(AtMost(n, s)) <= Len(s)
         /\ \A i \in 1 .. Len(AtMost(n, s)) : AtMost(n, s)[i] = s[i]
         /\ n > 0 /\ s # <<>> => AtMost(n, s) # <<>>
  <1> DEFINE m == IF Len(s) <= n THEN Len(s) ELSE n
  <1>1. Len(s) \in Nat /\ m \in 0 .. Len(s) /\ (n > 0 /\ s # <<>> => m > 0)
    OBVIOUS
  <1>2. AtMost(n, s) = SubSeq(s, 1, m)
    BY DEF AtMost
  <1> HIDE DEF m
  <1>3. SubSeq(s, 1, m) \in Seq(X) /\ Len(SubSeq(s, 1, m)) = m
    BY <1>1
  <1>4. \A i \in 1 .. m : SubSeq(s, 1, m)[i] = s[i]
    BY <1>1
  <1> QED BY <1>1, <1>2, <1>3, <1>4

\* A rung is scoped to an artist.
LEMMA RungByArtist ==
  ASSUME NEW a \in Names, NEW title \in Titles, NEW d \in Lengths
  PROVE  Rung(a, title, d) \in Seq(ByArtist) /\ Rung(a, title, d) # <<>>
  <1>1. Ask("get", a, title, d) \in ByArtist /\ Ask("search", a, title, None) \in ByArtist
    BY DEF Ask, ByArtist, Lengths
  <1> DEFINE g == Ask("get", a, title, d)
             q == Ask("search", a, title, None)
  <1>2. \E x \in {<<>>, <<g>>} : Rung(a, title, d) = x \o <<q>>
    BY DEF Rung
  <1>3. <<q>> \in Seq(ByArtist) /\ <<g>> \in Seq(ByArtist) /\ <<>> \in Seq(ByArtist)
    BY <1>1
  <1> HIDE DEF g, q
  <1>4. PICK x \in Seq(ByArtist) : Rung(a, title, d) = x \o <<q>>
    BY <1>2, <1>3
  <1>5. x \o <<q>> \in Seq(ByArtist) /\ Len(x \o <<q>>) > 0
    BY <1>3
  <1> QED BY <1>4, <1>5

\* The first requests are scoped to an artist, and there are some.
LEMMA ScopedByArtist ==
  ASSUME NEW md \in Metadata
  PROVE  Scoped(md) \in Seq(ByArtist) /\ Scoped(md) # <<>>
  <1>1. /\ md.artist \in Names /\ md.cartist \in Names
        /\ md.track \in Titles /\ md.ctrack \in Titles
        /\ md.dur \in Lengths /\ md.cdur \in Lengths
    BY DEF Names, Titles, Lengths
  <1> DEFINE a == Rung(md.artist, md.track, md.dur)
             b == Rung(md.cartist, md.track, md.cdur)
             c == Rung(md.cartist, md.ctrack, md.cdur)
  <1>2. a \in Seq(ByArtist) /\ b \in Seq(ByArtist) /\ c \in Seq(ByArtist) /\ a # <<>>
    BY <1>1, RungByArtist
  <1>3. \E x, y \in {<<>>, b, c} : Scoped(md) = a \o x \o y
    BY DEF Scoped
  <1>4. <<>> \in Seq(ByArtist)
    OBVIOUS
  <1> HIDE DEF a, b, c
  <1>5. PICK x \in Seq(ByArtist), y \in Seq(ByArtist) : Scoped(md) = a \o x \o y
    BY <1>2, <1>3, <1>4
  <1>6. a \o x \in Seq(ByArtist) /\ Len(a \o x) > 0
    BY <1>2
  <1>7. (a \o x) \o y \in Seq(ByArtist) /\ Len((a \o x) \o y) > 0
    BY <1>6
  <1> QED BY <1>5, <1>7

\* Asking for titles.
LEMMA ByTitleAsks ==
  ASSUME NEW s \in Seq(Titles)
  PROVE  /\ ByTitle(s) \in Seq(ByTitles) /\ Len(ByTitle(s)) = Len(s)
         /\ \A i \in 1 .. Len(s) : ByTitle(s)[i] = Ask("q", None, s[i], None)
  <1>1. \A i \in 1 .. Len(s) : Ask("q", None, s[i], None) \in ByTitles
    BY DEF Ask, ByTitles, Names, Lengths
  <1>2. Len(s) \in Nat
    OBVIOUS
  <1> QED BY <1>1, <1>2 DEF ByTitle

\* The ladder asks by title, and never for the track over the words of a wrong cut.
LEMMA LadderByTitle ==
  ASSUME NEW md \in Metadata, NEW kept
  PROVE  /\ Ladder(md, kept) \in Seq(ByTitles)
         /\ \A i \in 1 .. Len(Ladder(md, kept)) :
              /\ Ladder(md, kept)[i].how = "q"
              /\ kept # None => Ladder(md, kept)[i] # TrackAlone(md)
  <1> DEFINE release == IF NonLatin(md.ctrack) /\ md.ctrack # md.track
                           /\ ~Contains(md.variants, md.ctrack)
                        THEN <<md.ctrack>> ELSE <<>>
             itself  == IF md.artist # None /\ NonLatin(md.track) /\ kept = None
                           /\ ~Contains(md.variants, md.track)
                        THEN <<md.track>> ELSE <<>>
             s == release \o md.variants \o itself
             few == AtMost(MaxQueries, s)
             Others == Titles \ {md.track}
  <1>1. md.variants \in Seq(Others) /\ md.variants \in Seq(Titles)
    <2>1. Range(md.variants) \subseteq Others /\ Others \subseteq Titles
      BY VariantsAssumption DEF Titles
    <2> QED BY <2>1, VariantsAssumption
  <1>2. /\ release \in Seq(Others) /\ release \in Seq(Titles)
        /\ itself \in Seq(Titles) /\ (kept # None => itself = <<>>)
    <2>1. md.ctrack \in Titles /\ md.track \in Titles
      BY DEF Titles
    <2> HIDE DEF s, few
    <2>2. release \in Seq(Others) /\ release \in Seq(Titles)
      <3>1. release = <<>> \/ (release = <<md.ctrack>> /\ md.ctrack # md.track)
        OBVIOUS
      <3>2. <<>> \in Seq(Others) /\ <<>> \in Seq(Titles)
        OBVIOUS
      <3>3. md.ctrack # md.track => md.ctrack \in Others
        BY <2>1
      <3>4. \A x : x \in Others => <<x>> \in Seq(Others)
        OBVIOUS
      <3>5. <<md.ctrack>> \in Seq(Titles)
        BY <2>1
      <3> HIDE DEF release, Others
      <3> QED BY <3>1, <3>2, <3>3, <3>4, <3>5
    <2>3. itself \in Seq(Titles) /\ (kept # None => itself = <<>>)
      BY <2>1
    <2> QED BY <2>2, <2>3
  <1> HIDE DEF release, itself, Others
  <1>3. s \in Seq(Titles) /\ (kept # None => s \in Seq(Others))
    BY <1>1, <1>2
  <1> HIDE DEF s
  <1>4. few \in Seq(Titles) /\ (kept # None => few \in Seq(Others))
    BY <1>3, AtMostFirst
  <1>5. Ladder(md, kept) = IF Durations(md) = {} THEN <<>> ELSE ByTitle(few)
    BY DEF Ladder, release, itself, s
  <1> HIDE DEF few
  <1>6. /\ ByTitle(few) \in Seq(ByTitles) /\ Len(ByTitle(few)) = Len(few)
        /\ \A i \in 1 .. Len(few) : ByTitle(few)[i] = Ask("q", None, few[i], None)
    BY <1>4, ByTitleAsks
  <1>7. \A i \in 1 .. Len(few) : kept # None => few[i] # md.track
    BY <1>4 DEF Others
  <1>8. ASSUME NEW i \in 1 .. Len(few)
        PROVE  /\ ByTitle(few)[i].how = "q"
               /\ kept # None => ByTitle(few)[i] # TrackAlone(md)
    <2>1. ByTitle(few)[i] = Ask("q", None, few[i], None) /\ (kept # None => few[i] # md.track)
      BY <1>6, <1>7
    <2>2. ByTitle(few)[i].how = "q" /\ ByTitle(few)[i].title = few[i]
      BY <2>1 DEF Ask
    <2>3. TrackAlone(md).title = md.track
      BY DEF TrackAlone, Ask
    <2> QED BY <2>1, <2>2, <2>3
  <1> QED BY <1>5, <1>6, <1>8

\* Leaving the editions of a title alone leaves the titles.
LEMMA NextTitlesKeep ==
  ASSUME NEW s \in Seq(ByTitles)
  PROVE  /\ NextTitles(s) \in Seq(ByTitles) /\ Range(NextTitles(s)) \subseteq Range(s)
         /\ \A r \in Range(s) : r.how = "q" => r \in Range(NextTitles(s))
  <1> DEFINE n == Len(s)
             T == {i \in 1 .. n : s[i].how = "q"} \cup {n + 1}
             m == Min(T)
             u == SubSeq(s, m, n)
  <1>1. n \in Nat /\ T \subseteq 1 .. n + 1 /\ n + 1 \in T
    OBVIOUS
  <1>2. m \in 1 .. n + 1 /\ \A i \in T : m <= i
    <2>1. \E x \in T : \A y \in T : x <= y
      <3>1. T \in SUBSET Nat /\ T # {}
        BY <1>1
      <3> HIDE DEF T
      <3> QED BY <3>1, LeastNumber
    <2> HIDE DEF T
    <2>2. Min(T) \in T /\ \A y \in T : Min(T) <= y
      BY <2>1 DEF Min
    <2> QED BY <1>1, <2>2
  <1>3. NextTitles(s) = u
    BY DEF NextTitles
  <1>4. \A i \in 1 .. n : s[i].how = "q" => m <= i
    BY <1>2
  <1> HIDE DEF m, T
  <1>5. u \in Seq(ByTitles) /\ Len(u) = n - m + 1
    BY <1>1, <1>2
  <1>6. \A j \in 1 .. n - m + 1 : u[j] = s[m + j - 1]
    BY <1>1, <1>2
  <1> HIDE DEF u
  <1>7. DOMAIN u = 1 .. n - m + 1 /\ DOMAIN s = 1 .. n
    BY <1>5
  <1>8. Range(u) \subseteq Range(s)
    <2> SUFFICES ASSUME NEW j \in 1 .. n - m + 1 PROVE u[j] \in Range(s)
      BY <1>7 DEF Range
    <2>1. m + j - 1 \in 1 .. n
      BY <1>1, <1>2
    <2> QED BY <1>6, <1>7, <2>1 DEF Range
  <1>9. ASSUME NEW i \in 1 .. n, s[i].how = "q" PROVE s[i] \in Range(u)
    <2>1. m <= i /\ i - m + 1 \in 1 .. n - m + 1 /\ m + (i - m + 1) - 1 = i
      BY <1>1, <1>2, <1>4, <1>9
    <2>2. u[i - m + 1] = s[i]
      BY <1>6, <2>1
    <2> QED BY <1>7, <2>1, <2>2 DEF Range
  <1> QED BY <1>3, <1>5, <1>7, <1>8, <1>9 DEF Range

\* What LRCLIB answers are records that it holds, finitely many.
LEMMA BodiesFinite ==
  ASSUME NEW req, NEW body \in Bodies(req)
  PROVE  body \subseteq Records /\ IsFiniteSet(body)
  <1> DEFINE fit == {rec \in Records : Fits(rec, req)}
  <1>1. \/ body = {}
        \/ \E a \in fit : body = {a}
        \/ \E a \in fit : \E b \in fit : body = {a, b}
    BY DEF Bodies
  <1>2. fit \subseteq Records
    OBVIOUS
  <1> HIDE DEF fit
  <1>3. ASSUME NEW a, NEW b PROVE IsFiniteSet({a}) /\ IsFiniteSet({a, b})
    <2>1. IsFiniteSet({a})
      BY FS_Singleton
    <2>2. {a, b} = {a} \cup {b}
      OBVIOUS
    <2> QED BY <2>1, <2>2, FS_AddElement
  <1>4. CASE body = {}
    BY <1>4, FS_EmptySet
  <1>5. CASE \E a \in fit : body = {a}
    BY <1>2, <1>3, <1>5
  <1>6. CASE \E a \in fit : \E b \in fit : body = {a, b}
    <2>1. PICK a \in fit, b \in fit : body = {a, b}
      BY <1>6
    <2> QED BY <1>2, <1>3, <2>1
  <1> QED BY <1>1, <1>4, <1>5, <1>6

\* The other editions of a title.
LEMMA EditionsByTitle ==
  ASSUME NEW req \in ByTitles, NEW body \in Bodies(req), NEW s \in Editions(body, req)
  PROVE  s \in Seq(ByEdition)
  <1> DEFINE hits == {x \in body : x.title = req.title}
             artists == {rec.artist : rec \in hits}
             n == Cardinality(artists)
             asks(u) == [i \in 1 .. Len(u) |-> Ask("edition", u[i], req.title, None)]
  <1>1. body \subseteq Records /\ IsFiniteSet(body)
    BY BodiesFinite
  <1>2. n \in Nat
    <2>1. IsFiniteSet(hits)
      BY <1>1, FS_Subset
    <2>2. IsFiniteSet(artists)
      <3> DEFINE f == [rec \in hits |-> rec.artist]
      <3> HIDE DEF hits
      <3>1. f \in Surjection(hits, artists)
        BY DEF Surjection
      <3> HIDE DEF f, artists
      <3> QED BY <2>1, <3>1, FS_Surjection
    <2> QED BY <2>2, FS_CardinalityType
  <1>3. artists \subseteq Names
    BY <1>1 DEF Names
  <1>4. \E u \in SetToSeqs(artists) : s = AtMost(MaxQueries, asks(u))
    BY DEF Editions
  <1>5. \A u \in SetToSeqs(artists) : u \in [1 .. n -> artists]
    BY DEF SetToSeqs
  <1> HIDE DEF artists, n
  <1>6. PICK u \in [1 .. n -> Names] : s = AtMost(MaxQueries, asks(u))
    BY <1>3, <1>4, <1>5
  <1>7. Len(u) = n
    BY <1>2
  <1>8. \A i \in 1 .. n : Ask("edition", u[i], req.title, None) \in ByEdition
    BY DEF ByEdition, ByTitles, Ask, Lengths
  <1>9. asks(u) \in Seq(ByEdition)
    BY <1>2, <1>7, <1>8
  <1> HIDE DEF asks
  <1> QED BY <1>6, <1>9, AtMostFirst

-----------------------------------------------------------------------------
(* What a look-up has asked, has still to ask, and keeps *)

\* What is asked while: by artist first, by title after.
Posed(l) ==
  /\ l.at = "scoped" => /\ l.agenda \in Seq(ByArtist)
                        /\ \A r \in l.asked : r.how \in {"get", "search"}
  /\ l.at # "scoped" => l.agenda \in Seq(ByTitles)

\* All that the metadata call for was asked or will be, as long as no words of a
\* wrong cut are kept; and a failure is remembered.
Thorough(l) ==
  /\ l.lost => l.shaky
  /\ l.at = "scoped" => Range(Scoped(l.md)) \subseteq l.asked \cup Range(l.agenda)
  /\ l.at = "ladder" =>
       /\ Range(Scoped(l.md)) \subseteq l.asked
       /\ l.kept = None => Range(Ladder(l.md, None)) \subseteq l.asked \cup Range(l.agenda)

\* A look-up that met the song in another cut keeps its words, and neither has
\* asked nor will ask for the track alone.
Keeps(l) ==
  l.cut =>
    /\ l.at # "text"
    /\ TrackAlone(l.md) \notin l.asked \cup Range(l.agenda)
    /\ l.kept # None \/ (l.at = "scoped" /\ l.spare # None)

\* A look-up between two requests.
Pending(l) ==
  /\ DOMAIN l = Fields /\ l.md \in Metadata /\ Aside(l.kept) /\ Aside(l.spare)
  /\ l.at \in {"scoped", "ladder", "text"}
  /\ Posed(l) /\ Thorough(l) /\ Keeps(l)

\* A look-up in a state of the system.
Steady(l) ==
  IF l.at \in {"idle", "done"}
  THEN l.asked = {} /\ (l.cut => l.at = "done" /\ l.answer.kind # "none")
  ELSE Pending(l) /\ l.agenda # <<>> /\ (l.cut => l.kept # None)

AllSteady == \A t \in Threads : Steady(look[t])

\* The members of a sequence that is taken apart or put together.
LEMMA RangeOfParts ==
  ASSUME NEW X, NEW s \in Seq(X)
  PROVE  /\ Range(<<>>) = {}
         /\ s # <<>> => Range(s) = {Head(s)} \cup Range(Tail(s)) /\ Tail(s) \in Seq(X)
         /\ \A r \in Seq(X) : Range(r \o s) = Range(r) \cup Range(s)
  <1>1. Range(<<>>) = {}
    BY DEF Range
  <1>2. ASSUME s # <<>>
        PROVE Range(s) = {Head(s)} \cup Range(Tail(s)) /\ Tail(s) \in Seq(X)
    <2>1. /\ Len(s) \in Nat \ {0} /\ DOMAIN s = 1 .. Len(s) /\ Head(s) = s[1]
          /\ Tail(s) \in Seq(X) /\ Len(Tail(s)) = Len(s) - 1
          /\ DOMAIN Tail(s) = 1 .. Len(s) - 1
      BY <1>2
    <2>2. \A i \in 1 .. Len(s) - 1 : Tail(s)[i] = s[i + 1]
      BY <1>2
    <2>3. Range(s) \subseteq {Head(s)} \cup Range(Tail(s))
      <3> SUFFICES ASSUME NEW i \in 1 .. Len(s), i # 1
                   PROVE  s[i] \in Range(Tail(s))
        BY <2>1 DEF Range
      <3>1. i - 1 \in 1 .. Len(s) - 1 /\ Tail(s)[i - 1] = s[i]
        BY <2>1, <2>2
      <3> QED BY <2>1, <3>1 DEF Range
    <2>4. {Head(s)} \cup Range(Tail(s)) \subseteq Range(s)
      <3>1. Head(s) \in Range(s)
        BY <2>1 DEF Range
      <3>2. ASSUME NEW i \in 1 .. Len(s) - 1 PROVE Tail(s)[i] \in Range(s)
        <4>1. i + 1 \in 1 .. Len(s) /\ Tail(s)[i] = s[i + 1]
          BY <2>1, <2>2
        <4> QED BY <2>1, <4>1 DEF Range
      <3> QED BY <2>1, <3>1, <3>2 DEF Range
    <2> QED BY <2>1, <2>3, <2>4
  <1>3. ASSUME NEW r \in Seq(X) PROVE Range(r \o s) = Range(r) \cup Range(s)
    <2>1. /\ Len(r) \in Nat /\ Len(s) \in Nat /\ DOMAIN r = 1 .. Len(r) /\ DOMAIN s = 1 .. Len(s)
          /\ DOMAIN (r \o s) = 1 .. Len(r) + Len(s)
      OBVIOUS
    <2>2. /\ \A i \in 1 .. Len(r) : (r \o s)[i] = r[i]
          /\ \A i \in 1 .. Len(s) : (r \o s)[Len(r) + i] = s[i]
      OBVIOUS
    <2>3. Range(r \o s) \subseteq Range(r) \cup Range(s)
      <3> SUFFICES ASSUME NEW i \in 1 .. Len(r) + Len(s)
                   PROVE  (r \o s)[i] \in Range(r) \cup Range(s)
        BY <2>1 DEF Range
      <3>1. CASE i <= Len(r)
        BY <2>1, <2>2, <3>1 DEF Range
      <3>2. CASE ~(i <= Len(r))
        <4>1. i - Len(r) \in 1 .. Len(s) /\ Len(r) + (i - Len(r)) = i
          BY <2>1, <3>2
        <4>2. (r \o s)[i] = s[i - Len(r)]
          BY <2>2, <4>1
        <4> QED BY <2>1, <4>1, <4>2 DEF Range
      <3> QED BY <3>1, <3>2
    <2>4. Range(r) \subseteq Range(r \o s)
      <3> SUFFICES ASSUME NEW i \in 1 .. Len(r) PROVE r[i] \in Range(r \o s)
        BY <2>1 DEF Range
      <3>1. i \in 1 .. Len(r) + Len(s) /\ (r \o s)[i] = r[i]
        BY <2>1, <2>2
      <3> QED BY <2>1, <3>1 DEF Range
    <2>5. Range(s) \subseteq Range(r \o s)
      <3> SUFFICES ASSUME NEW i \in 1 .. Len(s) PROVE s[i] \in Range(r \o s)
        BY <2>1 DEF Range
      <3>1. Len(r) + i \in 1 .. Len(r) + Len(s) /\ (r \o s)[Len(r) + i] = s[i]
        BY <2>1, <2>2
      <3> QED BY <2>1, <3>1 DEF Range
    <2> QED BY <2>3, <2>4, <2>5
  <1> QED BY <1>1, <1>2, <1>3

\* A look-up begins with all that is scoped to an artist still to be asked.
LEMMA FreshPending ==
  ASSUME NEW md \in Metadata
  PROVE  Pending(Fresh(md)) /\ Fresh(md).agenda # <<>> /\ ~Fresh(md).cut
  <1> DEFINE f == Fresh(md)
  <1>1. /\ DOMAIN f = Fields /\ f.at = "scoped" /\ f.md = md /\ f.agenda = Scoped(md)
        /\ f.kept = None /\ f.spare = None /\ f.asked = {} /\ f.lost = FALSE /\ f.cut = FALSE
    BY DEF Fresh, Fields
  <1> HIDE DEF f
  <1>2. Posed(f) /\ f.agenda # <<>>
    BY <1>1, ScopedByArtist DEF Posed
  <1>3. Thorough(f) /\ Keeps(f)
    BY <1>1 DEF Thorough, Keeps
  <1> QED BY <1>1, <1>2, <1>3 DEF Pending, Aside, f

\* So does one by text with the titles it is given.
LEMMA TextPending ==
  ASSUME NEW md \in Metadata, md.variants # <<>>,
         NEW l, l = [Fresh(md) EXCEPT !.at = "text",
                                      !.agenda = ByTitle(AtMost(MaxQueries, md.variants))]
  PROVE  Pending(l) /\ l.agenda # <<>> /\ ~l.cut
  <1> DEFINE f == Fresh(md)
             few == AtMost(MaxQueries, md.variants)
  <1>1. /\ DOMAIN f = Fields /\ f.md = md
        /\ f.kept = None /\ f.spare = None /\ f.lost = FALSE /\ f.cut = FALSE
    BY DEF Fresh, Fields
  <1>2. md.variants \in Seq(Titles)
    <2>1. Range(md.variants) \subseteq Titles
      BY DEF Titles
    <2> QED BY <2>1, VariantsAssumption
  <1>3. few \in Seq(Titles) /\ few # <<>>
    <2>1. MaxQueries \in Nat /\ MaxQueries > 0
      OBVIOUS
    <2>2. few \in Seq(Titles)
      BY <1>2, <2>1, AtMostFirst
    <2>3. few # <<>>
      BY <1>2, <2>1, AtMostFirst
    <2> QED BY <2>2, <2>3
  <1> HIDE DEF f, few
  <1>4. ByTitle(few) \in Seq(ByTitles) /\ Len(ByTitle(few)) = Len(few)
    BY <1>3, ByTitleAsks
  <1>5. /\ DOMAIN l = Fields /\ l.at = "text" /\ l.md = md /\ l.agenda = ByTitle(few)
        /\ l.kept = None /\ l.spare = None /\ l.lost = FALSE /\ l.cut = FALSE
    BY <1>1 DEF Fields, f, few
  <1>6. Posed(l) /\ l.agenda # <<>>
    BY <1>3, <1>4, <1>5 DEF Posed
  <1>7. Thorough(l) /\ Keeps(l)
    BY <1>5 DEF Thorough, Keeps
  <1> QED BY <1>5, <1>6, <1>7 DEF Pending, Aside

\* Sending a request moves it from what is to be asked to what was.
LEMMA SentPending ==
  ASSUME NEW l, Pending(l), l.agenda # <<>>
  PROVE  /\ Pending(Sent(l))
         /\ Sent(l).at = l.at /\ Sent(l).md = l.md /\ Sent(l).shaky = l.shaky
         /\ Sent(l).asked = l.asked \cup {Head(l.agenda)}
  <1> DEFINE s == Sent(l)
  <1>1. /\ DOMAIN s = Fields /\ s.at = l.at /\ s.md = l.md /\ s.kept = l.kept
        /\ s.spare = l.spare /\ s.shaky = l.shaky /\ s.lost = l.lost /\ s.cut = l.cut
        /\ s.agenda = Tail(l.agenda) /\ s.asked = l.asked \cup {Head(l.agenda)}
    BY DEF Sent, Pending, Fields
  <1> HIDE DEF s
  <1>2. CASE l.at = "scoped"
    <2>1. l.agenda \in Seq(ByArtist) /\ \A r \in l.asked : r.how \in {"get", "search"}
      BY <1>2 DEF Pending, Posed
    <2>2. /\ Range(l.agenda) = {Head(l.agenda)} \cup Range(s.agenda)
          /\ s.agenda \in Seq(ByArtist)
      BY <1>1, <2>1, RangeOfParts
    <2>3. Head(l.agenda).how \in {"get", "search"}
      <3>1. Head(l.agenda) \in ByArtist
        BY <2>1
      <3> QED BY <3>1 DEF ByArtist
    <2>4. Posed(s)
      BY <1>1, <1>2, <2>1, <2>2, <2>3 DEF Posed
    <2>5. Thorough(s) /\ Keeps(s)
      BY <1>1, <1>2, <2>2 DEF Pending, Thorough, Keeps
    <2> QED BY <1>1, <2>4, <2>5 DEF Pending, s
  <1>3. CASE l.at # "scoped"
    <2>1. l.agenda \in Seq(ByTitles)
      BY <1>3 DEF Pending, Posed
    <2>2. /\ Range(l.agenda) = {Head(l.agenda)} \cup Range(s.agenda)
          /\ s.agenda \in Seq(ByTitles)
      BY <1>1, <2>1, RangeOfParts
    <2>4. Posed(s)
      BY <1>1, <1>3, <2>2 DEF Posed
    <2>5. Thorough(s) /\ Keeps(s)
      BY <1>1, <1>3, <2>2 DEF Pending, Thorough, Keeps
    <2> QED BY <1>1, <2>4, <2>5 DEF Pending, s
  <1> QED BY <1>2, <1>3

\* A request that fails is remembered.
LEMMA FailedPending ==
  ASSUME NEW s, Pending(s), NEW l, l = [s EXCEPT !.shaky = TRUE, !.lost = TRUE]
  PROVE  /\ Pending(l) /\ l.at = s.at /\ l.md = s.md /\ l.asked = s.asked /\ l.shaky
  <1>1. /\ DOMAIN l = Fields /\ l.at = s.at /\ l.md = s.md /\ l.kept = s.kept
        /\ l.spare = s.spare /\ l.shaky = TRUE /\ l.cut = s.cut
        /\ l.agenda = s.agenda /\ l.asked = s.asked
    BY DEF Pending, Fields
  <1> QED BY <1>1 DEF Pending, Posed, Thorough, Keeps

\* The song in another cut leaves its words.
LEMMA CutPending ==
  ASSUME NEW s, Pending(s), s.at = "scoped", NEW words, Aside(words), words # None,
         NEW l, l = [s EXCEPT !.spare = words, !.cut = TRUE]
  PROVE  /\ Pending(l) /\ l.at = s.at /\ l.md = s.md /\ l.asked = s.asked /\ l.shaky = s.shaky
  <1>1. /\ DOMAIN l = Fields /\ l.at = s.at /\ l.md = s.md /\ l.kept = s.kept
        /\ l.spare = words /\ l.shaky = s.shaky /\ l.lost = s.lost /\ l.cut = TRUE
        /\ l.agenda = s.agenda /\ l.asked = s.asked
    BY DEF Pending, Fields
  <1>2. TrackAlone(l.md) \notin l.asked \cup Range(l.agenda)
    <2>1. TrackAlone(l.md).how = "q"
      BY DEF TrackAlone, Ask
    <2>2. \A r \in l.asked : r.how \in {"get", "search"}
      BY <1>1 DEF Pending, Posed
    <2>3. l.agenda \in Seq(ByArtist)
      BY <1>1 DEF Pending, Posed
    <2>4. \A r \in Range(l.agenda) : r.how \in {"get", "search"}
      <3>1. \A i \in 1 .. Len(l.agenda) : l.agenda[i] \in ByArtist
        BY <2>3
      <3>2. DOMAIN l.agenda = 1 .. Len(l.agenda)
        BY <2>3
      <3> QED BY <3>1, <3>2 DEF Range, ByArtist
    <2> QED BY <2>1, <2>2, <2>4
  <1> QED BY <1>1, <1>2 DEF Pending, Posed, Thorough, Keeps

\* The other editions of a title come before the next title.
LEMMA EditionsPending ==
  ASSUME NEW s, Pending(s), s.at # "scoped", NEW more, more \in Seq(ByEdition),
         NEW l, DOMAIN l = Fields, Aside(l.spare), l.agenda = more \o s.agenda,
         l.at = s.at, l.md = s.md, l.kept = s.kept, l.shaky = s.shaky, l.lost = s.lost,
         l.cut = s.cut, l.asked = s.asked
  PROVE  Pending(l)
  <1>1. more \in Seq(ByTitles)
    BY DEF ByEdition
  <1>2. s.agenda \in Seq(ByTitles)
    BY DEF Pending, Posed
  <1>3. l.agenda \in Seq(ByTitles) /\ Range(l.agenda) = Range(more) \cup Range(s.agenda)
    BY <1>1, <1>2, RangeOfParts
  <1>4. TrackAlone(l.md) \notin Range(more)
    <2>1. TrackAlone(l.md).how = "q"
      BY DEF TrackAlone, Ask
    <2> QED BY <2>1 DEF Range, ByEdition
  <1>5. Keeps(l)
    BY <1>3, <1>4 DEF Pending, Keeps
  <1>6. Posed(l) /\ Thorough(l)
    BY <1>3 DEF Pending, Posed, Thorough
  <1> QED BY <1>5, <1>6 DEF Pending

\* Leaving the editions alone leaves all titles to be asked.
LEMMA NextTitlesPending ==
  ASSUME NEW s, Pending(s), s.at # "scoped",
         NEW l, l = [s EXCEPT !.spare = None, !.agenda = NextTitles(@)]
  PROVE  /\ Pending(l) /\ l.at = s.at /\ l.md = s.md /\ l.asked = s.asked /\ l.shaky = s.shaky
  <1>1. /\ DOMAIN l = Fields /\ l.at = s.at /\ l.md = s.md /\ l.kept = s.kept
        /\ l.spare = None /\ l.shaky = s.shaky /\ l.lost = s.lost /\ l.cut = s.cut
        /\ l.agenda = NextTitles(s.agenda) /\ l.asked = s.asked
    BY DEF Pending, Fields
  <1>2. s.agenda \in Seq(ByTitles)
    BY DEF Pending, Posed
  <1>3. /\ l.agenda \in Seq(ByTitles) /\ Range(l.agenda) \subseteq Range(s.agenda)
        /\ \A r \in Range(s.agenda) : r.how = "q" => r \in Range(l.agenda)
    BY <1>1, <1>2, NextTitlesKeep
  <1>4. Posed(l) /\ Keeps(l)
    BY <1>1, <1>3 DEF Pending, Posed, Keeps
  <1>5. \A r \in Range(Ladder(l.md, None)) : r.how = "q"
    <2>1. l.md \in Metadata
      BY <1>1 DEF Pending
    <2> QED BY <2>1, LadderByTitle DEF Range
  <1>6. Thorough(l)
    BY <1>1, <1>3, <1>5 DEF Pending, Thorough
  <1> QED BY <1>1, <1>4, <1>6 DEF Pending, Aside

\* When no edition is left the words found before them count.
LEMMA SettledPending ==
  ASSUME NEW l, Pending(l)
  PROVE  /\ Pending(Settled(l)) /\ (Settled(l).cut => Settled(l).kept # None)
         /\ Settled(l).md = l.md /\ Settled(l).asked = l.asked /\ Settled(l).shaky = l.shaky
  <1> DEFINE s == Settled(l)
  <1>1. CASE l.agenda # <<>> /\ Head(l.agenda).how = "edition"
    <2>1. l.at # "scoped"
      <3> SUFFICES ASSUME l.at = "scoped" PROVE FALSE
        OBVIOUS
      <3>1. l.agenda \in Seq(ByArtist)
        BY DEF Pending, Posed
      <3>2. Head(l.agenda) \in ByArtist
        BY <1>1, <3>1
      <3> QED BY <1>1, <3>2 DEF ByArtist
    <2> QED BY <1>1, <2>1 DEF Settled, Pending, Keeps
  <1>2. CASE ~(l.agenda # <<>> /\ Head(l.agenda).how = "edition")
    <2>1. /\ DOMAIN s = Fields /\ s.at = l.at /\ s.md = l.md /\ s.spare = None
          /\ s.kept = (IF l.kept = None THEN l.spare ELSE l.kept)
          /\ s.shaky = l.shaky /\ s.lost = l.lost /\ s.cut = l.cut
          /\ s.agenda = l.agenda /\ s.asked = l.asked
      BY <1>2 DEF Settled, Pending, Fields
    <2> HIDE DEF s
    <2>2. Keeps(s) /\ (s.cut => s.kept # None)
      BY <2>1 DEF Pending, Keeps
    <2>3. Posed(s) /\ Thorough(s)
      BY <2>1 DEF Pending, Posed, Thorough
    <2>4. Aside(s.kept) /\ Aside(s.spare)
      BY <2>1 DEF Pending, Aside
    <2>5. Pending(s)
      BY <2>1, <2>2, <2>3, <2>4 DEF Pending
    <2> QED BY <2>1, <2>2, <2>5 DEF s
  <1> QED BY <1>1, <1>2

\* The ladder comes after all that is scoped to an artist.
LEMMA ClimbedPending ==
  ASSUME NEW l, Pending(l), l.cut => l.kept # None
  PROVE  /\ Pending(Climbed(l)) /\ (Climbed(l).cut => Climbed(l).kept # None)
         /\ Climbed(l).md = l.md /\ Climbed(l).asked = l.asked /\ Climbed(l).shaky = l.shaky
         /\ Climbed(l).agenda = <<>> => Climbed(l).at # "scoped"
  <1> DEFINE c == Climbed(l)
  <1>1. CASE ~(l.at = "scoped" /\ l.agenda = <<>>)
    BY <1>1 DEF Climbed
  <1>2. CASE l.at = "scoped" /\ l.agenda = <<>>
    <2>1. /\ DOMAIN c = Fields /\ c.at = "ladder" /\ c.md = l.md /\ c.spare = l.spare
          /\ c.kept = l.kept /\ c.shaky = l.shaky /\ c.lost = l.lost /\ c.cut = l.cut
          /\ c.agenda = Ladder(l.md, l.kept) /\ c.asked = l.asked
      BY <1>2 DEF Climbed, Pending, Fields
    <2> HIDE DEF c
    <2>2. l.md \in Metadata
      BY DEF Pending
    <2>3. /\ c.agenda \in Seq(ByTitles)
          /\ c.kept # None => TrackAlone(l.md) \notin Range(c.agenda)
      BY <2>1, <2>2, LadderByTitle DEF Range
    <2>4. Range(l.agenda) = {}
      BY <1>2 DEF Range
    <2>5. Thorough(c)
      BY <1>2, <2>1, <2>4 DEF Pending, Thorough
    <2>6. Keeps(c)
      BY <2>1, <2>3 DEF Pending, Keeps
    <2>7. Posed(c)
      BY <2>1, <2>3 DEF Posed
    <2>8. Pending(c)
      BY <2>1, <2>5, <2>6, <2>7 DEF Pending
    <2> QED BY <2>1, <2>8 DEF c
  <1> QED BY <1>1, <1>2

\* All that the metadata of a look-up call for was asked, and no request failed.
AllAsked(t) ==
  /\ ~look[t].lost
  /\ Range(Scoped(look[t].md) \o Ladder(look[t].md, None)) \subseteq look[t].asked \cup {Request(t)}

\* What a step of a look-up may come to: it goes on, or ends and enters its answer
\* in the cache; as a miss only if it has asked for everything.
Outcome(t) ==
  \E n : /\ look' = [look EXCEPT ![t] = n] /\ Steady(n)
         /\ \/ cache' = cache
            \/ /\ n.at = "done"
               /\ \E a : /\ cache' = [cache EXCEPT ![Key(look[t].md)] = a]
                         /\ a = Nothing => AllAsked(t)

\* The end of a look-up.
LEMMA EndedSteady ==
  ASSUME NEW l, l.md \in Metadata, NEW a, l.cut => a.kind # "none"
  PROVE  Steady(Ended(l, a)) /\ Ended(l, a).at = "done"
  <1> DEFINE f == Fresh(l.md)
             e == Ended(l, a)
  <1>1. DOMAIN f = Fields /\ f.asked = {}
    BY DEF Fresh, Fields
  <1>2. e = [f EXCEPT !.at = "done", !.agenda = <<>>, !.answer = a, !.cut = l.cut]
    BY DEF Ended
  <1> HIDE DEF f
  <1>3. e.at = "done" /\ e.asked = {} /\ e.answer = a /\ e.cut = l.cut
    BY <1>1, <1>2 DEF Fields
  <1> QED BY <1>3 DEF Steady

\* A hit is no miss.
LEMMA HitOutcome ==
  ASSUME NEW t \in Threads, NEW l, Pending(l), l.md = look[t].md,
         NEW rec, NEW how, Conclude(t, l, Hit(rec, how))
  PROVE  Outcome(t)
  <1> DEFINE a == Hit(rec, how)
             e == Ended(l, a)
  <1>1. a.kind = "hit" /\ a # Nothing
    BY DEF Hit, Nothing
  <1>2. l.md \in Metadata
    BY DEF Pending
  <1>3. /\ look' = [look EXCEPT ![t] = e]
        /\ cache' = cache \/ cache' = [cache EXCEPT ![Key(look[t].md)] = a]
    BY DEF Conclude
  <1> HIDE DEF a
  <1>4. Steady(e) /\ e.at = "done"
    BY <1>1, <1>2, EndedSteady
  <1> HIDE DEF e
  <1> QED BY <1>1, <1>3, <1>4 DEF Outcome

\* A look-up that goes on, or has nothing left to ask.
LEMMA ProceedOutcome ==
  ASSUME NEW t \in Threads, Pending(look[t]), NEW l, Pending(l), l.md = look[t].md,
         l.asked = look[t].asked \cup {Request(t)}, look[t].shaky => l.shaky,
         Proceed(t, l)
  PROVE  Outcome(t)
  <1> DEFINE n == Climbed(Settled(l))
             a == IF n.kept = None THEN Nothing ELSE n.kept
             e == Ended(n, a)
  <1>1. /\ Pending(n) /\ (n.cut => n.kept # None) /\ n.md = l.md /\ n.asked = l.asked
        /\ n.shaky = l.shaky /\ (n.agenda = <<>> => n.at # "scoped")
    BY SettledPending, ClimbedPending
  <1>2. IF n.agenda = <<>> THEN Conclude(t, n, a)
                           ELSE look' = [look EXCEPT ![t] = n] /\ cache' = cache
    BY DEF Proceed
  <1>3. a.kind = (IF n.kept = None THEN "none" ELSE "rejected")
    BY <1>1 DEF Pending, Aside, Nothing
  <1>4. a = Nothing => n.kept = None
    BY <1>3 DEF Nothing
  <1> HIDE DEF n, a
  <1>5. CASE n.agenda # <<>>
    <2>1. Steady(n)
      BY <1>1, <1>5 DEF Steady, Pending
    <2> QED BY <1>2, <1>5, <2>1 DEF Outcome
  <1>6. CASE n.agenda = <<>>
    <2>1. Steady(e) /\ e.at = "done"
      BY <1>1, <1>3, EndedSteady DEF Pending
    <2>2. /\ look' = [look EXCEPT ![t] = e]
          /\ cache' = IF n.at = "text" \/ (a.kind = "none" /\ n.shaky)
                      THEN cache ELSE [cache EXCEPT ![Key(look[t].md)] = a]
      BY <1>1, <1>2, <1>6 DEF Conclude
    <2>3. ASSUME a = Nothing, ~(n.at = "text" \/ (a.kind = "none" /\ n.shaky))
          PROVE  AllAsked(t)
      <3>1. n.at = "ladder" /\ n.kept = None /\ ~n.shaky
        BY <1>1, <1>3, <1>4, <1>6, <2>3 DEF Pending
      <3>2. ~look[t].lost
        BY <1>1, <3>1 DEF Pending, Thorough
      <3>3. /\ Range(Scoped(n.md)) \subseteq n.asked
            /\ Range(Ladder(n.md, None)) \subseteq n.asked \cup Range(n.agenda)
        BY <1>1, <3>1 DEF Pending, Thorough
      <3>4. Range(n.agenda) = {}
        BY <1>6 DEF Range
      <3>5. Range(Scoped(n.md) \o Ladder(n.md, None))
              = Range(Scoped(n.md)) \cup Range(Ladder(n.md, None))
        <4> DEFINE X == ByArtist \cup ByTitles
        <4>1. n.md \in Metadata
          BY <1>1 DEF Pending
        <4>2. Scoped(n.md) \in Seq(ByArtist) /\ Ladder(n.md, None) \in Seq(ByTitles)
          BY <4>1, ScopedByArtist, LadderByTitle
        <4>3. Scoped(n.md) \in Seq(X) /\ Ladder(n.md, None) \in Seq(X)
          BY <4>2
        <4> HIDE DEF X
        <4> QED BY <4>3, RangeOfParts
      <3> QED BY <1>1, <3>2, <3>3, <3>4, <3>5 DEF AllAsked
    <2> HIDE DEF e
    <2> QED BY <2>1, <2>2, <2>3 DEF Outcome
  <1> QED BY <1>5, <1>6

\* What is taken by title alone, or left.
LEMMA TakeOutcome ==
  ASSUME NEW t \in Threads, Pending(look[t]), look[t].agenda # <<>>, look[t].at # "scoped",
         NEW rec, TakeOrSkip(t, rec)
  PROVE  Outcome(t)
  <1> DEFINE s == Sent(look[t])
             l == [s EXCEPT !.spare = None, !.agenda = NextTitles(@)]
  <1>1. /\ Pending(s) /\ s.at = look[t].at /\ s.md = look[t].md /\ s.shaky = look[t].shaky
        /\ s.asked = look[t].asked \cup {Request(t)}
    BY SentPending DEF Request
  <1>2. CASE rec.body # "instrumental"
    <2>1. Conclude(t, s, Hit(rec, "q"))
      BY <1>2 DEF TakeOrSkip
    <2> HIDE DEF s
    <2> QED BY <1>1, <2>1, HitOutcome
  <1>3. CASE rec.body = "instrumental"
    <2>1. Proceed(t, l)
      BY <1>3 DEF TakeOrSkip
    <2> HIDE DEF s
    <2>2. Pending(l) /\ l.md = s.md /\ l.asked = s.asked /\ l.shaky = s.shaky
      BY <1>1, NextTitlesPending
    <2> HIDE DEF l
    <2> QED BY <1>1, <2>1, <2>2, ProceedOutcome
  <1> QED BY <1>2, <1>3

\* Every request of a look-up comes to one of them.
LEMMA StepOutcome ==
  ASSUME NEW t \in Threads, Steady(look[t]), Step(t)
  PROVE  Outcome(t)
  <1> DEFINE s == Sent(look[t])
             r == Request(t)
  <1>1. look[t].at \in {"scoped", "ladder", "text"}
    BY DEF Step, Refused, Fails, AnswerGet, AnswerSearch, AnswerTitle, AnswerEdition, Asking
  <1>2. Pending(look[t]) /\ look[t].agenda # <<>>
    BY <1>1 DEF Steady
  <1>3. /\ Pending(s) /\ s.at = look[t].at /\ s.md = look[t].md /\ s.shaky = look[t].shaky
        /\ s.asked = look[t].asked \cup {r}
    BY <1>2, SentPending DEF Request
  <1>4. IF look[t].at = "scoped" THEN r \in ByArtist ELSE r \in ByTitles
    BY <1>2 DEF Pending, Posed, Request
  <1>5. r.how \in {"q", "edition"} => look[t].at # "scoped" /\ r \in ByTitles
    BY <1>4 DEF ByArtist
  <1>6. r.how = "search" => look[t].at = "scoped"
    BY <1>4 DEF ByTitles
  <1> HIDE DEF s
  <1>7. ASSUME Proceed(t, s) PROVE Outcome(t)
    BY <1>2, <1>3, <1>7, ProceedOutcome
  <1>8. CASE Refused(t)
    BY <1>7, <1>8 DEF Refused, s
  <1>9. CASE Fails(t)
    <2> DEFINE l == [s EXCEPT !.shaky = TRUE, !.lost = TRUE]
    <2>1. Proceed(t, l)
      BY <1>9 DEF Fails, s
    <2>2. Pending(l) /\ l.md = s.md /\ l.asked = s.asked /\ l.shaky
      BY <1>3, FailedPending
    <2> HIDE DEF l
    <2> QED BY <1>2, <1>3, <2>1, <2>2, ProceedOutcome
  <1>10. CASE AnswerGet(t)
    <2>1. Proceed(t, s) \/ \E rec : Conclude(t, s, Hit(rec, "get"))
      BY <1>10 DEF AnswerGet, s
    <2> QED BY <1>3, <1>7, <2>1, HitOutcome
  <1>11. CASE AnswerSearch(t)
    <2>1. \/ Proceed(t, s)
          \/ \E rec \in Records : Proceed(t, [s EXCEPT !.spare = Words(rec), !.cut = TRUE])
          \/ \E rec : Conclude(t, s, Hit(rec, "search"))
      <3>1. PICK body \in Bodies(r) :
              IF Real(body) = {} THEN Proceed(t, s)
              ELSE \E rec \in Best(Real(body), r.title, Durs(t)) :
                     IF WrongCut(rec, Durs(t))
                     THEN Proceed(t, [s EXCEPT !.spare = Words(rec), !.cut = TRUE])
                     ELSE Conclude(t, s, Hit(rec, "search"))
        BY <1>11 DEF AnswerSearch, s
      <3>2. Best(Real(body), r.title, Durs(t)) \subseteq Records
        BY BodiesFinite DEF Best, Real
      <3> QED BY <3>1, <3>2
    <2>2. s.at = "scoped"
      BY <1>3, <1>6, <1>11 DEF AnswerSearch
    <2>3. ASSUME NEW rec \in Records, Proceed(t, [s EXCEPT !.spare = Words(rec), !.cut = TRUE])
          PROVE  Outcome(t)
      <3> DEFINE l == [s EXCEPT !.spare = Words(rec), !.cut = TRUE]
      <3>0. l = [s EXCEPT !.spare = Words(rec), !.cut = TRUE]
        OBVIOUS
      <3>1. Aside(Words(rec)) /\ Words(rec) # None
        BY NoneAssumption DEF Aside, Words
      <3> HIDE DEF l
      <3>2. Pending(l) /\ l.md = s.md /\ l.asked = s.asked /\ l.shaky = s.shaky
        <4>1. Pending(s)
          BY <1>3
        <4>2. s.at = "scoped" /\ Aside(Words(rec)) /\ Words(rec) # None
          BY <2>2, <3>1
        <4> HIDE DEF s
        <4> QED BY <3>0, <4>1, <4>2, CutPending, ZenonT(60)
      <3>3. Proceed(t, l)
        BY <2>3, <3>0
      <3> QED BY <1>2, <1>3, <3>2, <3>3, ProceedOutcome
    <2> QED BY <1>3, <1>7, <2>1, <2>3, HitOutcome
  <1>12. CASE AnswerTitle(t)
    <2>1. PICK body \in Bodies(r) :
            \/ \E rec : TakeOrSkip(t, rec)
            \/ \E words \in Salvage(Real(body), r, Durs(t), Ours(t)), more \in Editions(body, r) :
                 Proceed(t, [s EXCEPT !.agenda = more \o @, !.spare = words])
      BY <1>12 DEF AnswerTitle, s
    <2>2. look[t].at # "scoped" /\ r \in ByTitles
      BY <1>5, <1>12 DEF AnswerTitle
    <2>3. ASSUME NEW words \in Salvage(Real(body), r, Durs(t), Ours(t)),
                 NEW more \in Editions(body, r),
                 Proceed(t, [s EXCEPT !.agenda = more \o @, !.spare = words])
          PROVE  Outcome(t)
      <3> DEFINE agenda == more \o s.agenda
                 l == [s EXCEPT !.agenda = agenda, !.spare = words]
      <3>4. Proceed(t, l)
        BY <1>3, <2>3 DEF Pending, Fields
      <3>0. l = [s EXCEPT !.agenda = agenda, !.spare = words]
        OBVIOUS
      <3>5. agenda = more \o s.agenda
        OBVIOUS
      <3> HIDE DEF l, agenda
      <3>1. Aside(words)
        BY DEF Salvage, Words, Aside
      <3>2. more \in Seq(ByEdition)
        BY <2>2, EditionsByTitle
      <3>3. Pending(l) /\ l.md = s.md /\ l.asked = s.asked /\ l.shaky = s.shaky
        <4>1. Pending(s) /\ s.at # "scoped"
          BY <1>3, <2>2
        <4>2. /\ DOMAIN l = Fields /\ l.at = s.at /\ l.md = s.md /\ l.kept = s.kept
              /\ l.spare = words /\ l.shaky = s.shaky /\ l.lost = s.lost /\ l.cut = s.cut
              /\ l.agenda = more \o s.agenda /\ l.asked = s.asked
          BY <3>0, <3>5, <4>1 DEF Pending, Fields
        <4>3. Pending(l)
          BY <3>1, <3>2, <4>1, <4>2, EditionsPending
        <4> QED BY <4>2, <4>3
      <3> QED BY <1>2, <1>3, <3>3, <3>4, ProceedOutcome
    <2> QED BY <1>2, <2>1, <2>2, <2>3, TakeOutcome
  <1>13. CASE AnswerEdition(t)
    <2>1. (\E rec : TakeOrSkip(t, rec)) \/ Proceed(t, s)
      BY <1>13 DEF AnswerEdition, s
    <2>2. look[t].at # "scoped"
      BY <1>5, <1>13 DEF AnswerEdition
    <2> QED BY <1>2, <1>7, <2>1, <2>2, TakeOutcome
  <1> QED BY <1>8, <1>9, <1>10, <1>11, <1>12, <1>13 DEF Step

\* A look-up that is answered by the cache has ended; any other has all that is
\* scoped to an artist before it, or its titles.
LEMMA BeginOutcome ==
  ASSUME NEW t \in Threads, NEW md \in Metadata, Begin(t, md) \/ BeginText(t, md)
  PROVE  cache' = cache /\ \E n : Steady(n) /\ look' = [look EXCEPT ![t] = n]
  <1> DEFINE f == Fresh(md)
  <1>1. Pending(f) /\ f.agenda # <<>> /\ ~f.cut /\ f.md = md
    <2>1. f.md = md
      BY DEF Fresh
    <2> QED BY <2>1, FreshPending
  <1>2. \A l : Pending(l) /\ l.agenda # <<>> /\ ~l.cut => Steady(l)
    BY DEF Steady, Pending
  <1>3. CASE Begin(t, md)
    <2>1. /\ cache' = cache
          /\ look' = [look EXCEPT ![t] = IF cache[Key(md)] # None
                                         THEN Ended(f, cache[Key(md)]) ELSE f]
      BY <1>3 DEF Begin
    <2> HIDE DEF f
    <2>2. Steady(Ended(f, cache[Key(md)])) /\ Steady(f)
      BY <1>1, <1>2, EndedSteady
    <2> QED BY <2>1, <2>2
  <1>4. CASE BeginText(t, md)
    <2> DEFINE l == [f EXCEPT !.at = "text", !.agenda = ByTitle(AtMost(MaxQueries, md.variants))]
    <2>1. /\ cache' = cache /\ look' = [look EXCEPT ![t] = l] /\ md.variants # <<>>
      BY <1>4 DEF BeginText
    <2>2. Pending(l) /\ l.agenda # <<>> /\ ~l.cut
      BY <2>1, TextPending
    <2> HIDE DEF l
    <2> QED BY <1>2, <2>1, <2>2
  <1> QED BY <1>3, <1>4

\* The look-ups of the system are steady.
LEMMA SteadyStep ==
  ASSUME AllSound, AllSteady, [Next]_vars
  PROVE  AllSteady'
  <1>1. ASSUME NEW t \in Threads, NEW n, Steady(n), look' = [look EXCEPT ![t] = n]
        PROVE  AllSteady'
    BY <1>1 DEF AllSteady, AllSound
  <1>2. CASE UNCHANGED vars
    BY <1>2 DEF vars, AllSteady
  <1>3. ASSUME NEW t \in Threads, NEW md \in Songs[t], Begin(t, md) \/ BeginText(t, md)
        PROVE  AllSteady'
    <2>1. md \in Metadata
      OBVIOUS
    <2> QED BY <1>1, <1>3, <2>1, BeginOutcome
  <1>4. ASSUME NEW t \in Threads, Step(t) PROVE AllSteady'
    <2>1. Outcome(t)
      BY <1>4, StepOutcome DEF AllSteady
    <2> QED BY <1>1, <2>1 DEF Outcome
  <1> QED BY <1>2, <1>3, <1>4 DEF Next

\* They are so at first.
LEMMA SteadyInit ==
  ASSUME Init PROVE AllSteady
  <1> DEFINE f == Fresh(CHOOSE md \in Metadata : TRUE)
             l == [f EXCEPT !.at = "idle"]
  <1>1. look = [t \in Threads |-> l]
    BY DEF Init
  <1>2. DOMAIN f = Fields /\ f.asked = {} /\ f.cut = FALSE
    BY DEF Fresh, Fields
  <1> HIDE DEF f
  <1>3. l.at = "idle" /\ l.asked = {} /\ ~l.cut
    BY <1>2 DEF Fields
  <1>4. Steady(l)
    BY <1>3 DEF Steady
  <1> HIDE DEF l
  <1> QED BY <1>1, <1>4 DEF AllSteady

\* A miss enters the cache at the end of a look-up that has asked for everything.
LEMMA MissStep ==
  ASSUME AllSound, AllSteady, [Next]_vars,
         NEW k \in DOMAIN cache, cache'[k] # cache[k], cache'[k] = Nothing
  PROVE  \E t \in Threads :
           /\ look'[t] # look[t] /\ Key(look[t].md) = k /\ ~look[t].lost
           /\ Range(Scoped(look[t].md) \o Ladder(look[t].md, None))
                \subseteq look[t].asked \cup {Request(t)}
  <1>1. cache' # cache
    OBVIOUS
  <1>2. PICK t \in Threads : Step(t)
    <2>1. ~(UNCHANGED vars)
      BY <1>1 DEF vars
    <2>2. \A t \in Threads : \A md \in Songs[t] : ~(Begin(t, md) \/ BeginText(t, md))
      BY <1>1 DEF Begin, BeginText
    <2> QED BY <2>1, <2>2 DEF Next
  <1>3. Outcome(t)
    BY <1>2, StepOutcome DEF AllSteady
  <1>4. PICK n, a : /\ look' = [look EXCEPT ![t] = n] /\ n.at = "done"
                    /\ cache' = [cache EXCEPT ![Key(look[t].md)] = a]
                    /\ a = Nothing => AllAsked(t)
    BY <1>1, <1>3 DEF Outcome
  <1>5. k = Key(look[t].md) /\ a = Nothing
    BY <1>4
  <1>6. look[t].at # "done"
    BY <1>2 DEF Step, Refused, Fails, AnswerGet, AnswerSearch, AnswerTitle, AnswerEdition, Asking
  <1>7. look'[t] = n
    BY <1>4 DEF AllSound
  <1> QED BY <1>4, <1>5, <1>6, <1>7 DEF AllAsked

(***************************************************************************)
(* A look-up that has met the song in another cut never asks for the track *)
(* without its artist, and ends with a hit or with the words it met.       *)
(***************************************************************************)
THEOREM CutsAreKept == Spec => []WrongCutIsKept
  <1>1. AllSteady => WrongCutIsKept
    <2> SUFFICES ASSUME AllSteady, NEW t \in Threads, look[t].cut
                 PROVE  /\ Ask("q", None, look[t].md.track, None) \notin look[t].asked
                        /\ look[t].at = "done" => look[t].answer.kind # "none"
      BY DEF WrongCutIsKept
    <2>1. Steady(look[t])
      BY DEF AllSteady
    <2> QED BY <2>1 DEF Steady, Pending, Keeps, TrackAlone
  <1>2. AllSound /\ AllSteady /\ [Next]_vars => AllSteady'
    BY SteadyStep
  <1> QED BY <1>1, <1>2, SteadyInit, SoundAlways, PTL DEF Spec

(***************************************************************************)
(* What enters the cache as a miss is one, whatever other threads meet.    *)
(***************************************************************************)
THEOREM MissesAreTrue == Spec => CachedMissIsTrue
  <1>1. AllSound /\ AllSteady /\ [Next]_vars =>
          [\A k \in DOMAIN cache :
             cache'[k] # cache[k] /\ cache'[k] = Nothing =>
               \E t \in Threads :
                 /\ look'[t] # look[t] /\ Key(look[t].md) = k /\ ~look[t].lost
                 /\ Range(Scoped(look[t].md) \o Ladder(look[t].md, None))
                      \subseteq look[t].asked \cup {Request(t)}]_vars
    BY MissStep
  <1>2. AllSound /\ AllSteady /\ [Next]_vars => AllSteady'
    BY SteadyStep
  <1> QED BY <1>1, <1>2, SteadyInit, SoundAlways, PTL DEF Spec, CachedMissIsTrue
=============================================================================
