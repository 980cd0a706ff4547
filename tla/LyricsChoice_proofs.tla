------------------------- MODULE LyricsChoice_proofs -------------------------
(* Proofs about LyricsChoice, for any settings, runners and number of misses.   *)
EXTENDS LyricsChoice, TLAPS

\* Unfolds the abbreviations for groups of variables.
USE DEF vars, inputs, found, gpu, out

-----------------------------------------------------------------------------
(* Types *)

Fine(r) ==
  r \in [has : {"synced", "plain", "words", "instrumental", "nothing"}, song : Songs,
         long : BOOLEAN, script : BOOLEAN,
         why : {"none", "duration", "script", "asr_disagreement"}]

Bases == {"nothing", "lrclib", "asr", "second asr", "paste"}
Timings == {"none", "lrclib", "shifted", "aligned", "asr"}
Marks   == {"vote", "llm", "web of ours", "web of theirs"}
Texts   == [song : Songs, base : Bases, timing : Timings, fixed : SUBSET Marks]

Typed ==
  /\ Fine(record) /\ hint \in BOOLEAN /\ aligned \in Alignments
  /\ asr \in Seq(Transcripts)
  /\ web \in Songs \cup {"none"}
  /\ DOMAIN files = {"lrc", "txt"} /\ files.lrc \in Texts /\ files.txt \in Texts

\* What remains of a dropped record.
LEMMA DroppedTyped ==
  ASSUME NEW r, Fine(r), NEW why \in {"duration", "script", "asr_disagreement"}
  PROVE  /\ Fine(Dropped(r, why)) /\ Dropped(r, why).has = "nothing" /\ Dropped(r, why).why = why
         /\ Dropped(r, why).song = r.song /\ Dropped(r, why).script = r.script
  BY DEF Fine, Dropped

\* Whatever LRCLIB answers is a record, and so is what the script gate leaves of it.
LEMMA RecordsTyped ==
  /\ \A r \in Answers : Fine(r) /\ Fine(ScriptGate(r)) /\ r.why \in {"none", "duration"}
  /\ \A r \in Hits : Fine(r) /\ HasWords(r) /\ r.why = "none"
  /\ Fine(NoRecord) /\ NoRecord.has = "nothing" /\ NoRecord.why = "none"
  <1>1. Fine(NoRecord) /\ NoRecord.has = "nothing" /\ NoRecord.why = "none"
    BY DEF Fine, NoRecord, Record, Songs
  <1>2. \A r \in Hits : Fine(r) /\ HasWords(r) /\ r.why = "none"
    BY DEF Fine, Hits, HasWords
  <1>3. ASSUME NEW r \in Rejections PROVE Fine(r) /\ r.why = "duration"
    <2>1. CASE r = Dropped(NoRecord, "duration")
      BY <1>1, <2>1, DroppedTyped
    <2>2. CASE r # Dropped(NoRecord, "duration")
      BY <2>2 DEF Rejections, Fine
    <2> QED BY <2>1, <2>2
  <1>4. LET i == Record("instrumental", "ours", FALSE, TRUE) IN Fine(i) /\ i.why = "none"
    BY DEF Fine, Record, Songs
  <1>5. \A r \in Answers : Fine(r) /\ r.why \in {"none", "duration"}
    BY <1>1, <1>2, <1>3, <1>4 DEF Answers
  <1>6. \A r \in Answers : Fine(ScriptGate(r))
    BY <1>5, DroppedTyped DEF ScriptGate
  <1> QED BY <1>1, <1>2, <1>5, <1>6

\* Rewriting files in place adds the corrector and nothing else, to files that are.
LEMMA FixedFiles ==
  ASSUME NEW by \in Marks, NEW which, NEW fs, DOMAIN fs = {"lrc", "txt"},
         fs.lrc \in Texts, fs.txt \in Texts
  PROVE  /\ DOMAIN Fix(by, which, fs) = {"lrc", "txt"}
         /\ \A n \in {"lrc", "txt"} :
              /\ Fix(by, which, fs)[n] \in Texts
              /\ Fix(by, which, fs)[n].song = fs[n].song
              /\ Fix(by, which, fs)[n].base = fs[n].base
              /\ Fix(by, which, fs)[n].timing = fs[n].timing
              /\ Fix(by, which, fs)[n].fixed \in {fs[n].fixed, fs[n].fixed \cup {by}}
              /\ fs[n] = NoText => Fix(by, which, fs)[n] = NoText
              /\ n \in which /\ fs[n] # NoText =>
                   Fix(by, which, fs)[n].fixed = fs[n].fixed \cup {by}
  <1>1. ASSUME NEW n \in {"lrc", "txt"}
        PROVE  Fix(by, which, fs)[n] =
                 IF n \in which /\ fs[n] # NoText THEN [fs[n] EXCEPT !.fixed = @ \cup {by}] ELSE fs[n]
    BY DEF Fix
  <1>2. ASSUME NEW f \in Texts
        PROVE  /\ [f EXCEPT !.fixed = @ \cup {by}] \in Texts
               /\ [f EXCEPT !.fixed = @ \cup {by}].song = f.song
               /\ [f EXCEPT !.fixed = @ \cup {by}].base = f.base
               /\ [f EXCEPT !.fixed = @ \cup {by}].timing = f.timing
               /\ [f EXCEPT !.fixed = @ \cup {by}].fixed = f.fixed \cup {by}
    BY DEF Texts
  <1>3. DOMAIN Fix(by, which, fs) = {"lrc", "txt"}
    BY DEF Fix
  <1>4. ASSUME NEW n \in {"lrc", "txt"} PROVE fs[n] \in Texts
    OBVIOUS
  <1> QED BY <1>1, <1>2, <1>3, <1>4

-----------------------------------------------------------------------------
(* The invariant *)

Written == {"vote", "policy", "llm", "done"}

\* What was dropped, was for a reason: another script, or what the transcript said.
Judged ==
  /\ record.why = "script" => ~record.script
  /\ record.why = "asr_disagreement" =>
       pc \in {"select"} \cup Written /\ (record.song = "theirs" \/ Misleading)

\* Pasted lyrics meet no look-up.
Pasted ==
  /\ runner = "paste" => record.has = "nothing" /\ pc \in {"gpu", "paste", "done", "failed"}
  /\ pc = "paste" => runner = "paste"

\* There is a transcript from the window on.
Heard == pc \in {"identify", "realign", "quote", "paste", "resolve", "select"} \cup Written
         => Len(asr) > 0

\* The wrong-song guard: after it another song's words are there only if the
\* transcript could not tell.
Guarded ==
  pc \in {"select"} \cup Written /\ HasWords(record) /\ record.song = "theirs" => Clueless

\* What is written is of the record's song, or of the audio.
Honest ==
  pc \in Written => \A n \in {"lrc", "txt"} :
    /\ files[n].song = "theirs" => HasWords(record) /\ record.song = "theirs"
    /\ files[n].base = "lrclib" => HasWords(record)
    /\ "web of theirs" \notin files[n].fixed

Paired ==
  pc \in Written /\ files.lrc # NoText =>
    /\ files.lrc.base # "nothing"
    /\ files.lrc.song = files.txt.song
    /\ files.lrc.fixed \ {"vote"} = files.txt.fixed \ {"vote"}
    /\ Len(asr) = 1 => files.lrc.base = files.txt.base

\* What was not dropped and could be placed is what the files are based on.
Placed ==
  pc \in Written /\ HasWords(record) /\ ~Unplaced =>
    files.txt.base = "lrclib" /\ (files.lrc = NoText \/ files.lrc.base = "lrclib")

\* Who may have corrected what so far, and that the provenance tells.
Corrected ==
  pc \in Written =>
    /\ DOMAIN prov = {"source", "why", "policy"}
    /\ \A n \in {"lrc", "txt"} :
         /\ files[n].fixed \in {{}, {"vote"}, {"llm"}, {"web of ours"}, {"web of theirs"}}
         /\ files[n].base = "lrclib" => files[n].fixed \subseteq {"vote"}
         /\ files[n].base # "lrclib" => "vote" \notin files[n].fixed
         /\ files[n].base = "paste"  => files[n].fixed = {}
    /\ prov.policy = "none" <=> \A n \in {"lrc", "txt"} : files[n].fixed \subseteq {"vote", "llm"}
    /\ FromLrclib => \A n \in {"lrc", "txt"} : files[n] = NoText \/ files[n].base = "lrclib"
    /\ pc # "done" /\ prov.source \in {"whisper_asr_synced", "whisper_asr"} =>
         \A n \in {"lrc", "txt"} :
           files[n].base \notin {"lrclib", "paste"} /\ files[n].fixed = {}
    /\ pc = "vote" => \A n \in {"lrc", "txt"} : files[n].fixed = {}
    /\ pc \in {"vote", "policy"} => prov.policy = "none"

\* What the web's words are to correct has been written.
Timed ==
  pc \in {"vote", "policy"} /\ prov.source = "whisper_asr_synced" => files.lrc.base # "nothing"

Inv ==
  /\ Typed /\ Judged /\ Pasted /\ Heard /\ Guarded
  /\ Honest /\ Paired /\ Placed /\ Corrected /\ Timed

\* Before anything is written, the types and the record are what matters.
LEMMA Unwritten ==
  ASSUME Typed', Judged', Pasted', Heard', Guarded', pc' \notin Written
  PROVE  Inv'
  BY DEF Inv, Honest, Paired, Placed, Corrected, Timed, Written

\* What an agreement tells: a good one, that the words are the song's; a poor one
\* comes of every other song that a transcript can be compared with, and of the song's
\* own words only where the transcript misleads.
LEMMA AgreementTells ==
  ASSUME NEW t \in Transcripts, NEW song \in Songs, NEW script, NEW a \in Agreement(t, song, script)
  PROVE  /\ a \in {"high", "middling"} => song = "ours"
         /\ song = "theirs" /\ t \notin {"short", "untimed", "silent"} => a = "low"
         /\ a = "low" => song = "theirs" \/ t \in {"bad", "looped", "foreign"} \/ ~script
  BY DEF Agreement, Songs, Transcripts

\* The first transcript is one.
LEMMA FirstTranscript ==
  ASSUME Typed, Len(asr) > 0
  PROVE  asr[1] \in Transcripts
  BY DEF Typed

-----------------------------------------------------------------------------
(* Until the transcript is there *)

\* The look-ups and the window drop nothing but what is in another script.
LEMMA LookUpsKeepInv ==
  ASSUME Inv, Canonical \/ LookUp \/ Genius \/ AskSite \/ Window
  PROVE  Inv'
  <1> USE DEF Inv, Written
  <1>1. CASE Canonical \/ Genius \/ AskSite
    <2>1. Typed'
      BY <1>1 DEF Canonical, Genius, AskSite, Typed, Pages
    <2>2. /\ pc' \in {"lrclib", "gpu", "web"} /\ UNCHANGED <<record, hint, runner>>
          /\ pc \in {"canonical", "genius", "web"}
      BY <1>1 DEF Canonical, Genius, AskSite
    <2>3. runner # "paste"
      BY <1>1 DEF Canonical, Genius, AskSite, Pasted
    <2> QED BY <2>1, <2>2, <2>3, Unwritten DEF Judged, Pasted, Heard, Guarded, HasWords
  <1>2. CASE LookUp
    <2>1. PICK r \in Answers : record' = ScriptGate(r)
      BY <1>2 DEF LookUp
    <2>2. Fine(record')
      BY <2>1, RecordsTyped
    <2>3. Typed'
      BY <1>2, <2>2 DEF LookUp, Typed
    <2>4. Judged'
      <3>1. CASE record' = r
        BY <3>1, RecordsTyped DEF Judged
      <3>2. CASE record' # r
        <4>1. record' = Dropped(r, "script") /\ ~r.script /\ Fine(r)
          BY <2>1, <3>2, RecordsTyped DEF ScriptGate
        <4> QED BY <4>1, DroppedTyped DEF Judged
      <3> QED BY <3>1, <3>2
    <2>5. pc' \in {"genius", "gpu", "web"} /\ runner' = runner /\ runner # "paste"
      BY <1>2 DEF LookUp, Pasted
    <2> QED BY <2>3, <2>4, <2>5, Unwritten DEF Pasted, Heard, Guarded
  <1>3. CASE Window
    <2>1. PICK t \in Transcripts : asr' = <<t>>
      BY <1>3 DEF Window
    <2>2. aligned' \in Alignments /\ UNCHANGED <<record, hint, web, files, runner>>
      BY <1>3 DEF Window, Alignments
    <2>3. Typed'
      BY <2>1, <2>2 DEF Typed, Fine
    <2>4. pc' \in {"paste", "identify", "resolve"} /\ (runner = "paste" <=> pc' = "paste")
      BY <1>3 DEF Window
    <2>5. Len(asr') = 1
      BY <2>1
    <2>6. pc = "gpu"
      BY <1>3 DEF Window
    <2> QED BY <2>2, <2>3, <2>4, <2>5, <2>6, Unwritten DEF Judged, Pasted, Heard, Guarded, HasWords
  <1> QED BY <1>1, <1>2, <1>3

\* What the transcript gives rise to is a record like any other.
LEMMA SecondThoughtsKeepInv ==
  ASSUME Inv, Identify \/ Realign \/ Quote
  PROVE  Inv'
  <1> USE DEF Inv, Written
  <1>0. runner # "paste" /\ Len(asr) > 0
    BY DEF Identify, Realign, Quote, Pasted, Heard
  <1>1. CASE Identify
    <2>1. /\ UNCHANGED <<hint, web, files, asr, aligned, runner>>
          /\ pc = "identify" /\ pc' \in {"realign", "quote"}
      BY <1>1 DEF Identify
    <2>2. \/ record' = record
          \/ \E hit \in Hits, a \in {"high", "middling", "low", "none"} :
               a \in Agreement(asr[1], hit.song, hit.script) /\ Enough(a) /\ record' = hit
      BY <1>1 DEF Identify
    <2>3. CASE record' = record
      BY <1>0, <2>1, <2>3, Unwritten DEF Typed, Judged, Pasted, Heard, Guarded, HasWords
    <2>4. ASSUME NEW r \in Hits, NEW a \in Agreement(asr[1], r.song, r.script), Enough(a), record' = r
          PROVE  Inv'
      <3>1. Fine(r) /\ r.why = "none"
        BY RecordsTyped
      <3> QED BY <1>0, <2>1, <2>4, <3>1, Unwritten DEF Typed, Judged, Pasted, Heard, Guarded
    <2> QED BY <2>2, <2>3, <2>4
  <1>2. CASE Realign
    <2>1. PICK t \in Transcripts : asr' = <<t>> \o asr
      BY <1>2 DEF Realign
    <2>2. asr' \in Seq(Transcripts) /\ Len(asr') > 0
      BY <2>1 DEF Typed
    <2> QED BY <1>0, <1>2, <2>2, Unwritten DEF Realign, Typed, Judged, Pasted, Heard, Guarded, HasWords
  <1>3. CASE Quote
    <2>1. web' \in Songs \cup {"none"} /\ pc' \in {"quote", "resolve"}
      BY <1>3 DEF Quote, Typed, Pages
    <2>2. UNCHANGED <<record, hint, files, asr, aligned, runner>> /\ pc = "quote"
      BY <1>3 DEF Quote
    <2> QED BY <1>0, <2>1, <2>2, Unwritten DEF Typed, Judged, Pasted, Heard, Guarded, HasWords
  <1> QED BY <1>1, <1>2, <1>3

\* The wrong-song guard lets another song's words pass only unheard.
LEMMA ResolveKeepsInv ==
  ASSUME Inv, ResolveGuard
  PROVE  Inv'
  <1> USE DEF Inv, Written
  <1>0. /\ runner # "paste" /\ Len(asr) > 0 /\ pc' = "select"
        /\ UNCHANGED <<hint, web, files, asr, runner>>
    BY DEF ResolveGuard, Pasted, Heard
  <1>1. PICK a \in Agreement(asr[1], record.song, record.script) : record' = Guard(record, a)
    BY DEF ResolveGuard
  <1>2. \/ record' = record
        \/ /\ record' = Dropped(record, "asr_disagreement")
           /\ HasWords(record) /\ ~(hint /\ asr[1] = "foreign") /\ a = "low"
    BY <1>1 DEF Guard
  <1>3. Fine(record') /\ (HasWords(record') => record' = record)
    BY <1>2, DroppedTyped DEF Typed, HasWords
  <1>4. Typed'
    BY <1>0, <1>3 DEF ResolveGuard, Typed, Alignments
  <1>5. Guarded'
    <2> SUFFICES ASSUME HasWords(record'), record'.song = "theirs" PROVE Clueless'
      BY DEF Guarded, HasWords
    <2>1. record' = record /\ asr[1] \in Transcripts /\ record.song \in Songs
      BY <1>0, <1>3, FirstTranscript DEF Typed, Fine
    <2>2. ~(HasWords(record) /\ ~(hint /\ asr[1] = "foreign") /\ a = "low")
      <3>1. CASE HasWords(record) /\ ~(hint /\ asr[1] = "foreign") /\ a = "low"
        <4>1. record' = Dropped(record, "asr_disagreement")
          BY <1>1, <3>1 DEF Guard
        <4> QED BY <2>1, <4>1, DroppedTyped DEF HasWords, Typed
      <3> QED BY <3>1
    <2> QED BY <1>0, <1>1, <2>1, <2>2, AgreementTells DEF Clueless
  <1>6. Judged'
    <2>1. CASE record' = record
      BY <1>0, <2>1 DEF Judged, ResolveGuard
    <2>2. CASE record' # record
      <3>1. /\ record' = Dropped(record, "asr_disagreement") /\ ~(hint /\ asr[1] = "foreign")
            /\ a = "low" /\ Fine(record) /\ asr[1] \in Transcripts
        BY <1>0, <1>2, <2>2, FirstTranscript DEF Typed
      <3>2. record.song = "theirs" \/ asr[1] \in {"bad", "looped", "foreign"} \/ ~record.script
        BY <1>1, <3>1, AgreementTells DEF Fine
      <3>3. /\ record'.song = record.song /\ record'.script = record.script
            /\ record'.why = "asr_disagreement"
        BY <3>1, DroppedTyped
      <3> QED BY <1>0, <3>1, <3>2, <3>3 DEF Judged, Misleading
    <2> QED BY <2>1, <2>2
  <1> QED BY <1>0, <1>4, <1>5, <1>6, Unwritten DEF Pasted, Heard

-----------------------------------------------------------------------------
(* What is written *)

\* What a text is made of.
LEMMA TextsTyped ==
  ASSUME NEW song \in Songs, NEW base \in Bases, NEW timing \in Timings
  PROVE  /\ Text(song, base, timing) \in Texts
         /\ Text(song, base, timing).song = song
         /\ Text(song, base, timing).base = base
         /\ Text(song, base, timing).timing = timing
         /\ Text(song, base, timing).fixed = {}
  BY DEF Text, Texts

LEMMA NoTextTyped ==
  /\ NoText \in Texts /\ NoText.song = "ours" /\ NoText.base = "nothing"
  /\ NoText.timing = "none" /\ NoText.fixed = {}
  <1>1. "ours" \in Songs /\ "nothing" \in Bases /\ "none" \in Timings
    BY DEF Songs, Bases, Timings
  <1> QED BY <1>1, TextsTyped DEF NoText

\* The text of a record.
LEMMA CuratedTyped ==
  ASSUME record.song \in Songs, NEW timing \in Timings
  PROVE  /\ Curated(timing) \in Texts /\ Curated(timing).song = record.song
         /\ Curated(timing).base = "lrclib" /\ Curated(timing).timing = timing
         /\ Curated(timing).fixed = {} /\ Curated(timing) # NoText
  <1>1. "lrclib" \in Bases
    BY DEF Bases
  <1>2. /\ Curated(timing) \in Texts /\ Curated(timing).song = record.song
        /\ Curated(timing).base = "lrclib" /\ Curated(timing).timing = timing
        /\ Curated(timing).fixed = {}
    BY <1>1, TextsTyped DEF Curated
  <1> QED BY <1>2, NoTextTyped

\* The transcript is of the audio, timed where the file with the times is there, and
\* of one pass it is the same in both files.
LEMMA FloorFiles ==
  ASSUME Typed, Len(asr) > 0, NEW why, Floor(why)
  PROVE  /\ DOMAIN files' = {"lrc", "txt"}
         /\ \A n \in {"lrc", "txt"} :
              /\ files'[n] \in Texts /\ files'[n].song = "ours"
              /\ files'[n].base \notin {"lrclib", "paste"} /\ files'[n].fixed = {}
         /\ prov' = [source |-> prov'.source, why |-> why, policy |-> "none"]
         /\ prov'.source \in {"whisper_asr_synced", "whisper_asr"}
         /\ files'.lrc.timing \in {"asr", "none"}
         /\ files'.lrc # NoText => files'.lrc.base # "nothing"
         /\ files'.lrc # NoText /\ Len(asr) = 1 => files'.lrc.base = files'.txt.base
         /\ prov'.source = "whisper_asr_synced" => files'.lrc.base # "nothing"
  <1> DEFINE of(n) == Text("ours", IF n = 1 THEN "asr" ELSE "second asr", "none")
             timed == asr[1] \notin {"untimed", "silent"}
             last  == [of(Len(asr)) EXCEPT !.timing = "asr"]
             n1    == IF asr[1] = "looped" THEN Len(asr) ELSE 1
  <1>1. \A n : /\ of(n) \in Texts /\ of(n).song = "ours" /\ of(n).fixed = {}
               /\ of(n).base \in {"asr", "second asr"} /\ (n = 1 => of(n).base = "asr")
    <2>1. "ours" \in Songs /\ "none" \in Timings /\ {"asr", "second asr"} \subseteq Bases
      BY DEF Songs, Bases, Timings
    <2>2. \A base \in {"asr", "second asr"} :
            /\ Text("ours", base, "none") \in Texts /\ Text("ours", base, "none").song = "ours"
            /\ Text("ours", base, "none").fixed = {} /\ Text("ours", base, "none").base = base
      <3>1. ASSUME NEW base \in Bases
            PROVE  /\ Text("ours", base, "none") \in Texts /\ Text("ours", base, "none").song = "ours"
                   /\ Text("ours", base, "none").fixed = {} /\ Text("ours", base, "none").base = base
        BY <2>1 DEF Text, Texts
      <3> QED BY <2>1, <3>1
    <2> QED BY <2>2
  <1>2. /\ last \in Texts /\ last.song = "ours" /\ last.fixed = {} /\ last.timing = "asr"
        /\ last.base = of(Len(asr)).base
    BY <1>1 DEF Texts, Timings
  <1>3. /\ files' = [lrc |-> IF timed THEN last ELSE NoText, txt |-> of(n1)]
        /\ prov'.source = IF timed THEN "whisper_asr_synced" ELSE "whisper_asr"
        /\ prov' = [source |-> prov'.source, why |-> why, policy |-> "none"]
    BY DEF Floor, Ship
  <1>4. files'.lrc = (IF timed THEN last ELSE NoText) /\ files'.txt = of(n1) /\ DOMAIN files' = {"lrc", "txt"}
    BY <1>3
  <1>5. Len(asr) = 1 => n1 = 1
    OBVIOUS
  <1> HIDE DEF of, last, timed, n1
  <1>6. ASSUME NEW n \in {"lrc", "txt"}
        PROVE  /\ files'[n] \in Texts /\ files'[n].song = "ours"
               /\ files'[n].base \notin {"lrclib", "paste"} /\ files'[n].fixed = {}
    <2>1. CASE n = "lrc"
      <3>1. files'[n] = last \/ files'[n] = NoText
        BY <1>4, <2>1
      <3> QED BY <1>1, <1>2, <3>1, NoTextTyped
    <2>2. CASE n = "txt"
      BY <1>1, <1>4, <2>2
    <2> QED BY <2>1, <2>2
  <1>7. files'.lrc.timing \in {"asr", "none"}
    BY <1>2, <1>4, NoTextTyped
  <1>8. timed => files'.lrc.base \in {"asr", "second asr"}
    BY <1>1, <1>2, <1>4
  <1>9. files'.lrc # NoText => timed
    BY <1>4
  <1>10. prov'.source = "whisper_asr_synced" => timed
    BY <1>3
  <1>11. timed /\ Len(asr) = 1 => files'.lrc.base = files'.txt.base
    BY <1>1, <1>2, <1>4, <1>5
  <1> QED BY <1>3, <1>4, <1>6, <1>7, <1>8, <1>9, <1>10, <1>11

\* Files just written, which nobody has corrected.
LEMMA Uncorrected ==
  ASSUME pc' = "vote", DOMAIN prov' = {"source", "why", "policy"}, prov'.policy = "none",
         \A n \in {"lrc", "txt"} : files'[n].fixed = {},
         FromLrclib' => \A n \in {"lrc", "txt"} : files'[n] = NoText \/ files'[n].base = "lrclib",
         prov'.source \in {"whisper_asr_synced", "whisper_asr"} =>
           \A n \in {"lrc", "txt"} : files'[n].base \notin {"lrclib", "paste"}
  PROVE  Corrected'
  BY DEF Corrected

\* A step that writes files, and nothing of what they were made of, has to show only
\* what it says of the files.
LEMMA JustWritten ==
  ASSUME Inv, UNCHANGED <<inputs, found, gpu>>, pc' \in Written,
         pc = "select" \/ pc \in Written, runner # "paste",
         DOMAIN files' = {"lrc", "txt"}, \A n \in {"lrc", "txt"} : files'[n] \in Texts,
         Honest', Paired', Placed', Corrected', Timed'
  PROVE  Inv'
  <1>1. Typed'
    BY DEF Inv, Typed, Fine
  <1>2. Judged' /\ Pasted' /\ Heard' /\ Guarded'
    BY DEF Inv, Judged, Misleading, Pasted, Heard, Guarded, Written, HasWords, Clueless
  <1> QED BY <1>1, <1>2 DEF Inv

\* The transcript as the floor, where there are no words that could be placed.
LEMMA FloorKeepsInv ==
  ASSUME Inv, pc = "select", pc' = "vote", UNCHANGED <<inputs, found, gpu>>, NEW why, Floor(why),
         ~HasWords(record) \/ Unplaced
  PROVE  Inv'
  <1>1. Typed /\ Len(asr) > 0 /\ runner # "paste"
    BY DEF Inv, Heard, Pasted
  <1>2. Honest'
    BY <1>1, FloorFiles DEF Honest
  <1>3. Paired'
    BY <1>1, FloorFiles DEF Paired
  <1>4. Placed'
    BY DEF Placed, HasWords, Unplaced
  <1>5. Timed'
    BY <1>1, FloorFiles DEF Timed
  <1>6. DOMAIN files' = {"lrc", "txt"} /\ \A n \in {"lrc", "txt"} : files'[n] \in Texts
    BY <1>1, FloorFiles
  <1>7. Corrected'
    <2>1. DOMAIN prov' = {"source", "why", "policy"} /\ prov'.policy = "none"
      BY <1>1, FloorFiles
    <2>2. /\ \A n \in {"lrc", "txt"} : files'[n].fixed = {} /\ files'[n].base \notin {"lrclib", "paste"}
          /\ prov'.source \in {"whisper_asr_synced", "whisper_asr"}
      BY <1>1, FloorFiles
    <2>3. ~FromLrclib'
      BY <2>2 DEF FromLrclib
    <2> QED BY <2>1, <2>2, <2>3, Uncorrected
  <1> QED BY <1>1, <1>2, <1>3, <1>4, <1>5, <1>6, <1>7, JustWritten DEF Written

\* The record's own text, or none at all.
LEMMA CuratedKeepsInv ==
  ASSUME Inv, pc = "select", pc' = "vote", UNCHANGED <<inputs, found, gpu>>,
         HasWords(record), NEW timing \in {"lrclib", "shifted", "aligned"}, NEW lrc,
         lrc = Curated(timing) \/ lrc = NoText, NEW why,
         NEW source \in {"lrclib_synced", "lrclib_plain", "forced_aligned"},
         Ship(lrc, Curated("none"), source, why)
  PROVE  Inv'
  <1>1. runner # "paste" /\ record.song \in Songs
    BY DEF Inv, Pasted, Typed, Fine
  <1>2. \A t \in {"lrclib", "shifted", "aligned", "none"} :
          /\ Curated(t) \in Texts /\ Curated(t).song = record.song /\ Curated(t).base = "lrclib"
          /\ Curated(t).timing = t /\ Curated(t).fixed = {}
    BY <1>1, CuratedTyped DEF Timings
  <1>3. /\ files'.lrc = lrc /\ files'.txt = Curated("none") /\ DOMAIN files' = {"lrc", "txt"}
        /\ DOMAIN prov' = {"source", "why", "policy"} /\ prov'.policy = "none" /\ prov'.source = source
    BY DEF Ship
  <1>4. \A n \in {"lrc", "txt"} :
          /\ files'[n] \in Texts /\ files'[n].song \in {"ours", record.song} /\ files'[n].fixed = {}
          /\ files'[n] = NoText \/ files'[n].base = "lrclib"
    <2>1. /\ lrc \in Texts /\ lrc.song \in {"ours", record.song} /\ lrc.fixed = {}
          /\ lrc = NoText \/ lrc.base = "lrclib"
      BY <1>2, NoTextTyped
    <2> QED BY <1>2, <1>3, <2>1
  <1>5. Honest'
    BY <1>4 DEF Honest, HasWords
  <1>6. Paired'
    BY <1>2, <1>3 DEF Paired
  <1>7. Placed'
    BY <1>2, <1>3, <1>4 DEF Placed
  <1>8. Timed'
    BY <1>3 DEF Timed
  <1>9. Corrected'
    BY <1>3, <1>4, Uncorrected
  <1> QED BY <1>1, <1>3, <1>4, <1>5, <1>6, <1>7, <1>8, <1>9, JustWritten DEF Written

\* In each branch of the precedence.
LEMMA SelectKeepsInv ==
  ASSUME Inv, Select
  PROVE  Inv'
  <1>1. pc = "select" /\ pc' = "vote" /\ UNCHANGED <<inputs, found, gpu>> /\ Typed /\ Fine(record)
    BY DEF Select, Inv, Typed
  <1>2. CASE SelectSynced
    <2>1. record.has = "synced" /\ HasWords(record)
      BY <1>2 DEF SelectSynced, HasWords
    <2>2. PICK covered \in BOOLEAN, shifted \in Shifts :
            CASE ~Misfit(covered) ->
                   Ship(Curated(IF shifted THEN "shifted" ELSE "lrclib"), Curated("none"),
                        "lrclib_synced", "none")
              [] Misfit(covered) /\ Faithful ->
                   Ship(Curated("aligned"), Curated("none"), "forced_aligned", "coverage")
              [] Misfit(covered) /\ ~Faithful -> Floor("coverage")
      BY <1>2 DEF SelectSynced
    <2>3. CASE ~Misfit(covered)
      <3> DEFINE timing == IF shifted THEN "shifted" ELSE "lrclib"
      <3>1. Ship(Curated(timing), Curated("none"), "lrclib_synced", "none")
        BY <2>2, <2>3
      <3>2. timing \in {"lrclib", "shifted", "aligned"}
        OBVIOUS
      <3> HIDE DEF timing
      <3> QED BY <1>1, <2>1, <3>1, <3>2, CuratedKeepsInv
    <2>4. CASE Misfit(covered) /\ Faithful
      <3>1. Ship(Curated("aligned"), Curated("none"), "forced_aligned", "coverage")
        BY <2>2, <2>4
      <3> QED BY <1>1, <2>1, <3>1, CuratedKeepsInv
    <2>5. CASE Misfit(covered) /\ ~Faithful
      <3>1. Floor("coverage")
        BY <2>2, <2>5
      <3>2. Unplaced
        BY <1>1, <2>1, <2>5 DEF Unplaced, Misfit, Faithful, Typed, Alignments
      <3> QED BY <1>1, <3>1, <3>2, FloorKeepsInv
    <2> QED BY <2>3, <2>4, <2>5
  <1>3. CASE SelectPlain
    <2>1. record.has = "plain" /\ HasWords(record)
      BY <1>3 DEF SelectPlain, HasWords
    <2>2. \/ Ship(Curated("aligned"), Curated("none"), "forced_aligned", "none")
          \/ Ship(NoText, Curated("none"), "lrclib_plain", "none")
      BY <1>3 DEF SelectPlain
    <2> QED BY <1>1, <2>1, <2>2, CuratedKeepsInv
  <1>4. CASE SelectInstrumental
    <2>1. /\ files' = [lrc |-> NoText, txt |-> NoText] /\ prov'.source = "instrumental"
          /\ record.has = "instrumental" /\ ~HasWords(record)
      BY <1>4 DEF SelectInstrumental, Ship, HasWords
    <2>2. \A n \in {"lrc", "txt"} : files'[n] = NoText
      BY <2>1
    <2>3. Honest' /\ Paired' /\ Placed' /\ Timed'
      BY <1>1, <2>1, <2>2, NoTextTyped DEF Honest, Paired, Placed, Timed, HasWords
    <2>5. DOMAIN prov' = {"source", "why", "policy"} /\ prov'.policy = "none"
      BY <1>4 DEF SelectInstrumental, Ship
    <2>6. Corrected'
      BY <1>1, <2>1, <2>2, <2>5, NoTextTyped, Uncorrected DEF FromLrclib
    <2>4. runner # "paste"
      BY <1>1 DEF Inv, Pasted
    <2> QED BY <1>1, <2>1, <2>2, <2>3, <2>4, <2>6, NoTextTyped, JustWritten DEF Written
  <1>5. CASE SelectWords
    <2>1. record.has = "words" /\ HasWords(record)
      BY <1>5 DEF SelectWords, HasWords
    <2>2. CASE aligned # "none"
      <3>1. Ship(Curated("aligned"), Curated("none"), "forced_aligned", record.why)
        BY <1>5, <2>2 DEF SelectWords
      <3> QED BY <1>1, <2>1, <3>1, CuratedKeepsInv
    <2>3. CASE aligned = "none"
      <3>1. Floor(record.why) /\ Unplaced
        BY <1>5, <2>3 DEF SelectWords, Unplaced
      <3> QED BY <1>1, <3>1, FloorKeepsInv
    <2> QED BY <2>2, <2>3
  <1>6. CASE SelectFloor
    <2>1. ~HasWords(record) /\ Floor(record.why)
      BY <1>6 DEF SelectFloor, HasWords
    <2> QED BY <1>1, <2>1, FloorKeepsInv
  <1> QED BY <1>2, <1>3, <1>4, <1>5, <1>6 DEF Select

\* The owner's own words, of no record.
LEMMA PasteKeepsInv ==
  ASSUME Inv, Paste
  PROVE  Inv'
  <1>1. /\ runner = "paste" /\ record.has = "nothing" /\ ~HasWords(record) /\ Len(asr) > 0
        /\ pc = "paste" /\ UNCHANGED <<inputs, found, gpu>> /\ pc' \in {"failed", "done"}
    BY DEF Inv, Pasted, Heard, Paste, HasWords
  <1>2. Judged' /\ Pasted' /\ Heard' /\ Guarded' /\ Timed' /\ Placed'
    BY <1>1 DEF Inv, Judged, Misleading, Pasted, Heard, Guarded, HasWords, Timed, Placed, Written
  <1>3. CASE pc' = "failed"
    <2>1. UNCHANGED files
      BY <1>3 DEF Paste
    <2>2. Typed' /\ Honest' /\ Paired' /\ Corrected'
      BY <1>1, <1>3, <2>1 DEF Inv, Typed, Fine, Honest, Paired, Corrected, Written
    <2> QED BY <1>2, <2>2 DEF Inv
  <1>4. CASE pc' = "done"
    <2>1. /\ files' = [lrc |-> Text("ours", "paste", "aligned"), txt |-> Text("ours", "paste", "none")]
          /\ DOMAIN prov' = {"source", "why", "policy"} /\ prov'.policy = "none"
          /\ prov'.source = "manual_reference"
      BY <1>4 DEF Paste, Ship
    <2>2. "ours" \in Songs /\ "paste" \in Bases /\ {"aligned", "none"} \subseteq Timings
      BY DEF Songs, Bases, Timings
    <2>3. ASSUME NEW timing \in {"aligned", "none"}
          PROVE  /\ Text("ours", "paste", timing) \in Texts /\ Text("ours", "paste", timing).song = "ours"
                 /\ Text("ours", "paste", timing).base = "paste"
                 /\ Text("ours", "paste", timing).fixed = {}
      BY <2>2 DEF Text, Texts
    <2>4. /\ DOMAIN files' = {"lrc", "txt"}
          /\ \A n \in {"lrc", "txt"} :
               /\ files'[n] \in Texts /\ files'[n].song = "ours"
               /\ files'[n].base = "paste" /\ files'[n].fixed = {}
      BY <2>1, <2>3
    <2>5. Typed'
      BY <1>1, <2>4 DEF Inv, Typed, Fine
    <2>6. Honest' /\ Paired'
      BY <2>4 DEF Honest, Paired
    <2>7. Corrected'
      BY <1>4, <2>1, <2>4 DEF Corrected, FromLrclib
    <2> QED BY <1>2, <2>5, <2>6, <2>7 DEF Inv
  <1> QED BY <1>1, <1>3, <1>4

-----------------------------------------------------------------------------
(* What is corrected *)

\* What a correction of the web's or the model's leaves honest.
LEMMA HonestStays ==
  ASSUME Inv, pc \in Written, UNCHANGED record,
         \A n \in {"lrc", "txt"} :
           /\ "web of theirs" \notin files'[n].fixed
           /\ \E m \in {"lrc", "txt"} :
                files'[n].song = files[m].song /\ files'[n].base = files[m].base
  PROVE  Honest'
  <1> SUFFICES ASSUME NEW n \in {"lrc", "txt"}
               PROVE  /\ files'[n].song = "theirs" => HasWords(record)' /\ record'.song = "theirs"
                      /\ files'[n].base = "lrclib" => HasWords(record)'
    BY DEF Honest
  <1>1. PICK m \in {"lrc", "txt"} :
          files'[n].song = files[m].song /\ files'[n].base = files[m].base
    OBVIOUS
  <1>2. /\ files[m].song = "theirs" => HasWords(record) /\ record.song = "theirs"
        /\ files[m].base = "lrclib" => HasWords(record)
    BY DEF Inv, Honest
  <1> QED BY <1>1, <1>2 DEF HasWords

\* Before the corrections nothing of another song's corrected anything.
LEMMA Unmarked ==
  ASSUME Inv, pc \in Written, NEW n \in {"lrc", "txt"}
  PROVE  "web of theirs" \notin files[n].fixed
  BY DEF Inv, Honest

\* The vote touches neither whose the words are nor their times.
LEMMA VoteKeepsInv ==
  ASSUME Inv, Vote
  PROVE  Inv'
  <1>1. /\ pc = "vote" /\ pc' = "policy" /\ UNCHANGED <<inputs, found, gpu, prov>> /\ runner # "paste"
        /\ DOMAIN files = {"lrc", "txt"} /\ files.lrc \in Texts /\ files.txt \in Texts
    BY DEF Inv, Vote, Pasted, Typed
  <1>2. UNCHANGED files \/ \E which \in SUBSET DOMAIN files : files' = Fix("vote", which, files)
    BY DEF Vote
  <1>3. /\ DOMAIN files' = {"lrc", "txt"}
        /\ \A n \in {"lrc", "txt"} :
             /\ files'[n] \in Texts /\ files'[n].song = files[n].song
             /\ files'[n].base = files[n].base /\ files'[n].timing = files[n].timing
             /\ files'[n].fixed \in {files[n].fixed, files[n].fixed \cup {"vote"}}
             /\ files[n] = NoText => files'[n] = NoText
    <2>1. CASE UNCHANGED files
      BY <1>1, <2>1
    <2>2. CASE \E which \in SUBSET DOMAIN files : files' = Fix("vote", which, files)
      <3>1. PICK which : files' = Fix("vote", which, files)
        BY <2>2
      <3>2. "vote" \in Marks
        BY DEF Marks
      <3> QED BY <1>1, <3>1, <3>2, FixedFiles
    <2> QED BY <1>2, <2>1, <2>2
  <1>4. Honest'
    <2>1. ASSUME NEW n \in {"lrc", "txt"}
          PROVE  /\ "web of theirs" \notin files'[n].fixed
                 /\ files'[n].song = files[n].song /\ files'[n].base = files[n].base
      <3>1. "web of theirs" # "vote" /\ "web of theirs" \notin files[n].fixed
        BY <1>1, Unmarked DEF Written
      <3>2. files'[n].fixed \in {files[n].fixed, files[n].fixed \cup {"vote"}}
        BY <1>3
      <3> QED BY <1>3, <3>1, <3>2
    <2> QED BY <1>1, <2>1, HonestStays DEF Written
  <1>5. Paired'
    BY <1>1, <1>3 DEF Inv, Paired, Written
  <1>6. Placed'
    BY <1>1, <1>3, NoTextTyped DEF Inv, Placed, Written, HasWords, Unplaced
  <1>7. Timed'
    BY <1>1, <1>3 DEF Inv, Timed
  <1>8. Corrected'
    <2>1. /\ \A n \in {"lrc", "txt"} : files[n].fixed = {}
          /\ FromLrclib => \A n \in {"lrc", "txt"} : files[n] = NoText \/ files[n].base = "lrclib"
          /\ prov.policy = "none" /\ DOMAIN prov = {"source", "why", "policy"}
      BY <1>1 DEF Inv, Corrected, Written
    <2>2. CASE UNCHANGED files
      BY <1>1, <2>2 DEF Inv, Corrected, Written, FromLrclib
    <2>3. CASE ~UNCHANGED files
      <3>1. FromLrclib
        BY <2>3 DEF Vote
      <3>2. \A n \in {"lrc", "txt"} :
              /\ files'[n] = NoText \/ files'[n].base = "lrclib"
              /\ files'[n].fixed \in {{}, {"vote"}}
              /\ files'[n] = NoText => files'[n].fixed = {}
        BY <1>3, <2>1, <3>1, NoTextTyped
      <3>3. \A n \in {"lrc", "txt"} : files'[n].base # "lrclib" => files'[n].fixed = {}
        BY <3>2
      <3>4. FromLrclib' /\ prov'.source \notin {"whisper_asr_synced", "whisper_asr"}
        BY <1>1, <3>1 DEF FromLrclib
      <3>5. prov'.policy = "none" /\ DOMAIN prov' = {"source", "why", "policy"} /\ pc' = "policy"
        BY <1>1, <2>1
      <3> QED BY <3>2, <3>3, <3>4, <3>5 DEF Corrected
    <2> QED BY <2>2, <2>3
  <1> QED BY <1>1, <1>3, <1>4, <1>5, <1>6, <1>7, <1>8, JustWritten DEF Written

\* A web reference that agrees with the transcript is of our song, and the same text
\* then goes to both files.
LEMMA PolicyKeepsInv ==
  ASSUME Inv, Policy
  PROVE  Inv'
  <1>1. /\ pc = "policy" /\ pc' = "llm" /\ UNCHANGED <<inputs, found, gpu>> /\ runner # "paste"
        /\ DOMAIN files = {"lrc", "txt"} /\ files.lrc \in Texts /\ files.txt \in Texts
        /\ Len(asr) > 0 /\ web \in Songs \cup {"none"}
    BY DEF Inv, Policy, Pasted, Heard, Written, Typed
  <1>2. CASE UNCHANGED out
    <2>1. Honest' /\ Paired' /\ Placed' /\ Timed' /\ Corrected'
      BY <1>1, <1>2
         DEF Inv, Honest, Paired, Placed, Timed, Corrected, Written, HasWords, Unplaced, FromLrclib
    <2> QED BY <1>1, <1>2, <2>1, JustWritten DEF Written
  <1>3. CASE ~UNCHANGED out
    <2> DEFINE lrc == [files.lrc EXCEPT !.fixed = {WebOf(web)}]
    <2>1. /\ prov.source = "whisper_asr_synced" /\ web # "none"
          /\ \E script \in BOOLEAN : \E a \in Agreement(asr[1], web, script) : Corrects(a)
          /\ files' = [lrc |-> lrc, txt |-> Plain(lrc)]
          /\ prov' = [prov EXCEPT !.source = "asr_reference_corrected",
                                   !.policy = "asr_base_reference_words"]
      BY <1>3 DEF Policy
    <2>2. web = "ours"
      BY <1>1, <2>1, FirstTranscript, AgreementTells DEF Inv, Corrects
    <2>3. WebOf(web) = "web of ours" /\ {WebOf(web)} \in SUBSET Marks
      BY <2>2 DEF WebOf, Marks
    <2>4. /\ lrc \in Texts /\ lrc.song = files.lrc.song /\ lrc.base = files.lrc.base
          /\ lrc.timing = files.lrc.timing /\ lrc.fixed = {"web of ours"}
      BY <1>1, <2>3 DEF Texts
    <2> HIDE DEF lrc
    <2>5. /\ Plain(lrc) \in Texts /\ Plain(lrc).song = lrc.song /\ Plain(lrc).base = lrc.base
          /\ Plain(lrc).fixed = lrc.fixed
      BY <2>4 DEF Plain, Texts, Timings
    <2>6. /\ DOMAIN files' = {"lrc", "txt"} /\ files'.lrc = lrc /\ files'.txt = Plain(lrc)
          /\ \A n \in {"lrc", "txt"} :
               /\ files'[n] \in Texts /\ files'[n].song = files.lrc.song
               /\ files'[n].base = files.lrc.base /\ files'[n].fixed = {"web of ours"}
      <3>1. DOMAIN files' = {"lrc", "txt"} /\ files'.lrc = lrc /\ files'.txt = Plain(lrc)
        BY <2>1
      <3> QED BY <2>4, <2>5, <3>1
    <2>7. files.lrc.base # "nothing"
      BY <1>1, <2>1 DEF Inv, Timed
    <2>8. Honest'
      <3>1. ASSUME NEW n \in {"lrc", "txt"}
            PROVE  /\ "web of theirs" \notin files'[n].fixed
                   /\ files'[n].song = files.lrc.song /\ files'[n].base = files.lrc.base
        <4>1. "web of theirs" # "web of ours"
          OBVIOUS
        <4>2. files'[n].fixed = {"web of ours"}
          BY <2>6
        <4>3. files'[n].song = files.lrc.song /\ files'[n].base = files.lrc.base
          BY <2>6
        <4> QED BY <4>1, <4>2, <4>3
      <3> QED BY <1>1, <3>1, HonestStays DEF Written
    <2>9. Paired'
      BY <1>1, <2>6, <2>7 DEF Paired
    <2>12. /\ \A n \in {"lrc", "txt"} : files[n].base \notin {"lrclib", "paste"}
           /\ DOMAIN prov = {"source", "why", "policy"}
      BY <1>1, <2>1 DEF Inv, Corrected, Written
    <2>10. Placed'
      BY <1>1, <2>12 DEF Inv, Placed, Written, HasWords, Unplaced
    <2>11. Timed'
      BY <1>1 DEF Timed
    <2>13. Corrected'
      <3>1. /\ DOMAIN prov' = {"source", "why", "policy"}
            /\ prov'.source = "asr_reference_corrected" /\ prov'.policy = "asr_base_reference_words"
        BY <2>1, <2>12
      <3>2. ~FromLrclib'
        BY <3>1 DEF FromLrclib
      <3>3. \A n \in {"lrc", "txt"} :
              /\ files'[n].base \notin {"lrclib", "paste"} /\ files'[n].fixed = {"web of ours"}
        BY <2>6, <2>12
      <3>4. "vote" \notin {"web of ours"} /\ ~({"web of ours"} \subseteq {"vote", "llm"})
        OBVIOUS
      <3>5. ~\A n \in {"lrc", "txt"} : files'[n].fixed \subseteq {"vote", "llm"}
        BY <3>3, <3>4
      <3> QED BY <1>1, <3>1, <3>2, <3>3, <3>4, <3>5 DEF Corrected
    <2> QED BY <1>1, <2>6, <2>8, <2>9, <2>10, <2>11, <2>13, JustWritten DEF Written
  <1> QED BY <1>2, <1>3

\* The language model rewrites the lines of both files alike.
LEMMA LlmKeepsInv ==
  ASSUME Inv, Llm
  PROVE  Inv'
  <1>1. /\ pc = "llm" /\ pc' = "done" /\ UNCHANGED <<inputs, found, gpu, prov>> /\ runner # "paste"
        /\ DOMAIN files = {"lrc", "txt"} /\ files.lrc \in Texts /\ files.txt \in Texts
    BY DEF Inv, Llm, Pasted, Typed
  <1> DEFINE fs == [files EXCEPT !.txt = IF files.lrc = NoText THEN @ ELSE Plain(files.lrc)]
  <1>2. UNCHANGED files \/ files' = Fix("llm", DOMAIN files, fs)
    BY DEF Llm
  <1>3. CASE UNCHANGED files
    <2>1. Honest' /\ Paired' /\ Placed' /\ Timed'
      BY <1>1, <1>3
         DEF Inv, Honest, Paired, Placed, Timed, Written, HasWords, Unplaced
    <2>2. Corrected'
      BY <1>1, <1>3 DEF Inv, Corrected, Written, FromLrclib
    <2> QED BY <1>1, <1>3, <2>1, <2>2, JustWritten DEF Written
  <1>4. CASE ~UNCHANGED files
    <2>1. /\ DOMAIN fs = {"lrc", "txt"} /\ fs.lrc = files.lrc
          /\ fs.txt = (IF files.lrc = NoText THEN files.txt ELSE Plain(files.lrc))
      BY <1>1
    <2> HIDE DEF fs
    <2>2. /\ Plain(files.lrc) \in Texts /\ Plain(files.lrc).song = files.lrc.song
          /\ Plain(files.lrc).base = files.lrc.base /\ Plain(files.lrc).fixed = files.lrc.fixed
      BY <1>1 DEF Plain, Texts, Timings
    <2>3. fs.lrc \in Texts /\ fs.txt \in Texts /\ "llm" \in Marks
      BY <1>1, <2>1, <2>2 DEF Marks
    <2>4. /\ DOMAIN files' = {"lrc", "txt"}
          /\ \A n \in {"lrc", "txt"} :
               /\ files'[n] \in Texts /\ files'[n].song = fs[n].song
               /\ files'[n].base = fs[n].base /\ files'[n].timing = fs[n].timing
               /\ files'[n].fixed \in {fs[n].fixed, fs[n].fixed \cup {"llm"}}
               /\ fs[n] = NoText => files'[n] = NoText
               /\ fs[n] # NoText => files'[n].fixed = fs[n].fixed \cup {"llm"}
      BY <1>1, <1>2, <1>4, <2>1, <2>3, FixedFiles
    <2>5. Honest'
      <3>1. ASSUME NEW n \in {"lrc", "txt"}
            PROVE  \E m \in {"lrc", "txt"} :
                     fs[n].song = files[m].song /\ fs[n].base = files[m].base /\ fs[n].fixed = files[m].fixed
        <4>1. CASE n = "lrc"
          BY <2>1, <4>1
        <4>2. CASE n = "txt" /\ files.lrc = NoText
          BY <2>1, <4>2
        <4>3. CASE n = "txt" /\ files.lrc # NoText
          BY <2>1, <2>2, <4>3
        <4> QED BY <4>1, <4>2, <4>3
      <3>2. ASSUME NEW n \in {"lrc", "txt"}
            PROVE  /\ "web of theirs" \notin files'[n].fixed
                   /\ \E m \in {"lrc", "txt"} :
                        files'[n].song = files[m].song /\ files'[n].base = files[m].base
        <4>1. PICK m \in {"lrc", "txt"} :
                fs[n].song = files[m].song /\ fs[n].base = files[m].base /\ fs[n].fixed = files[m].fixed
          BY <3>1
        <4>2. "web of theirs" \notin files[m].fixed
          BY <1>1, Unmarked DEF Written
        <4>3. "web of theirs" # "llm"
          OBVIOUS
        <4>4. files'[n].fixed \in {fs[n].fixed, fs[n].fixed \cup {"llm"}}
          BY <2>4
        <4>5. files'[n].song = fs[n].song /\ files'[n].base = fs[n].base
          BY <2>4
        <4> QED BY <4>1, <4>2, <4>3, <4>4, <4>5
      <3> QED BY <1>1, <3>2, HonestStays DEF Written
    <2>6. Paired'
      <3> SUFFICES ASSUME files'.lrc # NoText
                   PROVE  /\ files'.lrc.base # "nothing"
                          /\ files'.lrc.song = files'.txt.song
                          /\ files'.lrc.fixed \ {"vote"} = files'.txt.fixed \ {"vote"}
                          /\ files'.lrc.base = files'.txt.base
        BY DEF Paired
      <3>1. files.lrc # NoText /\ files.lrc.base # "nothing"
        BY <1>1, <2>1, <2>4 DEF Inv, Paired, Written
      <3>2. Plain(files.lrc) # NoText
        BY <2>2, <3>1, NoTextTyped
      <3>3. fs.txt = Plain(files.lrc) /\ fs.lrc = files.lrc
        BY <2>1, <3>1
      <3>4. /\ files'.lrc.song = files.lrc.song /\ files'.lrc.base = files.lrc.base
            /\ files'.lrc.fixed = files.lrc.fixed \cup {"llm"}
        BY <2>4, <3>1, <3>3
      <3>5. /\ files'.txt.song = files.lrc.song /\ files'.txt.base = files.lrc.base
            /\ files'.txt.fixed = files.lrc.fixed \cup {"llm"}
        BY <2>2, <2>4, <3>2, <3>3
      <3> QED BY <3>1, <3>4, <3>5
    <2>9. /\ prov.source \in {"whisper_asr_synced", "whisper_asr"}
          /\ \A n \in {"lrc", "txt"} :
               files[n].base \notin {"lrclib", "paste"} /\ files[n].fixed = {}
          /\ DOMAIN prov = {"source", "why", "policy"}
      <3>1. prov.source \in {"whisper_asr_synced", "whisper_asr"}
        BY <1>4 DEF Llm
      <3> QED BY <1>1, <3>1 DEF Inv, Corrected, Written
    <2>7. Placed'
      BY <1>1, <2>9 DEF Inv, Placed, Written, HasWords, Unplaced
    <2>8. Timed'
      BY <1>1 DEF Timed
    <2>10. Corrected'
      <3>1. prov.policy = "none"
        BY <1>1, <2>9 DEF Inv, Corrected, Written
      <3>2. \A n \in {"lrc", "txt"} :
              /\ files'[n].base \notin {"lrclib", "paste"} /\ files'[n].fixed \in {{}, {"llm"}}
        <4>1. \A n \in {"lrc", "txt"} :
                fs[n].base \notin {"lrclib", "paste"} /\ fs[n].fixed = {}
          BY <2>1, <2>2, <2>9
        <4> QED BY <2>4, <4>1
      <3>4. \A n \in {"lrc", "txt"} :
              "vote" \notin files'[n].fixed /\ files'[n].fixed \subseteq {"vote", "llm"}
        BY <3>2
      <3>5. prov' = prov /\ pc' = "done"
        BY <1>1, <1>4 DEF Llm
      <3>3. ~FromLrclib'
        BY <2>9, <3>5 DEF FromLrclib
      <3> QED BY <2>9, <3>1, <3>2, <3>3, <3>4, <3>5 DEF Corrected
    <2> QED BY <1>1, <2>4, <2>5, <2>6, <2>7, <2>8, <2>10, JustWritten DEF Written
  <1> QED BY <1>2, <1>3, <1>4

-----------------------------------------------------------------------------
(* What is shipped *)

\* At the start there is nothing.
LEMMA InitInv == Init => Inv
  <1> SUFFICES ASSUME Init PROVE Inv
    OBVIOUS
  <1>1. pc \in {"gpu", "canonical"} /\ (runner = "paste" => pc = "gpu") /\ asr = <<>>
    BY DEF Init
  <1>2. Typed
    BY RecordsTyped, NoTextTyped DEF Init, Typed, Hints, Alignments
  <1>3. ~HasWords(record) /\ record.why = "none"
    BY RecordsTyped DEF Init, HasWords
  <1>4. record.has = "nothing"
    BY RecordsTyped DEF Init
  <1>5. Judged /\ Pasted /\ Heard /\ Guarded
    BY <1>1, <1>3, <1>4 DEF Judged, Pasted, Heard, Guarded, Written
  <1>6. Honest /\ Paired /\ Placed /\ Corrected /\ Timed
    BY <1>1 DEF Honest, Paired, Placed, Corrected, Timed, Written
  <1> QED BY <1>2, <1>5, <1>6 DEF Inv

\* And every step keeps the invariant.
LEMMA StepKeepsInv == Inv /\ [Next]_vars => Inv'
  <1> SUFFICES ASSUME Inv, [Next]_vars PROVE Inv'
    OBVIOUS
  <1>1. CASE UNCHANGED vars
    <2>1. Typed'
      BY <1>1 DEF Inv, Typed, Fine
    <2>2. Judged' /\ Pasted' /\ Heard' /\ Guarded'
      BY <1>1 DEF Inv, Judged, Misleading, Pasted, Heard, Guarded, HasWords, Clueless, Written
    <2>3. Honest'
      BY <1>1 DEF Inv, Honest, HasWords, Written
    <2>4. Paired' /\ Placed' /\ Timed'
      BY <1>1 DEF Inv, Paired, Placed, Timed, HasWords, Unplaced, Written
    <2>5. Corrected'
      BY <1>1 DEF Inv, Corrected, FromLrclib, Written
    <2> QED BY <2>1, <2>2, <2>3, <2>4, <2>5 DEF Inv
  <1> QED BY <1>1, LookUpsKeepInv, SecondThoughtsKeepInv, ResolveKeepsInv, SelectKeepsInv,
             PasteKeepsInv, VoteKeepsInv, PolicyKeepsInv, LlmKeepsInv DEF Next

LEMMA Always == Spec => []Inv
  BY InitInv, StepKeepsInv, PTL DEF Spec

\* The words of another song are shipped only where the transcript could not tell, and
\* never correct a transcript.
THEOREM OthersStayOut == Spec => []NotAnotherSong
  <1>1. Inv => NotAnotherSong
    BY DEF Inv, NotAnotherSong, Guarded, Honest, Shipped, Written, Typed
  <1> QED BY <1>1, Always, PTL

\* The song's own words are dropped only on a transcript that misleads, and are shipped
\* otherwise, unless the aligner could not place them.
THEOREM RightWordsStay == Spec => []RightWordsKept
  <1>1. Inv => RightWordsKept
    <2> SUFFICES ASSUME Inv, pc = "done" PROVE RightWordsKept
      BY DEF RightWordsKept
    <2>1. record.why \in {"script", "asr_disagreement"} => record.song = "theirs" \/ Misleading
      BY DEF Inv, Judged, Misleading
    <2>2. HasWords(record) /\ ~Unplaced =>
            files.txt # NoText /\ \A f \in Shipped : f.base = "lrclib"
      BY NoTextTyped DEF Inv, Placed, Written, Shipped
    <2> QED BY <2>1, <2>2 DEF RightWordsKept
  <1> QED BY <1>1, Always, PTL

\* At most one hand corrects a text, each only the kind of text that it may, and the
\* provenance tells.
THEOREM OneHandCorrects == Spec => []CorrectedByOne
  <1>1. Inv => CorrectedByOne
    <2> SUFFICES ASSUME Inv, pc = "done" PROVE CorrectedByOne
      BY DEF CorrectedByOne
    <2>1. \A f \in Shipped : f = files.lrc \/ f = files.txt
      BY DEF Shipped
    <2>2. Corrected /\ pc \in Written
      BY DEF Inv, Written
    <2>3. \A n \in {"lrc", "txt"} : files[n] = NoText => files[n].fixed = {}
      BY NoTextTyped
    <2>4. (\A f \in Shipped : f.fixed \subseteq {"vote", "llm"})
            <=> \A n \in {"lrc", "txt"} : files[n].fixed \subseteq {"vote", "llm"}
      BY <2>1, <2>3 DEF Shipped
    <2> QED BY <2>1, <2>2, <2>4 DEF Corrected, CorrectedByOne
  <1> QED BY <1>1, Always, PTL

\* The two files are one text, up to the word vote and a second pass.
THEOREM BothFilesAgree == Spec => []FilesAgree
  <1>1. Inv => FilesAgree
    BY DEF Inv, FilesAgree, Paired, Written
  <1> QED BY <1>1, Always, PTL

=============================================================================
