----------------------------- MODULE LyricsChoice -----------------------------
(***************************************************************************)
(* What becomes the lyrics of a song: the look-ups before the GPU window,  *)
(* the transcript and the alignment it brings, the second thoughts that    *)
(* the transcript gives rise to, and _resolve_lyrics, which writes the     *)
(* files.  A job and a rebuild of its lyrics run the same steps.           *)
(*                                                                         *)
(* A text is whose song it is of, what it is based on and how it is timed. *)
(* Whose song a text is of nobody tells the program; it has the transcript *)
(* to judge by, which may be too short, in another language or bad.        *)
(***************************************************************************)
EXTENDS Naturals, Sequences, FiniteSets

CONSTANTS
  Settings,     \* what may be switched on, of the names in Switches
  Runners,      \* "job" (on RunPod), "job on vast.ai", "rebuild", "paste" (a rebuild
                \* with lyrics that the owner pasted)
  MaxMisses     \* bound: answers without lyrics of the web, per song

VARIABLES
  on,         \* the settings
  runner,     \* who runs
  pc,
  canonical,  \* whether YouTube Music knew a release
  hint,       \* whether the script of the metadata tells the language
  record,     \* what LRCLIB gave, or what of it was not dropped
  second,     \* the text of Genius for the word vote
  web,        \* the reference found on the web
  sites,      \* the web sites still to be asked
  misses,
  asr,        \* the transcripts of the passes, the last one first
  aligned,    \* what the aligner of the last pass made of the text it was sent
  files,      \* lyrics.lrc and lyrics.txt
  prov        \* provenance

inputs == <<on, runner, canonical, hint>>
found  == <<record, second, web, sites, misses>>
gpu    == <<asr, aligned>>
out    == <<files, prov>>
vars   == <<on, runner, pc, canonical, hint, record, second, web, sites, misses,
            asr, aligned, files, prov>>

-----------------------------------------------------------------------------
(* Texts *)

Switches == {"vote", "web", "post_asr", "llm"}
Songs    == {"ours", "theirs"}

\* A record of LRCLIB: what it has, whose words, whether it has ten lines, whether
\* its script is the track's, and why it was rejected.
Record(has, song, long, script) ==
  [has |-> has, song |-> song, long |-> long, script |-> script, why |-> "none"]
NoRecord == Record("nothing", "ours", FALSE, TRUE)

\* What remains of a dropped record is why; whose it was only the properties read.
Dropped(r, why) == [r EXCEPT !.has = "nothing", !.why = why]

\* LyricsSource: plain text has no timing; a wrong cut comes with its words or
\* with none, and says why it was rejected.
Hits == [has : {"synced", "plain"}, song : Songs, long : BOOLEAN, script : BOOLEAN,
         why : {"none"}]
Rejections ==
  [has : {"words"}, song : Songs, long : {TRUE}, script : BOOLEAN, why : {"duration"}]
    \cup {Dropped(NoRecord, "duration")}
Answers == Hits \cup Rejections \cup {NoRecord, Record("instrumental", "ours", FALSE, TRUE)}

HasWords(r) == r.has \in {"synced", "plain", "words"}

\* A file: whose song, what it is based on, how it is timed, what corrected it.
Text(song, base, timing) == [song |-> song, base |-> base, timing |-> timing, fixed |-> {}]
NoText == Text("ours", "nothing", "none")

\* What Whisper may make of the stem: a transcript, one too short to judge by, one
\* in another language, a bad one, one with repetition loops, one without its
\* segments, or nothing.
Transcripts == {"good", "short", "foreign", "bad", "looped", "untimed", "silent"}

\* bigram_agreement of a transcript and a text: high from 0.2 on, middling from
\* 0.12, low, or none when there is too little to compare.  A transcript in another
\* language than the track's may be what is sung, and a text in another script than
\* the track's then agree with it; word pairs that are repeated in loops count each
\* time.
Agreement(t, song, script) ==
  CASE t \in {"short", "untimed", "silent"}                  -> {"none"}
    [] t = "foreign" /\ song = "ours" /\ ~script             -> {"high", "low"}
    [] t = "foreign" /\ (song = "theirs" \/ script)          -> {"low"}
    [] t = "good"    /\ song = "ours" /\ script              -> {"high"}
    [] t = "looped"  /\ song = "ours" /\ script              -> {"high", "middling", "low"}
    [] t = "bad"     /\ song = "ours" /\ script              -> {"middling", "low"}
    [] t \in {"good", "looped", "bad"} /\ (song = "theirs" \/ ~script) -> {"low"}

\* What the aligner makes of a text: nothing usable, all of its lines, a part of
\* them, or a few scraps; read by _read_aligned_lrc and reconcile_alignment.
Alignments == {"none", "full", "part", "scraps"}

\* _script_lang_hint: most letters of the title are of one telling script, or not.
Hints == BOOLEAN

\* CanonicalResolver.resolve: a release that the upload's title, artist or length
\* corroborates, or none.
Releases == BOOLEAN

\* GeniusSource.fetch: a hit shares a word with the title, no more.
GeniusAnswers == Songs \cup {"none"}

\* A site's page with four lines, whose title names the track.
Pages == Songs

\* correct_transcript: edits of single lines, or nothing: an error, no edit, or edits
\* of more than half the words.
LlmAnswers == {"edits", "nothing"}

-----------------------------------------------------------------------------
(* Before the GPU window *)

Init ==
  /\ on \in Settings /\ runner \in Runners
  /\ pc = (IF runner = "paste" THEN "gpu" ELSE "canonical")
  /\ canonical = FALSE /\ hint \in Hints
  /\ record = NoRecord /\ second = "none" /\ web = "none" /\ sites = <<>> /\ misses = 0
  /\ asr = <<>> /\ aligned = "none"
  /\ files = [lrc |-> NoText, txt |-> NoText]
  /\ prov = [source |-> "none", why |-> "none", policy |-> "none"]

Canonical ==
  /\ pc = "canonical" /\ pc' = "lrclib"
  /\ canonical' \in Releases
  /\ UNCHANGED <<on, runner, hint, found, gpu, out>>

\* A record whose text is in another script than the track's language.
ScriptGate(r) == IF hint /\ HasWords(r) /\ ~r.script THEN Dropped(r, "script") ELSE r

LookUp ==
  /\ pc = "lrclib"
  /\ \E r \in Answers : record' = ScriptGate(r)
  /\ pc' = IF HasWords(record') THEN (IF "vote" \in on THEN "genius" ELSE "gpu")
           ELSE IF record'.has = "nothing" /\ "web" \in on THEN "web" ELSE "gpu"
  /\ sites' = IF pc' = "web"
              THEN (IF canonical THEN <<"ytmusic", "genius", "genius", "tab4u">>
                                 ELSE <<"genius", "tab4u">>)
              ELSE <<>>
  /\ UNCHANGED <<inputs, second, web, misses, gpu, out>>

\* The second reference of the word vote.
Genius ==
  /\ pc = "genius" /\ pc' = "gpu"
  /\ second' \in GeniusAnswers
  /\ UNCHANGED <<inputs, record, web, sites, misses, gpu, out>>

\* WebReferenceFinder.find: the lyrics of the release, Genius under the Latin and
\* the own name of the artist, tab4u; the first that has four lines.
AskSite ==
  /\ pc = "web"
  /\ \/ web' \in Pages /\ sites' = <<>> /\ pc' = "gpu"
     \/ sites' = Tail(sites) /\ UNCHANGED web
        /\ pc' = IF Len(sites) = 1 THEN "gpu" ELSE "web"
  /\ UNCHANGED <<inputs, record, second, misses, gpu, out>>

-----------------------------------------------------------------------------
(* The GPU window, and what the transcript gives rise to *)

\* The text is sent along, if there is one and the backend is RunPod.
Window ==
  /\ pc = "gpu"
  /\ \E t \in Transcripts : asr' = <<t>>
  /\ aligned' \in IF (HasWords(record) /\ runner # "job on vast.ai") \/ runner = "paste"
                  THEN Alignments ELSE {"none"}
  /\ pc' = IF runner = "paste" THEN "paste"
           ELSE IF record.has = "nothing" /\ "post_asr" \in on THEN "identify" ELSE "resolve"
  /\ UNCHANGED <<inputs, found, out>>

\* _confident_asr_lines: any transcript with segments may have a line to search for.
Confident == asr[1] \notin {"untimed", "silent"}

\* identify_by_text: some site quotes one of the first two lines.
Identifiable == Confident /\ "web" \in on

\* _POST_ASR_MIN_AGREEMENT
Enough(a) == a = "high"

\* _post_asr_lookup: titles from the web for the first lines, LRCLIB by title and
\* duration, and the agreement of what it has with the transcript.  A hit is
\* aligned in a second pass, on RunPod.
Identify ==
  /\ pc = "identify"
  /\ \/ /\ Identifiable
        /\ \E hit \in Hits, a \in {"high", "middling", "low", "none"} :
             /\ a \in Agreement(asr[1], hit.song, hit.script)
             /\ IF Enough(a) /\ runner # "job on vast.ai"
                THEN record' = hit /\ pc' = "realign"
                ELSE pc' = "quote" /\ UNCHANGED record
     \/ pc' = "quote" /\ UNCHANGED record
  /\ UNCHANGED <<inputs, second, web, sites, misses, gpu, out>>

Realign ==
  /\ pc = "realign" /\ pc' = "resolve"
  /\ \E t \in Transcripts : asr' = <<t>> \o asr
  /\ aligned' \in Alignments
  /\ UNCHANGED <<inputs, found, out>>

\* find_by_text for each line, if the web has not given anything yet.
Quote ==
  /\ pc = "quote"
  /\ IF web = "none" /\ "web" \in on /\ Confident
     THEN \/ web' \in Pages /\ pc' = "resolve" /\ UNCHANGED misses
          \/ misses < MaxMisses /\ misses' = misses + 1 /\ UNCHANGED <<web, pc>>
          \/ pc' = "resolve" /\ UNCHANGED <<web, misses>>
     ELSE pc' = "resolve" /\ UNCHANGED <<web, misses>>
  /\ UNCHANGED <<inputs, record, second, sites, gpu, out>>

-----------------------------------------------------------------------------
(* _resolve_lyrics *)

\* Seeded fault: any agreement will do.
GuardOff(r, a) == r

\* Seeded fault: a transcript in another language is evidence against the words.
GuardHearsForeign(r, a) ==
  IF HasWords(r) /\ a = "low" THEN Dropped(r, "asr_disagreement") ELSE r

\* The wrong-song guard: the transcript, if it is in the language of the track,
\* has to share some word pairs with the text.
Guard(r, a) ==
  IF HasWords(r) /\ ~(hint /\ asr[1] = "foreign") /\ a = "low"
  THEN Dropped(r, "asr_disagreement") ELSE r

ResolveGuard ==
  /\ pc = "resolve" /\ pc' = "select"
  /\ \E a \in Agreement(asr[1], record.song, record.script) : record' = Guard(record, a)
  /\ aligned' = IF record'.has = "nothing" THEN "none" ELSE aligned
  /\ UNCHANGED <<inputs, second, web, sites, misses, asr, out>>

\* Whether the lines agree on an offset (estimate_lrclib_offset), which takes nearly
\* every line, and whether enough of them then lie within the drift
\* (merge_lrclib_word_tags): TimingMerge tells from the times, here either may be.
Shifts == IF aligned = "full" THEN BOOLEAN ELSE {FALSE}

\* The coverage gate, for ten lines or more.
Misfit(covered) == aligned # "none" /\ record.long /\ ~covered

\* What the aligner kept is a fair share of the record.
Faithful == aligned \in {"full", "part"}

Ship(lrc, txt, source, why) ==
  /\ files' = [lrc |-> lrc, txt |-> txt]
  /\ prov' = [source |-> source, why |-> why, policy |-> "none"]

\* The transcript; of two passes lyrics.txt is that of the first and lyrics.lrc of
\* the last, but for a last one with loops.
Floor(why) ==
  LET last  == Len(asr)
      timed == asr[1] \notin {"untimed", "silent"}
      of(n) == Text("ours", IF n = 1 THEN "asr" ELSE "second asr", "none")
  IN  Ship(IF timed THEN [of(last) EXCEPT !.timing = "asr"] ELSE NoText,
           of(IF asr[1] = "looped" THEN last ELSE 1),
           IF timed THEN "whisper_asr_synced" ELSE "whisper_asr", why)

Curated(timing) == Text(record.song, "lrclib", timing)

SelectSynced ==
  /\ record.has = "synced"
  /\ \E covered \in BOOLEAN, shifted \in Shifts :
       CASE ~Misfit(covered) ->
              Ship(Curated(IF shifted THEN "shifted" ELSE "lrclib"), Curated("none"),
                   "lrclib_synced", "none")
         [] Misfit(covered) /\ Faithful ->
              Ship(Curated("aligned"), Curated("none"), "forced_aligned", "coverage")
         [] Misfit(covered) /\ ~Faithful -> Floor("coverage")

SelectPlain ==
  /\ record.has = "plain"
  /\ IF aligned # "none"
     THEN Ship(Curated("aligned"), Curated("none"), "forced_aligned", "none")
     ELSE Ship(NoText, Curated("none"), "lrclib_plain", "none")

\* Without a lyrics.txt: a rebuild then leaves the one of before.
SelectInstrumental ==
  /\ record.has = "instrumental"
  /\ Ship(NoText, NoText, "instrumental", "none")

SelectWords ==
  /\ record.has = "words"
  /\ IF aligned # "none"
     THEN Ship(Curated("aligned"), Curated("none"), "forced_aligned", record.why)
     ELSE Floor(record.why)

SelectFloor == record.has = "nothing" /\ Floor(record.why)

\* merge_reference_with_asr: the owner's words where they could be aligned, the
\* transcript elsewhere; without any alignment the rebuild fails.
Paste ==
  /\ pc = "paste"
  /\ IF aligned = "none"
     THEN pc' = "failed" /\ UNCHANGED out
     ELSE /\ pc' = "done"
          /\ Ship(Text("ours", "paste", "aligned"), Text("ours", "paste", "none"),
                  "manual_reference", "none")
  /\ UNCHANGED <<inputs, found, gpu>>

\* _select_lyrics, in the order of precedence.
Select ==
  /\ pc = "select" /\ pc' = "vote"
  /\ SelectSynced \/ SelectPlain \/ SelectInstrumental \/ SelectWords \/ SelectFloor
  /\ UNCHANGED <<inputs, found, gpu>>

\* lrc_to_plain
Plain(text) == [text EXCEPT !.timing = "none"]

FromLrclib == prov.source \in {"lrclib_synced", "lrclib_plain", "forced_aligned"}

\* Seeded fault: only the timed file is written.
FixTimed(by, which, fs) ==
  [n \in DOMAIN fs |-> IF n = "lrc" /\ fs[n] # NoText THEN [fs[n] EXCEPT !.fixed = @ \cup {by}]
                       ELSE fs[n]]

\* Files rewritten in place.
Fix(by, which, fs) ==
  [n \in DOMAIN fs |-> IF n \in which /\ fs[n] # NoText
                       THEN [fs[n] EXCEPT !.fixed = @ \cup {by}] ELSE fs[n]]

\* The words that the two references disagree about, settled by the transcript: of
\* each file by itself, a timed line by the words sung near it.
Vote ==
  /\ pc = "vote" /\ pc' = "policy"
  /\ IF second # "none" /\ FromLrclib
     THEN \E which \in SUBSET DOMAIN files : files' = Fix("vote", which, files)
     ELSE UNCHANGED files
  /\ UNCHANGED <<inputs, found, gpu, prov>>

WebOf(song) == IF song = "theirs" THEN "web of theirs" ELSE "web of ours"

\* _REFERENCE_MIN_AGREEMENT
Corrects(a) == a \in {"high", "middling"}

\* Seeded fault: the provenance of a corrected transcript stays the transcript's.
PolicyUnrecorded ==
  /\ pc = "policy" /\ pc' = "llm"
  /\ IF prov.source = "whisper_asr_synced" /\ web # "none"
     THEN \E script \in BOOLEAN : \E a \in Agreement(asr[1], web, script) :
            IF Corrects(a)
            THEN LET lrc == [files.lrc EXCEPT !.fixed = {WebOf(web)}]
                 IN  files' = [lrc |-> lrc, txt |-> Plain(lrc)]
            ELSE UNCHANGED files
     ELSE UNCHANGED files
  /\ UNCHANGED <<inputs, found, gpu, prov>>

\* _apply_reference_policy: the web's words correct a timed transcript they agree
\* with, line by line.
Policy ==
  /\ pc = "policy" /\ pc' = "llm"
  /\ IF prov.source = "whisper_asr_synced" /\ web # "none"
     THEN \E script \in BOOLEAN : \E a \in Agreement(asr[1], web, script) :
            IF Corrects(a)
            THEN /\ LET lrc == [files.lrc EXCEPT !.fixed = {WebOf(web)}]
                    IN  files' = [lrc |-> lrc, txt |-> Plain(lrc)]
                 /\ prov' = [prov EXCEPT !.source = "asr_reference_corrected",
                                         !.policy = "asr_base_reference_words"]
            ELSE UNCHANGED out
     ELSE UNCHANGED out
  /\ UNCHANGED <<inputs, found, gpu>>

\* _apply_llm_correction: of what is the transcript alone.
Llm ==
  /\ pc = "llm" /\ pc' = "done"
  /\ IF /\ "llm" \in on /\ hint /\ asr[1] # "silent"
        /\ prov.source \in {"whisper_asr_synced", "whisper_asr"}
     THEN \E answer \in LlmAnswers :
            files' = IF answer = "nothing" THEN files
                     ELSE Fix("llm", DOMAIN files,
                              [files EXCEPT !.txt = IF files.lrc = NoText THEN @ ELSE Plain(files.lrc)])
     ELSE UNCHANGED files
  /\ UNCHANGED <<inputs, found, gpu, prov>>

Next ==
  \/ Canonical \/ LookUp \/ Genius \/ AskSite
  \/ Window \/ Identify \/ Realign \/ Quote
  \/ Paste \/ ResolveGuard \/ Select \/ Vote \/ Policy \/ Llm

Spec == Init /\ [][Next]_vars

-----------------------------------------------------------------------------
(* Properties *)

Shipped == {files.lrc, files.txt} \ {NoText}

TypeOK ==
  /\ on \subseteq Switches /\ runner \in Runners
  /\ pc \in {"canonical", "lrclib", "genius", "web", "gpu", "identify", "realign", "quote",
             "paste", "resolve", "select", "vote", "policy", "llm", "done", "failed"}
  /\ record.has \in {"synced", "plain", "words", "instrumental", "nothing"}
  /\ record.song \in Songs
  /\ second \in Songs \cup {"none"} /\ web \in Songs \cup {"none"}
  /\ Len(asr) <= 2 /\ \A i \in 1..Len(asr) : asr[i] \in Transcripts
  /\ aligned \in Alignments
  /\ \A f \in {files.lrc, files.txt} :
       f.song \in Songs /\ f.base \in {"nothing", "lrclib", "asr", "second asr", "paste"}
  /\ files.txt.timing = "none"

\* The transcript that the lyrics were judged by could not tell.
Clueless == asr[1] \in {"short", "untimed", "silent"} \/ (hint /\ asr[1] = "foreign")

\* The words of another song are never shipped where the transcript could tell, and
\* never correct a transcript: the wrong-song guard, on the metadata's records and
\* on those found from the transcript, and the bar of the web references (#281).
NotAnotherSong ==
  pc = "done" =>
    /\ \A f \in Shipped : f.song = "theirs" => Clueless
    /\ \A f \in Shipped : "web of theirs" \notin f.fixed

\* The transcript speaks against words that are right: it is bad, repeats itself, or is
\* in another language than the track where nothing tells so, or than the words.
Misleading ==
  asr[1] \in {"bad", "looped"} \/ (asr[1] = "foreign" /\ ~hint) \/ ~record.script

\* The aligner has left scraps of a timed record, or nothing of words whose timing is
\* of another cut.
Unplaced ==
  \/ record.has = "synced" /\ record.long /\ aligned = "scraps"
  \/ record.has = "words" /\ aligned = "none"

\* The gates that keep wrong words out do not lose right ones: the words of the song
\* are dropped only on a transcript that misleads, never on one that cannot tell (a
\* wrong-language decode is "not evidence against the reference"), and words that no
\* gate dropped are shipped whatever their timing is worth (#253), unless the aligner
\* could not place them.
RightWordsKept ==
  pc = "done" =>
    /\ record.why \in {"script", "asr_disagreement"} => record.song = "theirs" \/ Misleading
    /\ HasWords(record) /\ ~Unplaced =>
         files.txt # NoText /\ \A f \in Shipped : f.base = "lrclib"

\* A text is corrected by one hand at most: the vote of a second reference only where
\* the words are LRCLIB's, the web's words only the transcript, and the language model
\* only a transcript with "no reference anywhere"; a reference fetched for a
\* record that was dropped since corrects nothing, and the provenance tells who did.
CorrectedByOne ==
  pc = "done" =>
    /\ \A f \in Shipped :
         /\ f.fixed \in {{}, {"vote"}, {"llm"}, {"web of ours"}, {"web of theirs"}}
         /\ f.base = "lrclib" => f.fixed \subseteq {"vote"}
         /\ f.base # "lrclib" => "vote" \notin f.fixed
         /\ f.base = "paste"  => f.fixed = {}
    /\ prov.policy = "none" <=> \A f \in Shipped : f.fixed \subseteq {"vote", "llm"}

\* lyrics.txt and lyrics.lrc are the same text with the same corrections, [speech]
\* lines aside.  The word vote is an exception, each file's by itself, and so is the floor
\* after a second pass: pipeline.py takes its lyrics.txt of the first.
FilesAgree ==
  pc = "done" /\ files.lrc # NoText =>
    /\ files.lrc.song = files.txt.song /\ files.lrc.fixed \ {"vote"} = files.txt.fixed \ {"vote"}
    /\ Len(asr) = 1 => files.lrc.base = files.txt.base

=============================================================================
