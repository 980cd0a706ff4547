---------------------------- MODULE LyricsPromise ----------------------------
(***************************************************************************)
(* What the lyrics files of a finished job promise their readers and their *)
(* reviewers: they change as a whole unless the disk or the process fails  *)
(* amid the change, a review replaces exactly the revision its author was  *)
(* shown, and lyrics that are removed stay removed.                        *)
(***************************************************************************)
EXTENDS Naturals

CONSTANTS
  Rebuilds, Reviews,  \* the writers
  Job,                \* who wrote the lyrics first: the job's worker
  Missing             \* no such file

VARIABLES
  lyrics,             \* the writer of each file
  seen,               \* the revision that the author of a review was shown
  troubles            \* failures of the disk and kills of the process so far

pvars == <<lyrics, seen, troubles>>

Names == {"lrc", "txt", "meta", "quality"}
By(w) == [n \in Names |-> w]
Gone  == By(Missing)

\* The files of one result.  An untimed one has no lrc; an instrumental one has
\* no text of its own and the text of before stays behind.
Result(w, old) == {[By(w) EXCEPT !.lrc = l, !.txt = t] :
                     l \in {w, Missing}, t \in {w, old.txt}}

Init ==
  /\ lyrics = By(Job)
  /\ seen = [v \in Reviews |-> By(Job)]
  /\ troubles = 0

Show(v) == lyrics # Gone /\ seen' = [seen EXCEPT ![v] = lyrics] /\ UNCHANGED lyrics

Review(v) == lyrics = seen[v] /\ lyrics' = By(v) /\ UNCHANGED seen

Rebuild(r) == lyrics # Gone /\ lyrics' \in Result(r, lyrics) /\ UNCHANGED seen

\* A writer that fails half-way leaves some files of its own and some old.
Tear(w) ==
  /\ lyrics # Gone /\ troubles' > troubles
  /\ lyrics' \in [Names -> {w, Missing} \cup {lyrics[n] : n \in Names}]
  /\ \A n \in Names : lyrics'[n] \in {lyrics[n], w, Missing}
  /\ UNCHANGED seen

Remove == lyrics' = Gone /\ UNCHANGED seen

Next ==
  /\ troubles' >= troubles
  /\ \/ \E v \in Reviews : Show(v) \/ Review(v)
     \/ \E r \in Rebuilds : Rebuild(r)
     \/ \E w \in Rebuilds \cup Reviews : Tear(w)
     \/ Remove
     \/ UNCHANGED <<lyrics, seen>>

Spec == Init /\ [][Next]_pvars
=============================================================================
