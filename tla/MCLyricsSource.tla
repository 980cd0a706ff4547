---------------------------- MODULE MCLyricsSource ----------------------------
EXTENDS LyricsSource

CONSTANTS t1, t2, own, canon, alien, konj, live, horse

TwoThreads == {t1, t2}

Md(a, track, dur, ca, ct, cdur, variants) ==
  [artist |-> a, track |-> track, dur |-> dur,
   cartist |-> ca, ctrack |-> ct, cdur |-> cdur, variants |-> variants]

Clip    == Md(own, {konj, live}, 100, canon, {horse}, 110, <<{konj}, {live}>>)
Single  == Md(own, {konj}, 100, None, None, None, <<>>)
Upload  == Md(own, {konj, live}, None, canon, {konj}, 110, <<{live}>>)
Bare    == Md(None, {konj}, None, None, None, None, <<>>)

SomeMetadata == {Clip, Single, Upload, Bare}
SomeSongs    == [t \in TwoThreads |-> IF t = t1 THEN SomeMetadata ELSE {Single}]

Rec(a, title, dur, body) == [artist |-> a, title |-> title, dur |-> dur, body |-> body]

SomeRecords == {
  Rec(own, {konj}, 100, "synced"),
  Rec(own, {konj}, 130, "plain"),
  Rec(canon, {konj}, 120, "synced"),
  Rec(canon, {horse}, 111, "plain"),
  Rec(alien, {konj}, 102, "synced"),
  Rec(alien, {konj}, 100, "instrumental"),
  Rec(alien, {konj}, None, "plain"),
  Rec(alien, {konj}, 100, "junk")}

NonLatinOnes == {konj}
LatinOnes    == {canon, alien}
=============================================================================
