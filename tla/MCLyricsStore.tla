---------------------------- MODULE MCLyricsStore ----------------------------
EXTENDS LyricsStore

CONSTANTS r1, r2, v1

TwoRebuilds == {r1, r2}
OneRebuildOnly == {r1}
OneReview   == {v1}
=============================================================================
