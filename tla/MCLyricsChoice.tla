---------------------------- MODULE MCLyricsChoice ----------------------------
EXTENDS LyricsChoice

SomeSettings == {{}, {"web", "post_asr"}, Switches}
AllRunners   == {"job", "job on vast.ai", "rebuild", "paste"}
=============================================================================
