------------------------- MODULE MCSubtitleInputPin -------------------------
(* Small instances of SubtitleInputPin: symmetric callers.                  *)
EXTENDS SubtitleInputPin, TLC

Callers == Permutations(Caller)
=============================================================================
