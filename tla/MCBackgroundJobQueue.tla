------------------------ MODULE MCBackgroundJobQueue ------------------------
(* Bounds of BackgroundJobQueue for TLC. *)
EXTENDS BackgroundJobQueue

(* A caller's maxAttempts: below 1, exactly 1 after rounding, and a retry. *)
Limits == {-1, 2}
=============================================================================
