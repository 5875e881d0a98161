----------------------------- MODULE MCLiveTags -----------------------------
(* A small instance of LiveTags: one category (group calls for
   two are independent), which may be muted. *)
EXTENDS LiveTags

CONSTANT a

MuteOrRelevel == {[muted |-> {a}], [level |-> "high"]}
SomeOrNone == {{}, {a}}
=============================================================================
