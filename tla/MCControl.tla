----------------------------- MODULE MCControl -----------------------------
(* Two connections: enough to create a job and list or delete it.  A       *)
(* request is sent in two pieces, an answer longer than one is not taken   *)
(* at once, and the counter of the guids has two values.                   *)
EXTENDS Control

Ask(verb, kind, form, covered) ==
  [verb |-> verb, kind |-> kind, form |-> form, covered |-> covered]

SomeRequests ==
  { Ask("create", "extract", "good", TRUE), Ask("create", "watch", "good", TRUE),
    Ask("create", "watch", "invalid", FALSE), Ask("create", "play-audio", "good", FALSE),
    Ask("create", "play-audio", "unsound", TRUE), Ask("delete", "play-audio", "good", TRUE),
    Ask("delete", "watch", "good", TRUE), Ask("delete", "watch", "mistyped", TRUE),
    Ask("delete", "extract", "good", TRUE), Ask("list", "extract", "good", TRUE),
    Ask("info", "watch", "good", TRUE), Ask("update", "watch", "good", TRUE),
    Ask("unknown", "watch", "good", TRUE), Ask("unknown", "watch", "garbage", TRUE),
    Ask("unknown", "watch", "bare", TRUE) }
=============================================================================
