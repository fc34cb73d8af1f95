----------------------------- MODULE MCGoogleAuth -----------------------------
(* Small instances of GoogleAuth for TLC. *)
EXTENDS GoogleAuth, TLC

CONSTANTS c1, c2, t1, t2, t3

\* Two tools, each with a client of its own, one that changes something.
MCTools == {GmailSearch, CalendarDeleteEvent}

Symmetric == Permutations(Calls) \cup Permutations(Tokens)
=============================================================================
