------------------------------ MODULE MCBotCalls ------------------------------
(* Small instances of BotCalls for TLC. *)
EXTENDS BotCalls

CONSTANTS c1, c2

\* Two taps on one message; the handling of the first may fail.
TwoTaps == {<<c1, 1>>, <<c1, 2>>}
FirstTap == {<<c1, 1>>}
=============================================================================
