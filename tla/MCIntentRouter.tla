---------------------------- MODULE MCIntentRouter ----------------------------
(* Small instances of IntentRouter for TLC. *)
EXTENDS IntentRouter

MCNames   == {"ping", "echo", "kb_add", "kb_search", "calendar_list_events",
              "gmail_search", "no_such_tool"}
MCDiscovery == <<"echo", "calendar_list_events", "gmail_search", "kb_add", "kb_search", "ping">>
MCTexts   == [compound : BOOLEAN, hits : {{}, {3}, {1, 4}},
              near : {<<>>, <<"gmail_search">>, <<"kb_search", "gmail_search">>}]
=============================================================================
