------------------------------ MODULE IntentRouter ------------------------------
(***************************************************************************)
(* resolve_intent (app/router/router.py): a request becomes a tool and its *)
(* arguments by the first tier that can tell, patterns, example phrases,   *)
(* then the two LLM providers, against the registry of tools               *)
(* (app/core/registry.py), which autodiscover_tools may still be filling.  *)
(*                                                                         *)
(* A text is reduced to what the tiers see in it.  normalize_text has run. *)
(* An LLM may fail, answer what does not parse, and name anything.         *)
(*                                                                         *)
(* An operator named Bug... is a wrong version of the definition that      *)
(* follows it, to be put in its place to see which property notices.       *)
(***************************************************************************)
EXTENDS Naturals, Sequences

CONSTANTS Requests,   \* the calls of resolve_intent
          Names,      \* the names of tools, and one that no tool has
          Discovery,  \* the tools, as the walk of autodiscover_tools meets them
          Texts,      \* what is asked, a subset of Text
          None

\* compound: one of the markers is in it; hits: the patterns of tier 1 it
\* matches; near: the tools with a phrase that scores 88 or more, best first.
Text == [compound : BOOLEAN, hits : SUBSET Nat, near : Seq(Names)]

\* The built-in patterns, in the order of their registration.
Patterns == <<"ping", "echo", "kb_add", "kb_search", "calendar_list_events">>

ASSUME RouterAssumption ==
  /\ Texts \subseteq Text /\ None \notin Names
  /\ Discovery \in Seq(Names)
  /\ \A i \in DOMAIN Patterns : Patterns[i] \in Names
  /\ \A t \in Texts : t.hits \subseteq DOMAIN Patterns

\* json.loads of tool_kwargs_json may be a dict, something else, or fail.
Arguments == {"captured", "empty", "dict", "other", "unparsable"}
Decision  == [tool : Names, args : {"dict", "other", "unparsable"}]
Errors    == {"compound", "unresolved", "no_provider", "hallucinated", "bad_json"}
Outcome   == {None} \cup [error : Errors] \cup [tool : Names, args : Arguments \ {"unparsable"}]

VARIABLES discovered,  \* how far the walk has come
          text,        \* what each request says
          allowLlm,    \* its allow_llm
          pc,          \* which tier has it
          decision,    \* what an LLM decided
          outcome,     \* what the caller gets
          known        \* history: the tools there were when it began

request == <<text, allowLlm, pc, decision, outcome, known>>
vars    == <<discovered, request>>

PC == {"idle", "tier1", "tier2", "gemini", "groq", "check", "done"}

TypeOK == /\ discovered \in 0 .. Len(Discovery)
          /\ text     \in [Requests -> Texts]
          /\ allowLlm \in [Requests -> BOOLEAN]
          /\ pc       \in [Requests -> PC]
          /\ decision \in [Requests -> Decision \cup {None}]
          /\ outcome  \in [Requests -> Outcome]
          /\ known    \in [Requests -> SUBSET Names]

Init == /\ discovered = 0
        /\ text     \in [Requests -> Texts]
        /\ allowLlm \in [Requests -> BOOLEAN]
        /\ pc       = [r \in Requests |-> "idle"]
        /\ decision = [r \in Requests |-> None]
        /\ outcome  = [r \in Requests |-> None]
        /\ known    = [r \in Requests |-> {}]

Goto(r, label) == pc' = [pc EXCEPT ![r] = label]
End(r, o)      == Goto(r, "done") /\ outcome' = [outcome EXCEPT ![r] = o]
Fail(r, e)     == End(r, [error |-> e])

-----------------------------------------------------------------------------
\* _REGISTRY: what get_tool and list_tools find.
registered == {Discovery[i] : i \in 1 .. discovered}

\* The next @tool of the next module is met; nothing is taken out again, and a
\* module that cannot be imported ends the walk.
Discover == /\ discovered < Len(Discovery)
            /\ discovered' = discovered + 1
            /\ UNCHANGED request

\* Compound requests go to no tier.
Enter(r) ==
  /\ pc[r] = "idle"
  /\ known' = [known EXCEPT ![r] = registered]
  /\ IF text[r].compound THEN Fail(r, "compound") ELSE Goto(r, "tier1") /\ UNCHANGED outcome
  /\ UNCHANGED <<discovered, text, allowLlm, decision>>

\* The first pattern that matches.
Tier1(r) ==
  /\ pc[r] = "tier1"
  /\ IF text[r].hits = {}
       THEN Goto(r, "tier2") /\ UNCHANGED outcome
       ELSE \E i \in text[r].hits :
              /\ \A j \in text[r].hits : i <= j
              /\ End(r, [tool |-> Patterns[i], args |-> "captured"])
  /\ UNCHANGED <<discovered, text, allowLlm, decision, known>>

\* The index of phrases is built of the tools registered by now.
PhraseIndex(r) == {i \in DOMAIN text[r].near : text[r].near[i] \in registered}

\* Its best match, without arguments.
MatchPhrase(r) == \E i \in PhraseIndex(r) :
                    /\ \A j \in PhraseIndex(r) : i <= j
                    /\ End(r, [tool |-> text[r].near[i], args |-> "empty"])

\* (Bug: allow_llm is forgotten.)
BugTier2(r) ==
  /\ pc[r] = "tier2"
  /\ MatchPhrase(r) \/ (PhraseIndex(r) = {} /\ Goto(r, "gemini") /\ UNCHANGED outcome)
  /\ UNCHANGED <<discovered, text, allowLlm, decision, known>>
Tier2(r) ==
  /\ pc[r] = "tier2"
  /\ \/ MatchPhrase(r)
     \/ /\ PhraseIndex(r) = {}
        /\ allowLlm[r]
        /\ Goto(r, "gemini")
        /\ UNCHANGED outcome
     \/ PhraseIndex(r) = {} /\ ~allowLlm[r] /\ Fail(r, "unresolved")
  /\ UNCHANGED <<discovered, text, allowLlm, decision, known>>

\* The LLM is shown the catalog of the registered tools, and may name another.
Decide(r) == \E d \in Decision :
               /\ decision' = [decision EXCEPT ![r] = d]
               /\ Goto(r, "check")
               /\ UNCHANGED outcome

\* Whatever goes wrong with Gemini, Groq is asked.
TryGemini(r) ==
  /\ pc[r] = "gemini"
  /\ Decide(r) \/ (Goto(r, "groq") /\ UNCHANGED <<decision, outcome>>)
  /\ UNCHANGED <<discovered, text, allowLlm, known>>

TryGroq(r) ==
  /\ pc[r] = "groq"
  /\ Decide(r) \/ (Fail(r, "no_provider") /\ UNCHANGED decision)
  /\ UNCHANGED <<discovered, text, allowLlm, known>>

\* The guard against hallucinated tools, then the arguments (Bug: no guard).
BugCheckDecision(r) ==
  /\ pc[r] = "check"
  /\ IF decision[r].args = "unparsable" THEN Fail(r, "bad_json") ELSE End(r, decision[r])
  /\ UNCHANGED <<discovered, text, allowLlm, decision, known>>
CheckDecision(r) ==
  /\ pc[r] = "check"
  /\ IF decision[r].tool \notin registered THEN Fail(r, "hallucinated")
     ELSE IF decision[r].args = "unparsable" THEN Fail(r, "bad_json")
     ELSE End(r, decision[r])
  /\ UNCHANGED <<discovered, text, allowLlm, decision, known>>

Step(r) == \/ Enter(r) \/ Tier1(r) \/ Tier2(r) \/ TryGemini(r) \/ TryGroq(r)
           \/ CheckDecision(r)

Next == \/ Discover
        \/ \E r \in Requests : Step(r)

Spec == Init /\ [][Next]_vars

-----------------------------------------------------------------------------
\* Properties

Resolved(r) == outcome[r] # None /\ "tool" \in DOMAIN outcome[r]

\* A multi-step request never loses its second half to a tool that fits the
\* first; and a tool that an LLM or a phrase chose can be called by the time the
\* caller has it, even if modules are imported meanwhile.
ResolvedIsCallable ==
  \A r \in Requests : Resolved(r) =>
    /\ ~text[r].compound
    /\ outcome[r].args # "captured" => outcome[r].tool \in registered

\* An LLM has its say only where it is allowed and no cheaper tier could have
\* answered from what was registered when the request came in.
LlmIsTheLastResort ==
  \A r \in Requests : decision[r] # None =>
    /\ allowLlm[r]
    /\ text[r].hits = {}
    /\ \A i \in DOMAIN text[r].near : text[r].near[i] \notin known[r]
=============================================================================
