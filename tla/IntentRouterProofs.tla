-------------------------- MODULE IntentRouterProofs --------------------------
(***************************************************************************)
(* Proofs about IntentRouter for any requests, texts and order of          *)
(* discovery.                                                              *)
(***************************************************************************)
EXTENDS IntentRouter, TLAPS

\* What is known of a request at each tier.
Passed(r) ==
  /\ pc[r] = "idle" => outcome[r] = None /\ decision[r] = None
  /\ pc[r] \in PC \ {"idle", "done"} => ~text[r].compound /\ outcome[r] = None
  /\ pc[r] \in {"tier2", "gemini", "groq", "check"} => text[r].hits = {}
  /\ pc[r] \in {"gemini", "groq", "check"} =>
       /\ allowLlm[r]
       /\ \A i \in DOMAIN text[r].near : text[r].near[i] \notin known[r]
  /\ pc[r] \in {"tier1", "tier2", "gemini", "groq"} => decision[r] = None
  /\ pc[r] = "check" => decision[r] \in Decision
  /\ known[r] \subseteq registered

IInv == /\ TypeOK
        /\ \A r \in Requests : Passed(r)
        /\ ResolvedIsCallable
        /\ LlmIsTheLastResort

\* Nothing leaves the registry.
LEMMA RegistryGrows ==
  ASSUME discovered \in Nat, discovered' \in Nat, discovered' >= discovered
  PROVE  registered \subseteq registered'
  BY DEF registered

LEMMA TypeInit == Init => TypeOK
  BY RouterAssumption DEF Init, TypeOK, PC, Outcome

\* The outcomes the tiers end with.
LEMMA OutcomeTypes ==
  /\ \A e \in Errors : [error |-> e] \in Outcome
  /\ \A n \in Names : [tool |-> n, args |-> "captured"] \in Outcome
  /\ \A n \in Names : [tool |-> n, args |-> "empty"] \in Outcome
  /\ \A d \in Decision : d.args # "unparsable" => d \in Outcome
  BY DEF Outcome, Arguments, Decision

LEMMA TypeStep == TypeOK /\ (\A r \in Requests : Passed(r)) /\ [Next]_vars => TypeOK'
<1> SUFFICES ASSUME TypeOK, \A r \in Requests : Passed(r), [Next]_vars PROVE TypeOK'
    OBVIOUS
<1> USE DEF TypeOK
<1>1. CASE UNCHANGED vars
  BY <1>1 DEF vars, request
<1>2. CASE Discover
  BY <1>2, RouterAssumption DEF Discover, request
<1>3. ASSUME NEW r \in Requests, Enter(r) PROVE TypeOK'
  <2>1. known' \in [Requests -> SUBSET Names]
    BY <1>3, RouterAssumption DEF Enter, registered
  <2> QED BY <1>3, <2>1, OutcomeTypes DEF Enter, Fail, End, Goto, PC, Errors
<1>4. ASSUME NEW r \in Requests, Tier1(r) PROVE TypeOK'
  <2>1. CASE text[r].hits = {}
    BY <1>4, <2>1 DEF Tier1, Goto, PC
  <2>2. CASE text[r].hits # {}
    <3>1. PICK i \in text[r].hits : End(r, [tool |-> Patterns[i], args |-> "captured"])
      BY <1>4, <2>2 DEF Tier1
    <3>2. Patterns[i] \in Names
      BY <1>4, RouterAssumption
    <3> QED BY <1>4, <3>1, <3>2, OutcomeTypes DEF Tier1, End, Goto, PC
  <2> QED BY <2>1, <2>2
<1>5. ASSUME NEW r \in Requests, Tier2(r) PROVE TypeOK'
  <2>1. CASE MatchPhrase(r)
    <3>1. PICK i \in PhraseIndex(r) : End(r, [tool |-> text[r].near[i], args |-> "empty"])
      BY <2>1 DEF MatchPhrase
    <3>2. text[r].near[i] \in Names
      BY <3>1, RouterAssumption DEF PhraseIndex, Text
    <3> QED BY <1>5, <3>1, <3>2, OutcomeTypes DEF Tier2, End, Goto, PC
  <2>2. CASE ~MatchPhrase(r)
    BY <1>5, <2>2, OutcomeTypes DEF Tier2, Fail, End, Goto, PC, Errors
  <2> QED BY <2>1, <2>2
<1>6. ASSUME NEW r \in Requests, TryGemini(r) PROVE TypeOK'
  BY <1>6 DEF TryGemini, Decide, Goto, PC
<1>7. ASSUME NEW r \in Requests, TryGroq(r) PROVE TypeOK'
  BY <1>7, OutcomeTypes DEF TryGroq, Decide, Fail, End, Goto, PC, Errors
<1>8. ASSUME NEW r \in Requests, CheckDecision(r) PROVE TypeOK'
  <2>1. decision[r] \in Decision
    BY <1>8 DEF Passed, CheckDecision
  <2> QED BY <1>8, <2>1, OutcomeTypes DEF CheckDecision, Fail, End, Goto, PC, Errors
<1> QED BY <1>1, <1>2, <1>3, <1>4, <1>5, <1>6, <1>7, <1>8 DEF Next, Step

LEMMA InvInit == Init => IInv
  BY TypeInit DEF Init, IInv, Passed, PC, ResolvedIsCallable, Resolved, LlmIsTheLastResort

\* What a step of r leaves alone.
OthersKept(r) == \A q \in Requests \ {r} :
  /\ text'[q] = text[q] /\ allowLlm'[q] = allowLlm[q] /\ pc'[q] = pc[q]
  /\ decision'[q] = decision[q] /\ outcome'[q] = outcome[q] /\ known'[q] = known[q]

LEMMA StepKeepsOthers ==
  ASSUME TypeOK, NEW r \in Requests, Step(r)
  PROVE  /\ OthersKept(r) /\ discovered' = discovered
         /\ text' = text /\ allowLlm' = allowLlm
  BY DEF TypeOK, OthersKept, Step, Enter, Tier1, Tier2, MatchPhrase, TryGemini, TryGroq,
         CheckDecision, Decide, Fail, End, Goto

\* The three facts about one request.
Mine(r) == /\ Passed(r)
           /\ Resolved(r) => /\ ~text[r].compound
                             /\ outcome[r].args # "captured" => outcome[r].tool \in registered
           /\ decision[r] # None => /\ allowLlm[r]
                                    /\ text[r].hits = {}
                                    /\ \A i \in DOMAIN text[r].near : text[r].near[i] \notin known[r]

LEMMA InvIsMine == IInv <=> TypeOK /\ \A r \in Requests : Mine(r)
  BY DEF IInv, Mine, ResolvedIsCallable, LlmIsTheLastResort

LEMMA StepKeepsMine ==
  ASSUME IInv, NEW r \in Requests, Step(r), registered' = registered
  PROVE  Mine(r)'
<1>0. TypeOK /\ Mine(r) /\ text' = text /\ allowLlm' = allowLlm
  BY InvIsMine, StepKeepsOthers
<1> USE DEF TypeOK, Mine, Passed, Resolved, Goto, End, Fail
<1>1. CASE Enter(r)
  BY <1>0, <1>1 DEF Enter, PC
<1>2. CASE Tier1(r)
  <2>1. CASE text[r].hits = {}
    BY <1>0, <1>2, <2>1 DEF Tier1, PC
  <2>2. CASE text[r].hits # {}
    BY <1>0, <1>2, <2>2 DEF Tier1, PC
  <2> QED BY <2>1, <2>2
<1>3. CASE Tier2(r)
  <2>1. CASE MatchPhrase(r)
    BY <1>0, <1>3, <2>1 DEF Tier2, MatchPhrase, PhraseIndex, PC
  <2>2. CASE ~MatchPhrase(r)
    BY <1>0, <1>3, <2>2 DEF Tier2, PhraseIndex, PC
  <2> QED BY <2>1, <2>2
<1>4. CASE TryGemini(r)
  BY <1>0, <1>4 DEF TryGemini, Decide, PC
<1>5. CASE TryGroq(r)
  BY <1>0, <1>5 DEF TryGroq, Decide, PC
<1>6. CASE CheckDecision(r)
  BY <1>0, <1>6 DEF CheckDecision, PC, Decision
<1> QED BY <1>1, <1>2, <1>3, <1>4, <1>5, <1>6 DEF Step

LEMMA InvStep == IInv /\ [Next]_vars => IInv'
<1> SUFFICES ASSUME IInv, [Next]_vars PROVE IInv'
    OBVIOUS
<1>0. TypeOK'
  BY TypeStep DEF IInv
<1>1. CASE UNCHANGED vars
  <2>1. ASSUME NEW r \in Requests PROVE Mine(r)'
    BY <1>1, InvIsMine DEF vars, request, Mine, Passed, Resolved, registered
  <2> QED BY <1>0, <2>1 DEF IInv, Mine, ResolvedIsCallable, LlmIsTheLastResort
<1>2. CASE Discover
  <2>1. registered \subseteq registered'
    BY <1>2, RegistryGrows DEF Discover, IInv, TypeOK
  <2>2. UNCHANGED <<text, allowLlm, pc, decision, outcome, known>>
    BY <1>2 DEF Discover, request
  <2>3. ASSUME NEW r \in Requests PROVE Mine(r)'
    BY <2>1, <2>2, InvIsMine DEF Mine, Passed, Resolved
  <2> QED BY <1>0, <2>3 DEF IInv, Mine, ResolvedIsCallable, LlmIsTheLastResort
<1>3. ASSUME NEW r \in Requests, Step(r) PROVE IInv'
  <2>1. OthersKept(r) /\ registered' = registered
    BY <1>3, StepKeepsOthers DEF IInv, registered
  <2>2. Mine(r)'
    BY <1>3, <2>1, StepKeepsMine
  <2>3. ASSUME NEW q \in Requests \ {r} PROVE Mine(q)'
    BY <2>1, InvIsMine DEF OthersKept, Mine, Passed, Resolved
  <2> QED BY <1>0, <2>2, <2>3 DEF IInv, Mine, ResolvedIsCallable, LlmIsTheLastResort
<1> QED BY <1>1, <1>2, <1>3 DEF Next

LEMMA Invariance == Spec => []IInv
  BY InvInit, InvStep, PTL DEF Spec

\* Requests, decisions and outcomes keep their types.
THEOREM TypeCorrect == Spec => []TypeOK
  BY Invariance, PTL DEF IInv

\* A multi-step request is never resolved to one tool, and what a phrase or a
\* language model chose can be called, however far the discovery has come.
THEOREM ResolvedCanBeCalled == Spec => []ResolvedIsCallable
  BY Invariance, PTL DEF IInv

\* A language model decides only where it may, and where no pattern and no phrase
\* of a tool that was there could have.
THEOREM ModelsComeLast == Spec => []LlmIsTheLastResort
  BY Invariance, PTL DEF IInv
=============================================================================
