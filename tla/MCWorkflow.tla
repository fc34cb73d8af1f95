------------------------------ MODULE MCWorkflow ------------------------------
(* Small instances of Workflow for TLC. *)
EXTENDS Workflow, TLC

\* A parameter read and its result written; a reference ahead of its step.
TwoDefinitions ==
  {<<[tool |-> "READ", arg |-> Param], [tool |-> "MODIFY", arg |-> Ref(0)]>>,
   <<[tool |-> "MODIFY", arg |-> Param], [tool |-> "READ", arg |-> Ref(1)]>>}

OneDefinition == {<<[tool |-> "READ", arg |-> Param], [tool |-> "MODIFY", arg |-> Ref(0)]>>}

\* A plan whose last tool does not exist, and one without steps.
TwoLists ==
  {<<[tool |-> "MODIFY", arg |-> Value("a")], [tool |-> "unregistered", arg |-> Ref(0)]>>,
   <<>>}

\* A plain parameter, and one that reads like a reference.
TwoInputs == {Value("a"), Ref(0)}
TwoValues == {Value("a"), Value("b")}

RunSymmetry == Permutations(Runs)
=============================================================================
