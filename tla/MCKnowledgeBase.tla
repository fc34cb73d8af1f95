---------------------------- MODULE MCKnowledgeBase ----------------------------
(* Small instances of KnowledgeBase for TLC. *)
EXTENDS KnowledgeBase, TLC

\* Everything, the title only, the content and an empty metadata, nothing.
SomePatches ==
  {[title |-> "a", content |-> "a", metadata |-> "a"],
   [title |-> "b", content |-> None, metadata |-> None],
   [title |-> None, content |-> "b", metadata |-> "empty"],
   [title |-> None, content |-> None, metadata |-> None]}

CallerSymmetry == Permutations(Callers)
=============================================================================
