----------------------------- MODULE KnowledgeBase -----------------------------
(***************************************************************************)
(* The knowledge base (app/core/knowledge_base.py): the table kb_content   *)
(* and the callers of kb_add, kb_update and kb_delete, threads that reach  *)
(* them through call_tool.  Each `with db_cursor()` is a transaction of    *)
(* its own, and kb_update has two: kb_get, then UPDATE of all columns.     *)
(*                                                                         *)
(* A row has the three columns a caller can change; what it never changes  *)
(* (kind, created_at, embedding) is stood for by `born`, the number of its *)
(* INSERT.  The readers kb_search and kb_list_by_kind and the time of the  *)
(* last update, which only sorts their results, are left out.              *)
(*                                                                         *)
(* An operator named Bug... is a wrong version of the definition that      *)
(* follows it, to be put in its place to see which property notices.       *)
(***************************************************************************)
EXTENDS Naturals

CONSTANTS Callers,   \* threads that use the knowledge base
          Values,    \* what a caller passes for a column
          Empty,     \* the one of them that is false in Python: {} or ""
          None,      \* not passed; NULL; no row
          Patches,   \* the combinations of columns callers pass
          MaxAdds    \* bound: how many rows are ever inserted

Column == {"title", "content", "metadata"}
Ids    == 1 .. MaxAdds

ASSUME PatchesAssumption == /\ MaxAdds \in Nat
                            /\ Empty \in Values /\ None \notin Values
                            /\ None \notin [Column -> Values \cup {None}] \cup Ids
                            /\ Patches \subseteq [Column -> Values \cup {None}]

VARIABLES rows,        \* kb_content: the columns of each row
          born,        \* what a row never changes
          births,      \* the number of INSERTs, which AUTOINCREMENT remembers
          pc,          \* "write": between the two transactions of kb_update
          entry,       \* the id a caller updates
          patch,       \* the columns it passed
          existing,    \* the columns it read
          read,        \* history: and the `born` of the row
          provided,    \* history: what was last passed for each column
          overlapped,  \* history: another update wrote the row since it was read
          undone       \* history: an update that was overlapped wrote the row

update  == <<pc, entry, patch, existing>>
history == <<read, provided, overlapped, undone>>
vars    == <<rows, born, births, update, history>>

\* `json.dumps(metadata) if metadata else None` (Bug: always dumped).
BugStored(column, value) == value
Stored(column, value) == IF column = "metadata" /\ value = Empty THEN None ELSE value

\* What the columns of a new row are.
Columns(p) == [c \in Column |-> Stored(c, p[c])]

\* The columns UPDATE sets: those passed, and those read where None was passed
\* (Bug: `value or existing`, so that an empty value cannot be passed).
BugMerge(p, old) ==
  [c \in Column |-> Stored(c, IF p[c] \notin {None, Empty} THEN p[c] ELSE old[c])]
Merge(p, old) == [c \in Column |-> Stored(c, IF p[c] # None THEN p[c] ELSE old[c])]

\* INTEGER PRIMARY KEY AUTOINCREMENT (Bug: without AUTOINCREMENT, one more
\* than the greatest id in the table).
BugNewId == CHOOSE i \in Ids : /\ i > 1 => rows[i - 1] # None
                               /\ \A j \in i .. MaxAdds : rows[j] = None
NewId == births + 1

\* WHERE id = ? (Bug: INSERT OR REPLACE).
BugMatches(i) == TRUE
Matches(i)    == rows[i] # None

-----------------------------------------------------------------------------
Init == /\ rows = [i \in Ids |-> None]
        /\ born = [i \in Ids |-> 0]
        /\ births = 0
        /\ pc = [c \in Callers |-> "idle"]
        /\ entry = [c \in Callers |-> None]
        /\ patch = [c \in Callers |-> None]
        /\ existing = [c \in Callers |-> None]
        /\ read = [c \in Callers |-> 0]
        /\ provided = [i \in Ids |-> None]
        /\ overlapped = [c \in Callers |-> FALSE]
        /\ undone = [i \in Ids |-> FALSE]

\* content is NOT NULL.
kb_add(p) ==
  /\ births < MaxAdds
  /\ p["content"] # None
  /\ rows' = [rows EXCEPT ![NewId] = Columns(p)]
  /\ born' = [born EXCEPT ![NewId] = births + 1]
  /\ births' = births + 1
  /\ provided' = [provided EXCEPT ![NewId] = Columns(p)]
  /\ undone' = [undone EXCEPT ![NewId] = FALSE]
  /\ UNCHANGED <<update, read, overlapped>>

\* kb_update begins with kb_get; without a row it returns False.
kb_get(c, i, p) ==
  /\ pc[c] = "idle"
  /\ rows[i] # None
  /\ pc' = [pc EXCEPT ![c] = "write"]
  /\ entry' = [entry EXCEPT ![c] = i]
  /\ patch' = [patch EXCEPT ![c] = p]
  /\ existing' = [existing EXCEPT ![c] = rows[i]]
  /\ read' = [read EXCEPT ![c] = born[i]]
  /\ overlapped' = [overlapped EXCEPT ![c] = FALSE]
  /\ UNCHANGED <<rows, born, births, provided, undone>>

Idle(c) == /\ pc' = [pc EXCEPT ![c] = "idle"]
           /\ entry' = [entry EXCEPT ![c] = None]
           /\ patch' = [patch EXCEPT ![c] = None]
           /\ existing' = [existing EXCEPT ![c] = None]

\* The UPDATE; kb_update returns True whether or not it found the row.
kb_update(c) ==
  /\ pc[c] = "write"
  /\ LET i == entry[c] IN
     \/ /\ Matches(i)
        /\ rows' = [rows EXCEPT ![i] = Merge(patch[c], existing[c])]
        /\ provided' = [provided EXCEPT ![i] =
             [k \in Column |-> IF patch[c][k] # None THEN Stored(k, patch[c][k]) ELSE @[k]]]
        /\ undone' = [undone EXCEPT ![i] = @ \/ overlapped[c]]
        /\ overlapped' = [d \in Callers |-> d # c /\ (overlapped[d] \/ entry[d] = i)]
     \/ /\ ~Matches(i)
        /\ overlapped' = [overlapped EXCEPT ![c] = FALSE]
        /\ UNCHANGED <<rows, provided, undone>>
  /\ Idle(c)
  /\ UNCHANGED <<born, births, read>>

\* Either transaction of kb_update raises; nothing was written.
UpdateFails(c) ==
  /\ pc[c] = "write"
  /\ Idle(c)
  /\ overlapped' = [overlapped EXCEPT ![c] = FALSE]
  /\ UNCHANGED <<rows, born, births, read, provided, undone>>

\* DELETE, of a row that may not be there.
kb_delete(i) ==
  /\ rows' = [rows EXCEPT ![i] = None]
  /\ UNCHANGED <<born, births, update, history>>

Next == \/ \E p \in Patches : kb_add(p)
        \/ \E c \in Callers, i \in Ids, p \in Patches : kb_get(c, i, p)
        \/ \E c \in Callers : kb_update(c) \/ UpdateFails(c)
        \/ \E i \in Ids : kb_delete(i)

Spec == Init /\ [][Next]_vars

-----------------------------------------------------------------------------
\* Properties

Contents == {f \in [Column -> Values \cup {None}] : f["metadata"] # Empty}

TypeOK == /\ rows \in [Ids -> Contents \cup {None}]
          /\ born \in [Ids -> 0 .. MaxAdds]
          /\ births \in 0 .. MaxAdds
          /\ pc \in [Callers -> {"idle", "write"}]
          /\ entry \in [Callers -> Ids \cup {None}]
          /\ patch \in [Callers -> Patches \cup {None}]
          /\ existing \in [Callers -> Contents \cup {None}]
          /\ read \in [Callers -> 0 .. MaxAdds]
          /\ provided \in [Ids -> Contents \cup {None}]
          /\ overlapped \in [Callers -> BOOLEAN]
          /\ undone \in [Ids -> BOOLEAN]

\* A row holds what was last passed for each of its columns, by whichever call,
\* unless two updates of it overlapped.
NothingLostAlone ==
  \A i \in Ids : rows[i] # None /\ ~undone[i] => rows[i] = provided[i]

\* The row an update writes is the one it read, never a later one that got its
\* id, whatever was deleted and added between its two transactions.
WritesWhatItRead ==
  \A c \in Callers :
    pc[c] = "write" /\ rows[entry[c]] # None => born[entry[c]] = read[c]

\* A row that is deleted stays deleted, also when an update of it is under way.
DeletedForGood ==
  [][\A i \in Ids : i <= births /\ rows[i] = None => rows'[i] = None]_vars
=============================================================================
