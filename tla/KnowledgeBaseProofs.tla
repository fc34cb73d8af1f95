-------------------------- MODULE KnowledgeBaseProofs --------------------------
(***************************************************************************)
(* Proofs about KnowledgeBase for any callers, patches and number of rows. *)
(***************************************************************************)
EXTENDS KnowledgeBase, TLAPS

-----------------------------------------------------------------------------
\* The inductive invariant.

\* Ids above the counter have never been used.
Unused == \A i \in Ids : i > births => rows[i] = None

\* A caller between its two transactions holds what the row still is, unless
\* the row was deleted or written since; its id cannot be given again.
Holds(c) ==
  /\ pc[c] = "idle" => entry[c] = None /\ ~overlapped[c]
  /\ pc[c] = "write" =>
       /\ entry[c] \in Ids /\ entry[c] <= births
       /\ patch[c] # None /\ existing[c] # None
       /\ read[c] = born[entry[c]]
       /\ rows[entry[c]] # None /\ ~overlapped[c] => existing[c] = rows[entry[c]]

IInv == /\ TypeOK
        /\ Unused
        /\ \A c \in Callers : Holds(c)
        /\ \A i \in Ids : rows[i] # None => provided[i] # None
        /\ NothingLostAlone

-----------------------------------------------------------------------------
\* A new row holds contents.
LEMMA ColumnsType ==
  ASSUME NEW p \in Patches
  PROVE  Columns(p) \in Contents
<1>1. p \in [Column -> Values \cup {None}] /\ Empty \in Values /\ Empty # None
  BY PatchesAssumption
<1> QED BY <1>1 DEF Columns, Stored, Contents, Column

\* What an update writes is again contents of a row, and to write back what was
\* read changes nothing.
LEMMA StoredType ==
  ASSUME NEW p \in Patches, NEW old \in Contents
  PROVE  /\ Merge(p, old) \in Contents
         /\ \A k \in Column : Stored(k, old[k]) = old[k]
<1>1. p \in [Column -> Values \cup {None}] /\ Empty \in Values /\ Empty # None
  BY PatchesAssumption
<1> QED BY <1>1 DEF Merge, Stored, Contents, Column

LEMMA NotNone == None \notin Contents \cup Patches
BY PatchesAssumption DEF Contents

LEMMA TypeInit == Init => TypeOK
BY PatchesAssumption DEF Init, TypeOK

\* What an update records as passed is again a row's contents.
LEMMA ProvidedType ==
  ASSUME NEW p \in Patches, NEW old \in Contents
  PROVE  [k \in Column |-> IF p[k] # None THEN Stored(k, p[k]) ELSE old[k]] \in Contents
<1>1. p \in [Column -> Values \cup {None}] /\ Empty \in Values /\ Empty # None
  BY PatchesAssumption
<1> QED BY <1>1 DEF Stored, Contents, Column

\* The id of a new row is one that was never used.
LEMMA NewIdIsFresh ==
  ASSUME TypeOK, births < MaxAdds
  PROVE  NewId \in Ids /\ NewId = births + 1 /\ births \in Nat
BY PatchesAssumption DEF TypeOK, NewId, Ids

LEMMA TypeStep == IInv /\ [Next]_vars => TypeOK'
<1> SUFFICES ASSUME IInv, [Next]_vars PROVE TypeOK'
    OBVIOUS
<1>0. TypeOK /\ (\A c \in Callers : Holds(c)) /\ \A i \in Ids : rows[i] # None => provided[i] # None
  BY DEF IInv
<1> USE DEF update, history, Idle
<1>1. CASE UNCHANGED vars
  BY <1>0, <1>1 DEF vars, TypeOK
<1>2. ASSUME NEW p \in Patches, kb_add(p) PROVE TypeOK'
  <2>1. NewId \in Ids /\ births + 1 \in 0 .. MaxAdds
    BY <1>0, <1>2, NewIdIsFresh, PatchesAssumption DEF kb_add, TypeOK
  <2> QED BY <1>0, <1>2, <2>1, ColumnsType DEF kb_add, TypeOK
<1>3. ASSUME NEW c \in Callers, NEW i \in Ids, NEW p \in Patches, kb_get(c, i, p) PROVE TypeOK'
  BY <1>0, <1>3 DEF kb_get, TypeOK
<1>4. ASSUME NEW c \in Callers, kb_update(c) PROVE TypeOK'
  <2>1. CASE Matches(entry[c])
    <3>1. entry[c] \in Ids /\ patch[c] \in Patches /\ existing[c] \in Contents
      BY <1>0, <1>4 DEF kb_update, Holds, TypeOK
    <3>2. provided[entry[c]] \in Contents
      BY <1>0, <2>1, <3>1 DEF Matches, TypeOK
    <3>3. Merge(patch[c], existing[c]) \in Contents
      BY <3>1, StoredType
    <3>4. [k \in Column |-> IF patch[c][k] # None THEN Stored(k, patch[c][k])
                                                 ELSE provided[entry[c]][k]] \in Contents
      BY <3>1, <3>2, ProvidedType
    <3>5. rows' \in [Ids -> Contents \cup {None}] /\ provided' \in [Ids -> Contents \cup {None}]
      BY <1>0, <1>4, <2>1, <3>1, <3>3, <3>4 DEF kb_update, TypeOK
    <3>6. undone' \in [Ids -> BOOLEAN] /\ overlapped' \in [Callers -> BOOLEAN]
      BY <1>0, <1>4, <2>1, <3>1 DEF kb_update, TypeOK
    <3> QED BY <1>0, <1>4, <3>5, <3>6 DEF kb_update, TypeOK
  <2>2. CASE ~Matches(entry[c])
    BY <1>0, <1>4, <2>2 DEF kb_update, TypeOK
  <2> QED BY <2>1, <2>2
<1>5. ASSUME NEW c \in Callers, UpdateFails(c) PROVE TypeOK'
  BY <1>0, <1>5 DEF UpdateFails, TypeOK
<1>6. ASSUME NEW i \in Ids, kb_delete(i) PROVE TypeOK'
  BY <1>0, <1>6 DEF kb_delete, TypeOK
<1> QED BY <1>1, <1>2, <1>3, <1>4, <1>5, <1>6 DEF Next

-----------------------------------------------------------------------------
LEMMA InvInit == Init => IInv
BY TypeInit DEF Init, IInv, Unused, Holds, NothingLostAlone

LEMMA InvStep == IInv /\ [Next]_vars => IInv'
<1> SUFFICES ASSUME IInv, [Next]_vars
             PROVE  /\ Unused' /\ NothingLostAlone'
                    /\ \A d \in Callers : Holds(d)'
                    /\ \A i \in Ids : rows'[i] # None => provided'[i] # None
    BY TypeStep DEF IInv
<1> DEFINE Goal == /\ Unused' /\ NothingLostAlone'
                   /\ \A d \in Callers : Holds(d)'
                   /\ \A i \in Ids : rows'[i] # None => provided'[i] # None
<1>0. /\ TypeOK /\ Unused /\ NothingLostAlone /\ (\A c \in Callers : Holds(c))
      /\ \A i \in Ids : rows[i] # None => provided[i] # None
  BY DEF IInv
<1> USE DEF update, history, Idle
<1>1. CASE UNCHANGED vars
  BY <1>0, <1>1 DEF vars, Unused, NothingLostAlone, Holds
<1>2. ASSUME NEW p \in Patches, kb_add(p) PROVE Goal
  <2>1. NewId \in Ids /\ NewId = births + 1 /\ births \in Nat /\ births' = births + 1
    BY <1>0, <1>2, NewIdIsFresh DEF kb_add
  <2>2. /\ rows'[NewId] = Columns(p) /\ provided'[NewId] = Columns(p) /\ Columns(p) # None
        /\ \A i \in Ids \ {NewId} : /\ rows'[i] = rows[i] /\ provided'[i] = provided[i]
                                    /\ undone'[i] = undone[i] /\ born'[i] = born[i]
    BY <1>0, <1>2, <2>1, ColumnsType, NotNone DEF kb_add, TypeOK
  <2>3. Unused'
    BY <1>0, <2>1, <2>2 DEF Unused, Ids
  <2>4. NothingLostAlone'
    BY <1>0, <2>2 DEF NothingLostAlone
  <2>5. ASSUME NEW d \in Callers PROVE Holds(d)'
    <3>1. pc[d] = "write" => entry[d] \in Ids \ {NewId}
      BY <1>0, <2>1 DEF Holds, Ids
    <3>2. pc[d] = "write" => entry[d] <= births'
      BY <1>0, <2>1 DEF Holds, Ids
    <3> QED BY <1>0, <1>2, <2>2, <3>1, <3>2 DEF kb_add, Holds
  <2> QED BY <1>0, <2>2, <2>3, <2>4, <2>5
<1>3. ASSUME NEW c \in Callers, NEW i \in Ids, NEW p \in Patches, kb_get(c, i, p) PROVE Goal
  <2>1. i <= births
    BY <1>0, <1>3, PatchesAssumption DEF kb_get, Unused, TypeOK, Ids
  <2>2. ASSUME NEW d \in Callers PROVE Holds(d)'
    BY <1>0, <1>3, <2>1, <2>2, NotNone DEF kb_get, Holds, TypeOK
  <2> QED BY <1>0, <1>3, <2>2 DEF kb_get, Unused, NothingLostAlone
<1>4. ASSUME NEW c \in Callers, kb_update(c) PROVE Goal
  <2>0. /\ pc[c] = "write" /\ entry[c] \in Ids /\ patch[c] \in Patches /\ existing[c] \in Contents
        /\ pc'[c] = "idle" /\ entry'[c] = None /\ ~overlapped'[c]
        /\ born' = born /\ births' = births /\ read' = read
    BY <1>0, <1>4 DEF kb_update, Holds, TypeOK
  <2>1. ASSUME NEW d \in Callers \ {c}
        PROVE  pc'[d] = pc[d] /\ entry'[d] = entry[d] /\ patch'[d] = patch[d] /\ existing'[d] = existing[d]
    BY <1>0, <1>4 DEF kb_update, TypeOK
  <2>2. Holds(c)'
    BY <2>0 DEF Holds
  <2>3. CASE Matches(entry[c])
    <3> DEFINE i == entry[c]
               passed == [k \in Column |-> IF patch[c][k] # None THEN Stored(k, patch[c][k])
                                                              ELSE provided[i][k]]
    <3>1. /\ rows'[i] = Merge(patch[c], existing[c]) /\ rows'[i] \in Contents
          /\ provided'[i] = passed /\ provided'[i] \in Contents
          /\ undone'[i] = (undone[i] \/ overlapped[c])
      <4>1. provided[i] \in Contents
        BY <1>0, <2>0, <2>3 DEF Matches, TypeOK
      <4> QED BY <1>0, <1>4, <2>0, <2>3, <4>1, StoredType, ProvidedType DEF kb_update, TypeOK
    <3>2. ASSUME NEW j \in Ids \ {i}
          PROVE  rows'[j] = rows[j] /\ provided'[j] = provided[j] /\ undone'[j] = undone[j]
      BY <1>0, <1>4, <2>0, <2>3 DEF kb_update, TypeOK
    <3>3. ASSUME NEW d \in Callers \ {c}
          PROVE  overlapped'[d] = (overlapped[d] \/ entry[d] = i)
      BY <1>0, <1>4, <2>0, <2>3 DEF kb_update, TypeOK
    <3>4. Unused'
      BY <1>0, <2>0, <2>3, <3>2 DEF Unused, Matches
    <3>5. ~undone'[i] => rows'[i] = provided'[i]
      <4>1. ~undone'[i] => existing[c] = rows[i] /\ rows[i] = provided[i]
        BY <1>0, <2>0, <2>3, <3>1 DEF Holds, NothingLostAlone, Matches
      <4>2. existing[c] = provided[i] => Merge(patch[c], existing[c]) = passed
        BY <2>0, StoredType DEF Merge
      <4> QED BY <3>1, <4>1, <4>2
    <3>6. NothingLostAlone'
      BY <1>0, <3>2, <3>5 DEF NothingLostAlone
    <3>7. ASSUME NEW d \in Callers \ {c} PROVE Holds(d)'
      <4>1. Holds(d) /\ UNCHANGED <<born, births, read>>
        BY <1>0, <2>0
      <4>2. overlapped'[d] = (overlapped[d] \/ entry[d] = i)
        BY <3>3
      <4>3. pc[d] = "write" /\ entry[d] # i => rows'[entry[d]] = rows[entry[d]]
        BY <4>1, <3>2 DEF Holds
      <4>4. CASE pc[d] = "idle"
        <5>1. i # None
          BY <2>0, PatchesAssumption
        <5> QED BY <2>1, <4>1, <4>2, <4>4, <5>1 DEF Holds
      <4>5. CASE pc[d] = "write"
        BY <2>1, <4>1, <4>2, <4>3, <4>5 DEF Holds
      <4> QED BY <1>0, <4>4, <4>5 DEF TypeOK
    <3>8. \A j \in Ids : rows'[j] # None => provided'[j] # None
      BY <1>0, <3>1, <3>2, NotNone
    <3> QED BY <2>2, <3>4, <3>6, <3>7, <3>8
  <2>4. CASE ~Matches(entry[c])
    <3>1. rows' = rows /\ provided' = provided /\ undone' = undone
      BY <1>4, <2>4 DEF kb_update
    <3>2. ASSUME NEW d \in Callers \ {c} PROVE overlapped'[d] = overlapped[d]
      BY <1>0, <1>4, <2>4 DEF kb_update, TypeOK
    <3> QED BY <1>0, <2>0, <2>1, <2>2, <3>1, <3>2 DEF Unused, NothingLostAlone, Holds
  <2> QED BY <2>3, <2>4
<1>5. ASSUME NEW c \in Callers, UpdateFails(c) PROVE Goal
  BY <1>0, <1>5 DEF UpdateFails, Unused, NothingLostAlone, Holds, TypeOK
<1>6. ASSUME NEW i \in Ids, kb_delete(i) PROVE Goal
  <2>1. /\ rows'[i] = None /\ \A j \in Ids \ {i} : rows'[j] = rows[j]
        /\ UNCHANGED <<born, births, update, history>>
    BY <1>0, <1>6 DEF kb_delete, TypeOK
  <2> QED BY <1>0, <2>1 DEF Unused, NothingLostAlone, Holds
<1> QED BY <1>1, <1>2, <1>3, <1>4, <1>5, <1>6 DEF Next

LEMMA Invariance == Spec => []IInv
BY InvInit, InvStep, PTL DEF Spec

-----------------------------------------------------------------------------
\* The rows, the callers and the histories keep their types (knowledge_base.py).
THEOREM TypeCorrect == Spec => []TypeOK
BY Invariance, PTL DEF IInv

\* kb_update loses nothing that was passed for a column, unless two updates of
\* the row overlapped.
THEOREM NothingIsLostAlone == Spec => []NothingLostAlone
BY Invariance, PTL DEF IInv

\* Between kb_get and UPDATE the id keeps meaning the same row, whatever is
\* deleted and added: the table's ids are never given twice.
THEOREM IdsKeepTheirMeaning == Spec => []WritesWhatItRead
<1>1. IInv => WritesWhatItRead
  BY DEF IInv, Holds, WritesWhatItRead
<1> QED BY <1>1, Invariance, PTL

\* kb_delete is final: neither kb_add nor an update under way brings a row back.
THEOREM DeletesAreFinal == Spec => DeletedForGood
<1>1. IInv /\ [Next]_vars => [\A i \in Ids : i <= births /\ rows[i] = None => rows'[i] = None]_vars
  <2> SUFFICES ASSUME IInv, Next, NEW i \in Ids, i <= births, rows[i] = None PROVE rows'[i] = None
      BY DEF vars
  <2>0. TypeOK /\ \A c \in Callers : Holds(c)
    BY DEF IInv
  <2>1. ASSUME NEW p \in Patches, kb_add(p) PROVE rows'[i] = None
    <3>1. NewId \in Ids /\ NewId # i
      BY <2>0, <2>1, NewIdIsFresh DEF kb_add, Ids
    <3> QED BY <2>0, <2>1, <3>1 DEF kb_add, TypeOK
  <2>2. ASSUME NEW c \in Callers, kb_update(c) PROVE rows'[i] = None
    BY <2>0, <2>2 DEF kb_update, Matches, TypeOK, Holds
  <2>3. ASSUME NEW c \in Callers, UpdateFails(c) \/ \E j \in Ids, p \in Patches : kb_get(c, j, p)
        PROVE  rows'[i] = None
    BY <2>3 DEF UpdateFails, kb_get
  <2>4. ASSUME NEW j \in Ids, kb_delete(j) PROVE rows'[i] = None
    BY <2>0, <2>4 DEF kb_delete, TypeOK
  <2> QED BY <2>1, <2>2, <2>3, <2>4 DEF Next
<1> QED BY <1>1, Invariance, PTL DEF Spec, DeletedForGood
=============================================================================
