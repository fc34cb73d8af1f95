---------------------------- MODULE LocalFilesProofs ----------------------------
(***************************************************************************)
(* Proofs about LocalFiles for any calls, operations and bounds, and that  *)
(* its file is an InPlaceFile.                                             *)
(***************************************************************************)
EXTENDS LocalFiles, TLAPS

Writing == Changing \cup {"drive_download_file"}

\* What is known of a call where it is.
CallOK(c) ==
  /\ pc[c] = "saving" <=> c \in writing
  /\ pc[c] # "done" => result[c].is = "none"
  /\ pc[c] = "open" => Tool(c) \in Reading /\ base[c] # Absent
  /\ pc[c] \in {"loaded", "saving"} => Tool(c) \in Writing /\ base[c] \in Content
  /\ result[c].is = "saved" => Tool(c) \in Writing
  /\ result[c].is = "read" => /\ Tool(c) \in Reading
                              /\ base[c] \in Content
                              /\ result[c] = Reads(op[c], base[c].units)

\* What d is about to save keeps what c saved, or d may undo it.
Keeps(c, d) ==
  result[c].is = "saved" /\ Tool(c) \in Changing /\ pc[d] \in {"loaded", "saving"} =>
    \/ d \in rivals[c]
    \/ c \in base[d].changes
    \/ Tool(d) = "drive_download_file"
    \/ MayUndo(c) # {}

\* Two writers at once have spoiled each other's rewriting.
FileOK == /\ (\A v, w \in writing : v = w) \/ spoiled
          /\ file = Torn /\ writing = {} => spoiled

IInv == /\ TypeOK
        /\ FileOK
        /\ \A c \in Calls : CallOK(c)
        /\ \A c \in Calls : \A d \in Calls \ {c} : Keeps(c, d)
        /\ SavedIsKept

-----------------------------------------------------------------------------
\* What a reader answers

LEMMA ReadsFacts ==
  ASSUME NEW o \in Operation, o.tool \in Reading, NEW n \in Nat
  PROVE  /\ Reads(o, n) \in Result
         /\ Reads(o, n).is \in {"read", "error"}
         /\ Reads(o, n).is = "read" =>
              /\ o.tool = "excel_read_sheet" =>
                   /\ Reads(o, n).units = {u \in 1 .. n : u <= o.last}
                   /\ Reads(o, n).cut <=> \E u \in 1 .. n : u > o.last
              /\ o.tool \in {"pdf_extract_text", "pdf_ocr_extract_text"} =>
                   /\ Reads(o, n).units = {u \in 1 .. n : u >= o.first /\ (o.last = Nothing \/ u <= o.last)}
                   /\ o.first \in 1 .. n
              /\ o.tool = "pdf_extract_tables" => Reads(o, n).units = {o.first} \cap (1 .. n)
<1> USE DEF Units, Error, Lower, Operation
<1>1. CASE o.tool = "excel_read_sheet"
  <2>1. o.last \in Int
    BY <1>1
  <2>2. Reads(o, n) = ExcelReadSheet(o, n)
    BY <1>1 DEF Reads
  <2>3. 1 .. Lower(o.last, n) = {u \in 1 .. n : u <= o.last}
    BY <2>1
  <2>4. n > 0 /\ n > o.last <=> \E u \in 1 .. n : u > o.last
    BY <2>1
  <2>5. 1 .. Lower(o.last, n) \in SUBSET (Nat \ {0})
    BY <2>3
  <2> DEFINE isCut == n > 0 /\ n > o.last
  <2>6. Reads(o, n) = [is |-> "read", units |-> 1 .. Lower(o.last, n), cut |-> isCut]
        /\ isCut \in BOOLEAN
    BY <2>2 DEF ExcelReadSheet
  <2> HIDE DEF isCut, Lower
  <2>7. Reads(o, n) \in Result
    BY <2>5, <2>6 DEF Result
  <2>8. /\ Reads(o, n).is = "read"
        /\ Reads(o, n).units = {u \in 1 .. n : u <= o.last}
        /\ Reads(o, n).cut = isCut
    BY <2>3, <2>6
  <2>9. isCut <=> \E u \in 1 .. n : u > o.last
    BY <2>4 DEF isCut
  <2> QED BY <1>1, <2>7, <2>8, <2>9
<1>2. CASE o.tool = "excel_read_range"
  <2>1. o.last \in Int
    BY <1>2
  <2>2. Reads(o, n) = Units(o.first .. Lower(o.last, n))
    BY <1>2 DEF Reads, ExcelReadRange
  <2> QED BY <1>2, <2>1, <2>2 DEF Result
<1>3. CASE o.tool \in {"pdf_extract_text", "pdf_ocr_extract_text"}
  <2> DEFINE end == IF o.last = Nothing THEN n ELSE o.last
  <2>1. Reads(o, n) = IF o.first > n THEN Error ELSE Units(o.first .. Lower(end, n))
    BY <1>3 DEF Reads, PdfOcrExtractText, PdfExtractText
  <2>2. end \in Int /\ o.first \in Nat \ {0}
    BY <1>3
  <2>3. o.first .. Lower(end, n)
          = {u \in 1 .. n : u >= o.first /\ (o.last = Nothing \/ u <= o.last)}
    <3>1. CASE o.last = Nothing
      BY <2>2, <3>1
    <3>2. CASE o.last # Nothing
      BY <2>2, <3>2
    <3> QED BY <3>1, <3>2
  <2>4. o.first .. Lower(end, n) \in SUBSET (Nat \ {0})
    BY <2>3
  <2>5. CASE o.first > n
    BY <1>3, <2>1, <2>5 DEF Result
  <2>6. CASE ~(o.first > n)
    <3>1. Reads(o, n) = Units(o.first .. Lower(end, n)) /\ o.first \in 1 .. n
      BY <2>1, <2>2, <2>6
    <3> QED BY <1>3, <2>3, <2>4, <3>1 DEF Result
  <2> QED BY <2>5, <2>6
<1>4. CASE o.tool = "pdf_extract_tables"
  <2>1. Reads(o, n) = IF o.first > n THEN Error ELSE Units({o.first})
    BY <1>4 DEF Reads, PdfExtractTables
  <2>2. o.first \in Nat \ {0}
    BY <1>4
  <2>3. CASE o.first > n
    BY <1>4, <2>1, <2>3 DEF Result
  <2>4. CASE ~(o.first > n)
    <3>1. Reads(o, n) = Units({o.first}) /\ {o.first} = {o.first} \cap (1 .. n)
      BY <2>1, <2>2, <2>4
    <3> QED BY <1>4, <2>2, <3>1 DEF Result
  <2> QED BY <2>3, <2>4
<1>5. CASE o.tool \in {"excel_list_sheets", "pdf_info", "drive_upload_file"}
  <2>1. Reads(o, n) = Units(1 .. n)
    BY <1>5 DEF Reads
  <2> QED BY <1>5, <2>1 DEF Result
<1> QED BY <1>1, <1>2, <1>3, <1>4, <1>5 DEF Reading
-----------------------------------------------------------------------------
\* Types

LEMMA ChangedType ==
  ASSUME NEW c \in Calls, op[c] \in Operation, Tool(c) \in Writing, base[c] \in Content
  PROVE  Changed(c) \in Content
  BY DEF Writing, Changing, Content, Changed

LEMMA TypeInit == Init => TypeOK
<1> SUFFICES ASSUME Init PROVE TypeOK
    OBVIOUS
<1>1. [units : 0 .. MaxUnits, changes : {{}}] \subseteq Content
  BY OpsAssumption DEF Content
<1>2. F!FileTypeOK
  BY <1>1 DEF Init, F!FileTypeOK
<1> QED BY <1>2 DEF Init, TypeOK, PC, Result

LEMMA TypeStep ==
  ASSUME TypeOK, \A c \in Calls : CallOK(c), NEW c \in Calls, Step(c)
  PROVE  TypeOK'
<1> USE DEF TypeOK, F!FileTypeOK, Fail, End, Goto, Error, fileVars
<1>0. /\ [is |-> "error"] \in Result /\ [is |-> "saved"] \in Result /\ [is |-> "mixture"] \in Result
      /\ \A p \in {"done", "open", "loaded", "saving", "dead"} : p \in PC
      /\ op[c] \in Operation
  BY OpsAssumption DEF Result, PC
<1>1. CASE OpenForReading(c) \/ OpenForUpload(c)
  BY <1>0, <1>1 DEF OpenForReading, OpenForUpload
<1>2. CASE Read(c)
  <2>1. CASE base[c] # Torn /\ c \notin moved
    <3>1. base[c] \in Content /\ Tool(c) \in Reading /\ base[c].units \in Nat
      BY <1>2, <2>1 DEF Read, CallOK, Content
    <3>2. Reads(op[c], base[c].units) \in Result
      BY <1>0, <3>1, ReadsFacts DEF Tool
    <3> QED BY <1>0, <1>2, <2>1, <3>2 DEF Read
  <2>2. CASE ~(base[c] # Torn /\ c \notin moved)
    BY <1>0, <1>2, <2>2 DEF Read
  <2> QED BY <2>1, <2>2
<1>3. CASE Load(c)
  BY <1>0, <1>3 DEF Load
<1>4. CASE Fetch(c)
  BY <1>0, <1>4, OpsAssumption DEF Fetch, Content
<1>5. CASE StartSave(c)
  BY <1>0, <1>5 DEF StartSave, F!Truncate
<1>6. CASE EndSave(c)
  <2>1. Changed(c) \in Content
    BY <1>0, <1>6, ChangedType DEF EndSave, CallOK
  <2>2. Rivals(c) \subseteq Calls
    BY DEF Rivals
  <2> QED BY <1>0, <1>6, <2>1, <2>2 DEF EndSave, F!Finish
<1>7. CASE SaveRaises(c)
  BY <1>0, <1>7 DEF SaveRaises, F!Abandon
<1>8. CASE Crash(c)
  BY <1>0, <1>8 DEF Crash, F!Abandon
<1> QED BY <1>1, <1>2, <1>3, <1>4, <1>5, <1>6, <1>7, <1>8 DEF Step

-----------------------------------------------------------------------------
\* The file

LEMMA FileStep ==
  ASSUME TypeOK, FileOK, \A c \in Calls : CallOK(c), NEW c \in Calls, Step(c)
  PROVE  FileOK' /\ [F!FileNext]_(F!fileVars)
<1> USE DEF FileOK, F!FileNext, F!fileVars, fileVars
<1>1. CASE UNCHANGED fileVars
  BY <1>1
<1>2. CASE F!Truncate(c)
  BY <1>2 DEF F!Truncate
<1>3. CASE F!Finish(c, Changed(c)) /\ pc[c] = "saving"
  <2>1. Changed(c) \in Content
    BY <1>3, ChangedType, OpsAssumption DEF CallOK, TypeOK
  <2>2. spoiled \/ file' = Changed(c)
    BY <1>3 DEF F!Finish
  <2>3. FileOK'
    BY <1>3, <2>1, <2>2, FileAssumption DEF F!Finish
  <2> QED BY <1>3, <2>1, <2>3
<1>4. CASE F!Abandon({c})
  BY <1>4 DEF F!Abandon
<1> QED BY <1>1, <1>2, <1>3, <1>4
        DEF Step, OpenForReading, OpenForUpload, Read, Load, Fetch, StartSave, EndSave,
            SaveRaises, Crash, Fail

-----------------------------------------------------------------------------
\* The calls

\* A step of c moves no other call.
OthersKept(c) == /\ op' = op
                 /\ \A d \in Calls \ {c} : /\ pc'[d] = pc[d] /\ base'[d] = base[d]
                                           /\ result'[d] = result[d] /\ rivals'[d] = rivals[d]
                                           /\ d \in writing' <=> d \in writing

LEMMA StepKeepsOthers ==
  ASSUME TypeOK, NEW c \in Calls, Step(c)
  PROVE  OthersKept(c)
  BY DEF TypeOK, OthersKept, Step, OpenForReading, OpenForUpload, Read, Load, Fetch, StartSave,
         EndSave, SaveRaises, Crash, Fail, End, Goto, fileVars, F!Truncate, F!Finish, F!Abandon

LEMMA StepKeepsCall ==
  ASSUME TypeOK, \A d \in Calls : CallOK(d), NEW c \in Calls, Step(c)
  PROVE  CallOK(c)'
<1> USE DEF TypeOK, F!FileTypeOK, CallOK, Fail, End, Goto, Error, fileVars, Tool
<1>1. CASE OpenForReading(c) \/ OpenForUpload(c)
  BY <1>1 DEF OpenForReading, OpenForUpload, Reading
<1>2. CASE Read(c)
  <2>1. CASE base[c] # Torn /\ c \notin moved
    <3>1. base[c] \in Content /\ Tool(c) \in Reading /\ base[c].units \in Nat
      BY <1>2, <2>1 DEF Read, Content
    <3>2. Reads(op[c], base[c].units).is \in {"read", "error"}
      BY <3>1, ReadsFacts, OpsAssumption
    <3> QED BY <1>2, <2>1, <3>1, <3>2 DEF Read
  <2>2. CASE ~(base[c] # Torn /\ c \notin moved)
    BY <1>2, <2>2 DEF Read
  <2> QED BY <2>1, <2>2
<1>3. CASE Load(c)
  BY <1>3 DEF Load, Writing
<1>4. CASE Fetch(c)
  BY <1>4, OpsAssumption DEF Fetch, Writing, Content
<1>5. CASE StartSave(c)
  BY <1>5 DEF StartSave, F!Truncate
<1>6. CASE EndSave(c)
  BY <1>6 DEF EndSave, F!Finish
<1>7. CASE SaveRaises(c)
  BY <1>7 DEF SaveRaises, F!Abandon
<1>8. CASE Crash(c)
  BY <1>8 DEF Crash, F!Abandon
<1> QED BY <1>1, <1>2, <1>3, <1>4, <1>5, <1>6, <1>7, <1>8 DEF Step

LEMMA CallsStep ==
  ASSUME TypeOK, \A d \in Calls : CallOK(d), NEW c \in Calls, Step(c)
  PROVE  \A d \in Calls : CallOK(d)'
<1>1. OthersKept(c) /\ CallOK(c)'
  BY StepKeepsOthers, StepKeepsCall
<1>2. ASSUME NEW d \in Calls \ {c} PROVE CallOK(d)'
  BY <1>1, <1>2 DEF OthersKept, CallOK, Tool
<1> QED BY <1>1, <1>2

-----------------------------------------------------------------------------
\* What is saved

\* Whoever may undo a save may still undo it later.
LEMMA UndoStays ==
  ASSUME TypeOK, \A d \in Calls : CallOK(d), NEW c \in Calls, Step(c),
         NEW s \in Calls, result[s].is = "saved"
  PROVE  /\ MayUndo(s) \subseteq MayUndo(s)'
         /\ result'[s].is = "saved" /\ rivals'[s] = rivals[s]
         /\ Tool(s)' = Tool(s)
<1>1. pc[s] = "done" /\ s # c
  BY DEF CallOK, Step, OpenForReading, OpenForUpload, Read, Load, Fetch, StartSave, EndSave,
         SaveRaises, Crash
<1>2. OthersKept(c)
  BY StepKeepsOthers
<1>3. ASSUME NEW d \in MayUndo(s) PROVE d \in MayUndo(s)'
  <2>1. d # c
    BY <1>3 DEF MayUndo, CallOK, Step, OpenForReading, OpenForUpload, Read, Load, Fetch,
                StartSave, EndSave, SaveRaises, Crash
  <2> QED BY <1>1, <1>2, <1>3, <2>1 DEF MayUndo, OthersKept, Tool
<1> QED BY <1>1, <1>2, <1>3 DEF OthersKept, Tool

\* A step of c when s has saved.
LEMMA KeptByStep ==
  ASSUME IInv, NEW c \in Calls, Step(c),
         NEW s \in Calls, result[s].is = "saved", Tool(s) \in Changing
  PROVE  /\ file' \in Content => s \in file'.changes \/ MayUndo(s)' # {}
         /\ \A d \in Calls \ {s} : Keeps(s, d)'
<1>1. /\ MayUndo(s) \subseteq MayUndo(s)' /\ result'[s].is = "saved"
      /\ rivals'[s] = rivals[s] /\ Tool(s)' = Tool(s)
  BY UndoStays DEF IInv
<1>2. OthersKept(c) /\ s # c
  BY StepKeepsOthers DEF IInv, CallOK, Step, OpenForReading, OpenForUpload, Read, Load, Fetch,
                         StartSave, EndSave, SaveRaises, Crash
<1>3. file \in Content => s \in file.changes \/ MayUndo(s) # {}
  BY DEF IInv, SavedIsKept
<1>4. Keeps(s, c) /\ CallOK(c) /\ TypeOK
  BY <1>2 DEF IInv
<1>5. ASSUME NEW d \in Calls \ {s}, d # c PROVE Keeps(s, d)'
  <2>1. Keeps(s, d)
    BY DEF IInv
  <2> QED BY <1>1, <1>2, <1>5, <2>1 DEF Keeps, OthersKept, Tool
<1>6. CASE Load(c) /\ pc'[c] = "loaded"
  <2>1. base'[c] = file /\ file \in Content /\ file' = file
    BY <1>4, <1>6 DEF Load, Fail, End, Goto, fileVars, TypeOK, F!FileTypeOK
  <2>2. Keeps(s, c)'
    BY <1>1, <1>3, <2>1 DEF Keeps
  <2> QED BY <1>1, <1>3, <1>5, <2>1, <2>2
<1>7. CASE Fetch(c) /\ pc'[c] = "loaded"
  <2>1. Tool(c)' = "drive_download_file" /\ file' = file
    BY <1>4, <1>7 DEF Fetch, Fail, End, Goto, fileVars, TypeOK, Tool
  <2>2. Keeps(s, c)'
    BY <2>1 DEF Keeps
  <2> QED BY <1>1, <1>3, <1>5, <2>1, <2>2
<1>8. CASE StartSave(c) /\ pc'[c] = "saving"
  <2>1. file' = Torn /\ base' = base /\ pc[c] = "loaded" /\ Tool(c)' = Tool(c)
    BY <1>4, <1>8 DEF StartSave, Fail, End, Goto, TypeOK, F!Truncate, Tool
  <2>2. Keeps(s, c)'
    BY <1>1, <1>4, <2>1 DEF Keeps
  <2> QED BY <1>5, <2>1, <2>2, FileAssumption
<1>9. CASE EndSave(c)
  <2>1. /\ file' \in {Changed(c), Torn} /\ pc[c] = "saving"
        /\ pc'[c] = "done" /\ result'[c].is = "saved" /\ Tool(c)' = Tool(c)
    BY <1>4, <1>9 DEF EndSave, End, Goto, TypeOK, F!Finish, Tool
  <2>2. Keeps(s, c)'
    BY <2>1 DEF Keeps
  <2>3. c \in rivals[s] \/ Tool(c) = "drive_download_file" => MayUndo(s)' # {}
    BY <1>1, <1>2, <2>1 DEF MayUndo
  <2>4. s \in base[c].changes /\ file' = Changed(c) /\ Tool(c) # "drive_download_file"
           => s \in file'.changes
    BY <1>4, <2>1 DEF Changed, CallOK, Writing, Changing
  <2> QED BY <1>1, <1>4, <1>5, <2>1, <2>2, <2>3, <2>4, FileAssumption DEF Keeps
<1>10. CASE /\ pc'[c] \notin {"loaded", "saving"}
            /\ file' = file \/ file' = Torn
  <2>1. Keeps(s, c)'
    BY <1>10 DEF Keeps
  <2> QED BY <1>1, <1>3, <1>5, <1>10, <2>1, FileAssumption
<1>11. \/ Load(c) /\ pc'[c] = "loaded"
       \/ Fetch(c) /\ pc'[c] = "loaded"
       \/ StartSave(c) /\ pc'[c] = "saving"
       \/ EndSave(c)
       \/ pc'[c] \notin {"loaded", "saving"} /\ (file' = file \/ file' = Torn)
  BY <1>4 DEF Step, OpenForReading, OpenForUpload, Read, Load, Fetch, StartSave, EndSave,
              SaveRaises, Crash, Fail, End, Goto, fileVars, TypeOK, F!Abandon
<1> QED BY <1>6, <1>7, <1>8, <1>9, <1>10, <1>11

\* A step with which c itself saves.
LEMMA SavedByStep ==
  ASSUME IInv, NEW c \in Calls, Step(c), result[c].is # "saved", result'[c].is = "saved",
         Tool(c) \in Changing
  PROVE  /\ file' \in Content => c \in file'.changes
         /\ \A d \in Calls \ {c} : Keeps(c, d)'
<1>1. EndSave(c)
  <2>1. TypeOK /\ CallOK(c)
    BY DEF IInv
  <2>2. ASSUME Read(c) PROVE result'[c].is # "saved"
    <3>1. CASE base[c] # Torn /\ c \notin moved
      <4>1. base[c] \in Content /\ Tool(c) \in Reading /\ base[c].units \in Nat
        BY <2>1, <2>2, <3>1 DEF Read, CallOK, TypeOK, Content
      <4>2. Reads(op[c], base[c].units).is \in {"read", "error"}
        BY <2>1, <4>1, ReadsFacts, OpsAssumption DEF TypeOK, Tool
      <4> QED BY <2>1, <2>2, <3>1, <4>2 DEF Read, TypeOK, End, Error
    <3>2. CASE ~(base[c] # Torn /\ c \notin moved)
      BY <2>1, <2>2, <3>2 DEF Read, TypeOK, End, Error
    <3> QED BY <3>1, <3>2
  <2> QED BY <2>1, <2>2 DEF Step, OpenForReading, OpenForUpload, Load, Fetch, StartSave,
                             SaveRaises, Crash, Fail, End, Error, TypeOK
<1>2. TypeOK /\ OthersKept(c)
  BY StepKeepsOthers DEF IInv
<1>3. file' \in {Changed(c), Torn} /\ rivals'[c] = Rivals(c)
  BY <1>1, <1>2 DEF EndSave, F!Finish, TypeOK
<1>4. c \in Changed(c).changes
  BY DEF Changed, Changing
<1>5. ASSUME NEW d \in Calls \ {c} PROVE Keeps(c, d)'
  BY <1>2, <1>3, <1>5 DEF Keeps, OthersKept, Rivals
<1> QED BY <1>3, <1>4, <1>5, FileAssumption

-----------------------------------------------------------------------------
\* The invariant

LEMMA InvInit == Init => IInv
<1> SUFFICES ASSUME Init PROVE IInv
    OBVIOUS
<1>1. TypeOK
  BY TypeInit
<1>2. FileOK
  BY FileAssumption, OpsAssumption DEF Init, FileOK, Content
<1>3. \A c \in Calls : CallOK(c) /\ result[c].is # "saved"
  BY DEF Init, CallOK
<1> QED BY <1>1, <1>2, <1>3 DEF IInv, Keeps, SavedIsKept

LEMMA InvStep == IInv /\ [Next]_vars => IInv'
<1> SUFFICES ASSUME IInv, [Next]_vars PROVE IInv'
    OBVIOUS
<1>1. CASE UNCHANGED vars
  <2>1. UNCHANGED <<file, writing, spoiled, op, pc, base, moved, result, rivals>>
    BY <1>1 DEF vars, fileVars
  <2>2. TypeOK' /\ FileOK'
    BY <2>1 DEF IInv, TypeOK, F!FileTypeOK, FileOK
  <2>3. \A c \in Calls : CallOK(c)' /\ MayUndo(c)' = MayUndo(c)
    BY <2>1 DEF IInv, CallOK, Tool, MayUndo
  <2>4. \A c \in Calls : \A d \in Calls \ {c} : Keeps(c, d)'
    BY <2>1, <2>3 DEF IInv, Keeps, Tool
  <2>5. SavedIsKept'
    BY <2>1, <2>3 DEF IInv, SavedIsKept, Tool
  <2> QED BY <2>2, <2>3, <2>4, <2>5 DEF IInv
<1>2. ASSUME NEW c \in Calls, Step(c) PROVE IInv'
  <2>1. TypeOK' /\ FileOK' /\ \A d \in Calls : CallOK(d)'
    BY <1>2, TypeStep, FileStep, CallsStep DEF IInv
  <2>2. OthersKept(c)
    BY <1>2, StepKeepsOthers DEF IInv
  <2>3. ASSUME NEW s \in Calls, result'[s].is = "saved", Tool(s)' \in Changing
        PROVE  /\ file' \in Content => s \in file'.changes \/ MayUndo(s)' # {}
               /\ \A d \in Calls \ {s} : Keeps(s, d)'
    <3>1. Tool(s) \in Changing
      BY <2>2, <2>3 DEF OthersKept, Tool
    <3>2. CASE result[s].is = "saved"
      BY <1>2, <3>1, <3>2, KeptByStep
    <3>3. CASE result[s].is # "saved"
      <4>1. s = c
        BY <2>2, <2>3, <3>3 DEF OthersKept
      <4> QED BY <1>2, <2>3, <3>1, <3>3, <4>1, SavedByStep
    <3> QED BY <3>2, <3>3
  <2>4. \A s \in Calls : \A d \in Calls \ {s} : Keeps(s, d)'
    BY <2>3 DEF Keeps
  <2>5. SavedIsKept'
    BY <2>3 DEF SavedIsKept
  <2> QED BY <2>1, <2>4, <2>5 DEF IInv
<1> QED BY <1>1, <1>2 DEF Next

LEMMA Invariance == Spec => []IInv
  BY InvInit, InvStep, PTL DEF Spec

-----------------------------------------------------------------------------
\* The file, the calls and their results keep their types.
THEOREM TypeCorrect == Spec => []TypeOK
  BY Invariance, PTL DEF IInv

\* What a call reported as saved stays in the file unless an overlapping save or a
\* download undoes it.
THEOREM SavesAreKept == Spec => []SavedIsKept
  BY Invariance, PTL DEF IInv

\* A file nobody is writing is unreadable only after a disturbed save.
THEOREM FileSurvives == Spec => []TornOnlyByMishap
<1>1. IInv => TornOnlyByMishap
  BY DEF IInv, FileOK, TornOnlyByMishap, F!TornOnlyByMishap
<1> QED BY <1>1, Invariance, PTL

\* Every read answers exactly what was asked of the version it opened.
THEOREM RangesAreHonest == Spec => []RangeIsHonest
<1>1. ASSUME IInv, NEW c \in Calls, result[c].is = "read"
      PROVE  /\ op[c] \in Operation /\ op[c].tool \in Reading
             /\ base[c].units \in Nat
             /\ result[c] = Reads(op[c], base[c].units)
  BY <1>1, OpsAssumption DEF IInv, TypeOK, CallOK, Tool, Content
<1>2. IInv => RangeIsHonest
  <2> SUFFICES ASSUME IInv, NEW c \in Calls, result[c].is = "read"
               PROVE  LET n == base[c].units
                          o == op[c]
                      IN /\ o.tool = "excel_read_sheet" =>
                              /\ result[c].units = {u \in 1 .. n : u <= o.last}
                              /\ result[c].cut <=> \E u \in 1 .. n : u > o.last
                         /\ o.tool \in {"pdf_extract_text", "pdf_ocr_extract_text"} =>
                              /\ result[c].units = {u \in 1 .. n : u >= o.first /\ (o.last = Nothing \/ u <= o.last)}
                              /\ o.first \in 1 .. n
                         /\ o.tool = "pdf_extract_tables" => result[c].units = {o.first} \cap (1 .. n)
    BY DEF RangeIsHonest
  <2> QED BY <1>1, ReadsFacts
<1> QED BY <1>2, Invariance, PTL

\* The file of the tools is a file rewritten in place: no step of any tool changes
\* it otherwise.
THEOREM ImplementsInPlaceFile == Spec => F!FileSpec
<1>1. Init => F!FileInit
  BY OpsAssumption DEF Init, F!FileInit, Content
<1>2. IInv /\ [Next]_vars => [F!FileNext]_(F!fileVars)
  <2>1. CASE UNCHANGED vars
    BY <2>1 DEF vars, fileVars, F!fileVars
  <2>2. ASSUME IInv, NEW c \in Calls, Step(c) PROVE [F!FileNext]_(F!fileVars)
    BY <2>2, FileStep DEF IInv
  <2> QED BY <2>1, <2>2 DEF Next
<1> QED BY <1>1, <1>2, Invariance, PTL DEF Spec, F!FileSpec
=============================================================================
