------------------------------- MODULE LocalFiles -------------------------------
(***************************************************************************)
(* The tools that read and write one local file: the Excel tools           *)
(* (app/tools/excel), the PDF tools (app/tools/pdf), and Drive's upload    *)
(* and download.  Every call runs in a thread or a process of its own and  *)
(* nothing locks the file.  A reader opens the file and then reads from it *)
(* lazily; a writer loads it whole, changes it in memory and saves it      *)
(* whole, in place (InPlaceFile).                                          *)
(*                                                                         *)
(* What the file holds is reduced to the number of its rows (or pages) and *)
(* the set of the calls whose change is in it.                             *)
(*                                                                         *)
(* An operator named Bug... is a wrong version of the definition that      *)
(* follows it, to be put in its place to see which property notices.       *)
(***************************************************************************)
EXTENDS Integers

CONSTANTS Calls,      \* the invocations of a behaviour
          Ops,        \* what they may ask for
          MaxUnits,   \* bound: rows or pages of the first file and of a download
          Absent, Torn, Nothing

Changing == {"excel_append_rows", "excel_write_range"}
Reading  == {"excel_list_sheets", "excel_read_range", "excel_read_sheet", "pdf_info",
             "pdf_extract_text", "pdf_ocr_extract_text", "pdf_extract_tables",
             "drive_upload_file"}

\* first, last: the pages or cells asked for; last is also max_rows, and Nothing
\* for an end_page that is left out.
Operation == [tool  : Reading \cup Changing \cup {"drive_download_file"},
              first : Nat \ {0}, last : Int]
       \cup [tool  : {"pdf_extract_text", "pdf_ocr_extract_text"},
              first : Nat \ {0}, last : {Nothing}]

ASSUME OpsAssumption == Ops \subseteq Operation /\ MaxUnits \in Nat /\ Nothing \notin Int

Content == [units : Nat, changes : SUBSET Calls]

ASSUME FileAssumption == Absent \notin Content /\ Torn \notin Content /\ Absent # Torn

VARIABLES file, writing, spoiled,  \* see InPlaceFile
          op,        \* what each call asks for
          pc,        \* where it is
          base,      \* what it found in the file, or fetched
          moved,     \* the readers whose open file was emptied under them
          result,    \* what the caller got
          rivals     \* history: who was between its load and its save when a call saved

fileVars == <<file, writing, spoiled>>
vars     == <<fileVars, op, pc, base, moved, result, rivals>>

PC     == {"idle", "open", "loaded", "saving", "done", "dead"}
Result == [is : {"none", "saved", "error", "mixture"}]
            \cup [is : {"read"}, units : SUBSET (Nat \ {0}), cut : BOOLEAN]

F == INSTANCE InPlaceFile WITH Writers <- Calls, Contents <- Content

TypeOK == /\ F!FileTypeOK
          /\ op     \in [Calls -> Ops]
          /\ pc     \in [Calls -> PC]
          /\ base   \in [Calls -> Content \cup {Absent, Torn}]
          /\ moved  \subseteq Calls
          /\ result \in [Calls -> Result]
          /\ rivals \in [Calls -> SUBSET Calls]

Init == /\ file   \in {Absent} \cup [units : 0 .. MaxUnits, changes : {{}}]
        /\ writing = {} /\ spoiled = FALSE
        /\ op     \in [Calls -> Ops]
        /\ pc     = [c \in Calls |-> "idle"]
        /\ base   = [c \in Calls |-> Absent]
        /\ moved  = {}
        /\ result = [c \in Calls |-> [is |-> "none"]]
        /\ rivals = [c \in Calls |-> {}]

Tool(c)  == op[c].tool
Error    == [is |-> "error"]
Lower(m, n) == IF m < n THEN m ELSE n

-----------------------------------------------------------------------------
\* What a reader makes of a file of n rows or pages

Units(S)      == [is |-> "read", units |-> S, cut |-> FALSE]

\* The cap: rows are counted from 0 and the first that is not below max_rows
\* ends the loop (Bug: the count is tested after the row was taken).
BugExcelReadSheet(o, n) ==
  [is |-> "read", units |-> 1 .. Lower(o.last + 1, n), cut |-> n > o.last + 1]
ExcelReadSheet(o, n) ==
  [is |-> "read", units |-> 1 .. Lower(o.last, n), cut |-> n > 0 /\ n > o.last]

ExcelReadRange(o, n) == Units(o.first .. Lower(o.last, n))

\* 1-indexed, inclusive; an end beyond the last page is that page.
PdfExtractText(o, n) ==
  IF o.first > n THEN Error
  ELSE Units(o.first .. Lower(IF o.last = Nothing THEN n ELSE o.last, n))

\* The same range, for scanned pages.
PdfOcrExtractText(o, n) == PdfExtractText(o, n)

\* A single page (Bug: its index in pdf.pages).
BugPdfExtractTables(o, n) == IF o.first > n THEN Error ELSE Units({o.first - 1})
PdfExtractTables(o, n)    == IF o.first > n THEN Error ELSE Units({o.first})

\* Sheet names, a page count, and an upload tell of the file as a whole.
Reads(o, n) ==
  CASE o.tool = "excel_read_sheet"     -> ExcelReadSheet(o, n)
    [] o.tool = "excel_read_range"     -> ExcelReadRange(o, n)
    [] o.tool = "pdf_extract_text"     -> PdfExtractText(o, n)
    [] o.tool = "pdf_ocr_extract_text" -> PdfOcrExtractText(o, n)
    [] o.tool = "pdf_extract_tables"   -> PdfExtractTables(o, n)
    [] o.tool \in {"excel_list_sheets", "pdf_info", "drive_upload_file"} -> Units(1 .. n)

\* What a writer makes of the file it loaded (Bug: of an empty workbook).
BugChanged(c) == [units |-> base[c].units, changes |-> {c}]
Changed(c) ==
  CASE Tool(c) = "excel_append_rows" ->
         [units |-> base[c].units + 1, changes |-> base[c].changes \cup {c}]
    [] Tool(c) = "excel_write_range" ->
         [units |-> base[c].units, changes |-> base[c].changes \cup {c}]
    [] Tool(c) = "drive_download_file" -> base[c]
-----------------------------------------------------------------------------
Goto(c, label) == pc' = [pc EXCEPT ![c] = label]
End(c, r)      == Goto(c, "done") /\ result' = [result EXCEPT ![c] = r]

Fail(c) == End(c, Error) /\ UNCHANGED <<fileVars, op, base, moved, rivals>>

\* _open_workbook_readonly, _validate_pdf_path and pdfplumber.open.
OpenForReading(c) ==
  /\ pc[c] = "idle" /\ Tool(c) \in Reading \ {"drive_upload_file"}
  /\ IF file \in {Absent, Torn}
       THEN Fail(c)
       ELSE /\ base' = [base EXCEPT ![c] = file]
            /\ Goto(c, "open")
            /\ UNCHANGED <<fileVars, op, moved, result, rivals>>

\* An upload looks whether the file is there and opens it, whatever is in it.
OpenForUpload(c) ==
  /\ pc[c] = "idle" /\ Tool(c) = "drive_upload_file"
  /\ IF file = Absent
       THEN Fail(c)
       ELSE /\ base' = [base EXCEPT ![c] = file]
            /\ Goto(c, "open")
            /\ UNCHANGED <<fileVars, op, moved, result, rivals>>

\* The rows, the pages or the bytes are read.  Under a writer the reader meets
\* what does not fit together, and raises or returns it.
Read(c) ==
  /\ pc[c] = "open"
  /\ IF base[c] # Torn /\ c \notin moved
       THEN End(c, Reads(op[c], base[c].units)) \/ End(c, Error)
       ELSE End(c, [is |-> "mixture"]) \/ End(c, Error)
  /\ UNCHANGED <<fileVars, op, base, moved, rivals>>

\* _open_workbook_writable loads it all.
Load(c) ==
  /\ pc[c] = "idle" /\ Tool(c) \in Changing
  /\ \/ Fail(c)
     \/ /\ file \notin {Absent, Torn}
        /\ base' = [base EXCEPT ![c] = file]
        /\ Goto(c, "loaded")
        /\ UNCHANGED <<fileVars, op, moved, result, rivals>>

\* A download is held in memory before it is written.
Fetch(c) ==
  /\ pc[c] = "idle" /\ Tool(c) = "drive_download_file"
  /\ \/ Fail(c)
     \/ /\ \E n \in 0 .. MaxUnits :
             base' = [base EXCEPT ![c] = [units |-> n, changes |-> {}]]
        /\ Goto(c, "loaded")
        /\ UNCHANGED <<fileVars, op, moved, result, rivals>>

\* No such sheet, no such cell, the file cannot be opened: nothing is saved.
\* Otherwise it is emptied, under whoever has it open (Bug: emptied first).
BugStartSave(c) ==
  /\ pc[c] = "loaded"
  /\ moved' = moved \cup {r \in Calls : pc[r] = "open"}
  /\ \/ /\ file' = Torn
        /\ End(c, Error)
        /\ UNCHANGED <<writing, spoiled, op, base, rivals>>
     \/ /\ F!Truncate(c)
        /\ Goto(c, "saving")
        /\ UNCHANGED <<op, base, result, rivals>>
StartSave(c) ==
  /\ pc[c] = "loaded"
  /\ \/ Fail(c)
     \/ /\ F!Truncate(c)
        /\ moved' = moved \cup {r \in Calls : pc[r] = "open"}
        /\ Goto(c, "saving")
        /\ UNCHANGED <<op, base, result, rivals>>

Rivals(c) == {r \in Calls \ {c} : pc[r] \in {"loaded", "saving"}}

EndSave(c) ==
  /\ pc[c] = "saving"
  /\ F!Finish(c, Changed(c))
  /\ rivals' = [rivals EXCEPT ![c] = Rivals(c)]
  /\ End(c, [is |-> "saved"])
  /\ UNCHANGED <<op, base, moved>>

\* The disk is full.
SaveRaises(c) ==
  /\ pc[c] = "saving"
  /\ F!Abandon({c})
  /\ End(c, Error)
  /\ UNCHANGED <<op, base, moved, rivals>>

\* The process of a call dies.
Crash(c) ==
  /\ pc[c] \in {"open", "loaded", "saving"}
  /\ Goto(c, "dead")
  /\ IF pc[c] = "saving" THEN F!Abandon({c}) ELSE UNCHANGED fileVars
  /\ UNCHANGED <<op, base, moved, result, rivals>>

Step(c) == \/ OpenForReading(c) \/ OpenForUpload(c) \/ Read(c)
           \/ Load(c) \/ Fetch(c) \/ StartSave(c) \/ EndSave(c) \/ SaveRaises(c)
           \/ Crash(c)

Next == \E c \in Calls : Step(c)
Spec == Init /\ [][Next]_vars

-----------------------------------------------------------------------------
\* Properties

\* Who may have overwritten what c saved: one that had loaded the file before c
\* saved it, or a download, which replaces it.
MayUndo(c) == {d \in Calls \ {c} :
                 /\ result[d].is = "saved"
                 /\ d \in rivals[c] \/ Tool(d) = "drive_download_file"}

\* The rows and cells of a call that reported success stay in the file as long as
\* it can be read, whatever appends and writes come later, and whoever dies or
\* fails on the way: only a save that overlapped its own, or a download, undoes
\* them.
SavedIsKept ==
  \A c \in Calls :
    result[c].is = "saved" /\ Tool(c) \in Changing /\ file \in Content
      => c \in file.changes \/ MayUndo(c) # {}

\* A read answers exactly what was asked of the version it opened, at every
\* boundary (a cap of 0 or below, a range past the end or backwards, an empty
\* file), and says that it was cut exactly when rows were left out.
RangeIsHonest ==
  \A c \in Calls : result[c].is = "read" =>
    LET n == base[c].units
        o == op[c]
    IN /\ o.tool = "excel_read_sheet" =>
            /\ result[c].units = {u \in 1 .. n : u <= o.last}
            /\ result[c].cut <=> \E u \in 1 .. n : u > o.last
       /\ o.tool \in {"pdf_extract_text", "pdf_ocr_extract_text"} =>
            /\ result[c].units = {u \in 1 .. n : u >= o.first /\ (o.last = Nothing \/ u <= o.last)}
            /\ o.first \in 1 .. n
       /\ o.tool = "pdf_extract_tables" => result[c].units = {o.first} \cap (1 .. n)

\* Once nobody is saving, the file can be read, except after a save that a crash,
\* an error or a second save disturbed: no call that fails on the way to its save
\* costs the user the file.
TornOnlyByMishap == F!TornOnlyByMishap
=============================================================================
