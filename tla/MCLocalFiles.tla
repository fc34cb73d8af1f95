----------------------------- MODULE MCLocalFiles -----------------------------
(* Small instances of LocalFiles for TLC. *)
EXTENDS LocalFiles, TLC

CONSTANTS c1, c2, c3

Op(t, f, l) == [tool |-> t, first |-> f, last |-> l]

\* Reads at the boundaries of a file of 0 to 2 units, and one call of each writer.
MCOps ==
  {Op("excel_append_rows", 1, 1), Op("excel_write_range", 1, 1),
   Op("drive_download_file", 1, 1), Op("drive_upload_file", 1, 1),
   Op("excel_list_sheets", 1, 1), Op("excel_read_range", 1, 2),
   Op("pdf_info", 1, 1), Op("pdf_ocr_extract_text", 1, 1),
   Op("pdf_extract_tables", 1, 1), Op("pdf_extract_tables", 2, 2)}
  \cup {Op("excel_read_sheet", 1, l) : l \in -1 .. 2}
  \cup {Op("pdf_extract_text", f, l) : f \in {1, 2}, l \in {Nothing} \cup -1 .. 3}

Symmetric == Permutations(Calls)
=============================================================================
