------------------------------ MODULE InPlaceFile ------------------------------
(***************************************************************************)
(* A file that is rewritten in place, as the code rewrites token.json, a   *)
(* workbook and a download: open(path, "w") empties it, the content        *)
(* follows with the write and the close, and nothing keeps two writers     *)
(* apart or readers away in between.  GoogleAuth and LocalFiles use the    *)
(* actions and implement the specification.                                *)
(***************************************************************************)
CONSTANTS Writers,      \* whoever may open the file for writing
          Contents,     \* what it may hold
          Absent, Torn  \* neither of them one of the Contents

VARIABLES file,      \* Absent, Torn (what no reader can parse), or its content
          writing,   \* the writers that have it open
          spoiled    \* history: since the last lone opening a second writer came
                     \* in, or one went without finishing

fileVars == <<file, writing, spoiled>>

FileTypeOK == /\ file \in Contents \cup {Absent, Torn}
              /\ writing \subseteq Writers
              /\ spoiled \in BOOLEAN

FileInit == /\ file \in Contents \cup {Absent}
            /\ writing = {}
            /\ spoiled = FALSE

\* open(path, "w")
Truncate(w) ==
  /\ w \notin writing
  /\ file' = Torn
  /\ writing' = writing \cup {w}
  /\ spoiled' = (writing # {})

\* The write and the close.  Two writers write at their own offsets: what is left
\* is the content of the last one, or a mixture when the other's was longer.
Finish(w, x) ==
  /\ w \in writing
  /\ writing' = writing \ {w}
  /\ file' \in IF spoiled THEN {x, Torn} ELSE {x}
  /\ UNCHANGED spoiled

\* The writers in W stop in between: their process dies, or the write raises.
\* Bytes they had flushed may have gone over what another one finished.
Abandon(W) ==
  /\ W # {} /\ W \subseteq writing
  /\ writing' = writing \ W
  /\ file' \in {file, Torn}
  /\ spoiled' = TRUE

FileNext == \/ \E w \in Writers : Truncate(w) \/ \E x \in Contents : Finish(w, x)
            \/ \E W \in SUBSET Writers : Abandon(W)

FileSpec == FileInit /\ [][FileNext]_fileVars

-----------------------------------------------------------------------------
\* Properties

\* A file nobody is writing is lost only if a writer stopped half-way or two of
\* them were at it at once: a rewrite nothing disturbs leaves it readable.
TornOnlyByMishap == file = Torn /\ writing = {} => spoiled

\* While one writer is at it undisturbed, nobody can read it.
LoneWriterTears == ~spoiled /\ writing # {} => file = Torn
=============================================================================
