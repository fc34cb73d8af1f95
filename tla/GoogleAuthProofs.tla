---------------------------- MODULE GoogleAuthProofs ----------------------------
(***************************************************************************)
(* Proofs about GoogleAuth for any calls, processes, tools and tokens, and *)
(* that token.json is an InPlaceFile.                                      *)
(***************************************************************************)
EXTENDS GoogleAuth, TLAPS

\* What is known of a call where it is.
CallOK(c) ==
  /\ pc[c] = "saving" <=> c \in writing
  /\ pc[c] = "done" <=> ended[c] # "none"
  /\ c \in effects => ended[c] \in {"returned", "failed"}
  /\ ended[c] = "returned" /\ tool[c].does = "changes" => c \in effects
  /\ held[c] \in minted \cup {None}
  /\ pc[c] \in {"refresh", "save", "saving", "check"} => held[c] \in minted
  /\ mine[c] # None => proc[mine[c]] = proc[c]

\* What the caches of a process hold was loaded there, by a call that is past the
\* loading.
CacheOK(p) ==
  /\ creds[p] # None => /\ proc[creds[p]] = p
                        /\ pc[creds[p]] \in {"build", "request", "done"}
  /\ \A s \in Services : client[p][s] # None => proc[client[p][s]] = p

\* A call that runs alone finds nothing when it loads.
AloneOK(c) ==
  alone[c] =>
    /\ pc[c] \notin {"idle", "done"} => Together(c) = {}
    /\ pc[c] \in {"creds", "load"} => client[proc[c]][Service(c)] = None
    /\ pc[c] = "load" => ~Valid(creds[proc[c]])

TokenOK == /\ file \in Tokens => file \in minted
           /\ Consent \in writing => granted \in minted

IInv == /\ TypeOK
        /\ TokenOK
        /\ \A c \in Calls : CallOK(c)
        /\ \A p \in Processes : CacheOK(p)
        /\ \A c \in Calls : AloneOK(c)

-----------------------------------------------------------------------------
\* Types

LEMMA TypeInit == Init => TypeOK
<1> SUFFICES ASSUME Init PROVE TypeOK
    OBVIOUS
<1>1. F!FileTypeOK
  BY DEF Init, F!FileTypeOK
<1> QED BY <1>1, NamesAssumption DEF Init, TypeOK, PC

LEMMA ServiceType ==
  ASSUME TypeOK, NEW c \in Calls
  PROVE  Service(c) \in Services
  BY ToolsAssumption DEF TypeOK, Service, Services, Tool, GmailSearch, GmailReadMessage,
     GmailSend, DriveSearch, DriveUploadFile, DriveDownloadFile, DriveCreateFolder,
     CalendarListEvents, CalendarCreateEvent, CalendarDeleteEvent, SheetsGetInfo,
     SheetsReadRange, SheetsWriteRange, SheetsDeleteSheet

LEMMA TypeStep ==
  ASSUME TypeOK, \A d \in Calls : CallOK(d), NEW c \in Calls, Step(c)
  PROVE  TypeOK'
<1> USE DEF TypeOK, F!FileTypeOK, End, Goto, Take, fileVars, google, caches
<1>0. /\ \A p \in {"service", "creds", "load", "refresh", "save", "saving", "check", "build",
                   "request", "done"} : p \in PC
      /\ Service(c) \in Services
  BY ServiceType DEF PC
<1>1. CASE Begin(c)
  <2>1. alone' \in [Calls -> BOOLEAN]
    BY <1>1 DEF Begin
  <2> QED BY <1>0, <1>1, <2>1 DEF Begin
<1>2. CASE LookUpService(c)
  <2>1. client[proc[c]][Service(c)] \in Calls \cup {None}
    BY <1>0
  <2> QED BY <1>0, <1>2, <2>1 DEF LookUpService
<1>3. CASE LookUpCredentials(c)
  BY <1>0, <1>3 DEF LookUpCredentials
<1>4. CASE LoadToken(c)
  <2>1. CASE file \in {Absent, Torn}
    <3>1. /\ pc' = [pc EXCEPT ![c] = "done"]
          /\ ended' = [ended EXCEPT ![c] = "no_service"]
          /\ mine' = [mine EXCEPT ![c] = None]
          /\ UNCHANGED <<fileVars, google, caches, tool, proc, held, alone, effects, crashes>>
      BY <1>4, <2>1 DEF LoadToken
    <3> QED BY <1>0, <3>1
  <2>2. CASE file \notin {Absent, Torn}
    <3>1. held' = [held EXCEPT ![c] = file] /\ file \in Tokens
      BY <1>4, <2>2 DEF LoadToken
    <3>2. held' \in [Calls -> Tokens \cup {None}]
      BY <3>1
    <3>3. pc' = [pc EXCEPT ![c] = "check"] \/ pc' = [pc EXCEPT ![c] = "refresh"]
      BY <1>4, <2>2 DEF LoadToken
    <3>4. pc' \in [Calls -> PC]
      BY <1>0, <3>3
    <3>5. mine' \in [Calls -> Calls \cup {None}]
      BY <1>4, <2>2 DEF LoadToken
    <3>6. UNCHANGED <<fileVars, google, caches, tool, proc, ended, alone, effects, crashes>>
      BY <1>4, <2>2 DEF LoadToken
    <3> QED BY <3>2, <3>4, <3>5, <3>6
  <2> QED BY <2>1, <2>2
<1>5. CASE Refresh(c)
  BY <1>0, <1>5 DEF Refresh, Mint
<1>6. CASE StartSave(c)
  BY <1>0, <1>6 DEF StartSave, F!Truncate
<1>7. CASE EndSave(c)
  <2>1. held[c] \in Tokens
    BY <1>7 DEF EndSave, CallOK
  <2>2. CASE F!Finish(c, held[c])
    <3>1. F!FileTypeOK'
      BY <2>1, <2>2 DEF F!Finish
    <3> QED BY <1>0, <1>7, <3>1 DEF EndSave
  <2>3. CASE F!Abandon({c})
    <3>1. F!FileTypeOK'
      BY <2>3 DEF F!Abandon
    <3> QED BY <1>0, <1>7, <3>1 DEF EndSave
  <2> QED BY <1>7, <2>2, <2>3 DEF EndSave
<1>8. CASE CacheCredentials(c)
  <2>1. creds' = creds \/ creds' = [creds EXCEPT ![proc[c]] = c]
    BY <1>8 DEF CacheCredentials
  <2>2. creds' \in [Processes -> Calls \cup {None}]
    BY <2>1
  <2> QED BY <1>0, <1>8, <2>2 DEF CacheCredentials
<1>9. CASE BuildClient(c)
  <2> DEFINE new == [client[proc[c]] EXCEPT ![Service(c)] = mine[c]]
  <2>1. client' = client \/ client' = [client EXCEPT ![proc[c]] = new]
    BY <1>9 DEF BuildClient
  <2>2. client' \in [Processes -> [Services -> Calls \cup {None}]]
    <3>1. new \in [Services -> Calls \cup {None}]
      BY <1>0
    <3> HIDE DEF new
    <3> QED BY <2>1, <3>1
  <2> QED BY <1>0, <1>9, <2>2 DEF BuildClient
<1>10. CASE RenewInUse(c)
  BY <1>10 DEF RenewInUse, Mint, call
<1>11. CASE Request(c)
  BY <1>0, <1>11 DEF Request
<1> QED BY <1>1, <1>2, <1>3, <1>4, <1>5, <1>6, <1>7, <1>8, <1>9, <1>10, <1>11 DEF Step

LEMMA TypeAround ==
  ASSUME TypeOK, TokenOK,
         \/ \E p \in Processes : Crash(p)
         \/ Expire \/ StartConsent \/ EndConsent
  PROVE  TypeOK'
<1> USE DEF TypeOK, F!FileTypeOK, fileVars, google, caches, call
<1>1. ASSUME NEW p \in Processes, Crash(p) PROVE TypeOK'
  <2> DEFINE hit == {c \in Calls : proc[c] = p /\ pc[c] \notin {"idle", "done"}}
  <2>1. pc' = [c \in Calls |-> IF c \in hit THEN "done" ELSE pc[c]] /\ pc' \in [Calls -> PC]
    BY <1>1 DEF Crash, PC
  <2>2. /\ mine' \in [Calls -> Calls \cup {None}]
        /\ ended' \in [Calls -> {"none", "returned", "no_service", "failed", "killed"}]
    BY <1>1 DEF Crash
  <2>3. /\ creds' \in [Processes -> Calls \cup {None}]
        /\ client' \in [Processes -> [Services -> Calls \cup {None}]]
    BY <1>1 DEF Crash
  <2>4. F!FileTypeOK'
    BY <1>1 DEF Crash, F!Abandon
  <2>5. UNCHANGED <<google, held, tool, proc, alone, effects>> /\ crashes' \subseteq MayCrash
    BY <1>1 DEF Crash
  <2> QED BY <2>1, <2>2, <2>3, <2>4, <2>5
<1>2. CASE Expire
  BY <1>2 DEF Expire
<1>3. CASE StartConsent
  BY <1>3 DEF StartConsent, F!Truncate, Mint
<1>4. CASE EndConsent
  BY <1>4 DEF EndConsent, F!Finish, F!Abandon, TokenOK
<1> QED BY <1>1, <1>2, <1>3, <1>4

-----------------------------------------------------------------------------
\* One call moves

\* What a step of c leaves alone in the others.
OthersKept(c) ==
  /\ tool' = tool /\ proc' = proc
  /\ \A d \in Calls \ {c} : /\ pc'[d] = pc[d] /\ mine'[d] = mine[d] /\ ended'[d] = ended[d]
                            /\ d \in writing' <=> d \in writing
                            /\ d \in effects' <=> d \in effects
  /\ Consent \in writing' <=> Consent \in writing

\* What Google knows only grows, but for what expires.
TokensGrow == /\ minted \subseteq minted'
              /\ live' \cap minted \subseteq live
              /\ granted' = granted

LEMMA StepKeepsOthers ==
  ASSUME TypeOK, NEW c \in Calls, Step(c)
  PROVE  OthersKept(c) /\ TokensGrow
<1> USE NamesAssumption DEF TypeOK, F!FileTypeOK, OthersKept, TokensGrow, End, Goto, Take,
        fileVars, google, caches
<1>1. CASE Begin(c) \/ LookUpService(c) \/ LookUpCredentials(c) \/ LoadToken(c)
  BY <1>1 DEF Begin, LookUpService, LookUpCredentials, LoadToken
<1>2. CASE Refresh(c)
  BY <1>2 DEF Refresh, Mint
<1>3. CASE StartSave(c) \/ EndSave(c)
  BY <1>3 DEF StartSave, EndSave, F!Truncate, F!Finish, F!Abandon
<1>4. CASE CacheCredentials(c) \/ BuildClient(c)
  BY <1>4 DEF CacheCredentials, BuildClient
<1>5. CASE RenewInUse(c)
  BY <1>5 DEF RenewInUse, Mint, call
<1>6. CASE Request(c)
  BY <1>6 DEF Request
<1> QED BY <1>1, <1>2, <1>3, <1>4, <1>5, <1>6 DEF Step

\* Only the loading, the refreshing and the library change what a Credentials
\* holds, to a token that was handed out.
LEMMA HeldByStep ==
  ASSUME TypeOK, TokenOK, NEW c \in Calls, Step(c), NEW d \in Calls
  PROVE  /\ held'[d] = held[d] \/ held'[d] \in minted'
         /\ held'[d] # held[d] =>
              \/ d = c /\ pc[c] \in {"load", "refresh"}
              \/ d = mine[c] /\ pc[c] = "request"
<1> USE DEF TypeOK, F!FileTypeOK, TokenOK
<1>1. CASE LoadToken(c)
  BY <1>1 DEF LoadToken, google
<1>2. CASE Refresh(c)
  BY <1>2 DEF Refresh, Mint, google
<1>3. CASE RenewInUse(c)
  BY <1>3 DEF RenewInUse, Mint
<1>4. CASE held' = held
  BY <1>4
<1> QED BY <1>1, <1>2, <1>3, <1>4 DEF Step, Begin, LookUpService, LookUpCredentials, StartSave,
                                     EndSave, CacheCredentials, BuildClient, Request

LEMMA CallByStep ==
  ASSUME TypeOK, TokenOK, \A d \in Calls : CallOK(d), \A p \in Processes : CacheOK(p),
         NEW c \in Calls, Step(c)
  PROVE  CallOK(c)'
<1>0. /\ proc' = proc /\ tool' = tool /\ minted \subseteq minted'
      /\ held'[c] = held[c] \/ held'[c] \in minted'
      /\ CallOK(c) /\ proc[c] \in Processes
  BY StepKeepsOthers, HeldByStep DEF OthersKept, TokensGrow, TypeOK
<1> USE NamesAssumption DEF TypeOK, F!FileTypeOK, CallOK, End, Goto, Take, fileVars, google, caches
<1>1. CASE Begin(c)
  BY <1>0, <1>1 DEF Begin
<1>2. CASE LookUpService(c)
  <2>1. Service(c) \in Services
    BY ServiceType
  <2>2. client[proc[c]][Service(c)] # None => proc[client[proc[c]][Service(c)]] = proc[c]
    BY <1>0, <2>1 DEF CacheOK
  <2> QED BY <1>0, <1>2, <2>2 DEF LookUpService
<1>3. CASE LookUpCredentials(c)
  BY <1>0, <1>3 DEF LookUpCredentials, CacheOK, Valid
<1>4. CASE LoadToken(c)
  BY <1>0, <1>4 DEF LoadToken, TokenOK
<1>5. CASE Refresh(c)
  BY <1>0, <1>5 DEF Refresh, Mint
<1>6. CASE StartSave(c)
  BY <1>0, <1>6 DEF StartSave, F!Truncate
<1>7. CASE EndSave(c)
  BY <1>0, <1>7 DEF EndSave, F!Finish, F!Abandon
<1>8. CASE CacheCredentials(c)
  BY <1>0, <1>8 DEF CacheCredentials
<1>9. CASE BuildClient(c)
  BY <1>0, <1>9 DEF BuildClient
<1>10. CASE RenewInUse(c)
  BY <1>0, <1>10 DEF RenewInUse, Mint, call
<1>11. CASE Request(c)
  BY <1>0, <1>11 DEF Request
<1> QED BY <1>1, <1>2, <1>3, <1>4, <1>5, <1>6, <1>7, <1>8, <1>9, <1>10, <1>11 DEF Step

LEMMA CallsByStep ==
  ASSUME TypeOK, TokenOK, \A d \in Calls : CallOK(d), \A p \in Processes : CacheOK(p),
         NEW c \in Calls, Step(c)
  PROVE  \A d \in Calls : CallOK(d)'
<1>1. CallOK(c)'
  BY CallByStep
<1>2. ASSUME NEW d \in Calls \ {c} PROVE CallOK(d)'
  <2>1. OthersKept(c) /\ TokensGrow /\ CallOK(d)
    BY StepKeepsOthers
  <2>2. held'[d] = held[d] \/ held'[d] \in minted'
    BY HeldByStep
  <2> QED BY <1>2, <2>1, <2>2 DEF OthersKept, TokensGrow, CallOK
<1> QED BY <1>1, <1>2

-----------------------------------------------------------------------------
\* The file and the caches

LEMMA TokenByStep ==
  ASSUME TypeOK, TokenOK, \A d \in Calls : CallOK(d), NEW c \in Calls, Step(c)
  PROVE  TokenOK' /\ [F!FileNext]_(F!fileVars)
<1>1. OthersKept(c) /\ TokensGrow
  BY StepKeepsOthers
<1> USE NamesAssumption DEF TokenOK, OthersKept, TokensGrow, F!FileNext, F!fileVars, fileVars
<1>2. CASE UNCHANGED fileVars
  BY <1>1, <1>2
<1>3. CASE F!Truncate(c)
  BY <1>1, <1>3 DEF F!Truncate
<1>4. CASE F!Finish(c, held[c]) /\ pc[c] = "saving"
  <2>1. held[c] \in minted /\ held[c] \in Tokens
    BY <1>4 DEF CallOK, TypeOK
  <2> QED BY <1>1, <1>4, <2>1 DEF F!Finish
<1>5. CASE F!Abandon({c})
  BY <1>1, <1>5 DEF F!Abandon
<1> QED BY <1>2, <1>3, <1>4, <1>5
        DEF Step, Begin, LookUpService, LookUpCredentials, LoadToken, Refresh, StartSave,
            EndSave, CacheCredentials, BuildClient, RenewInUse, Request

LEMMA CacheByStep ==
  ASSUME TypeOK, \A d \in Calls : CallOK(d), \A p \in Processes : CacheOK(p),
         NEW c \in Calls, Step(c), NEW p \in Processes
  PROVE  CacheOK(p)'
<1>1. OthersKept(c) /\ CallOK(c) /\ CacheOK(p)
  BY StepKeepsOthers
<1> USE DEF TypeOK, OthersKept, CacheOK
<1>2. pc[c] \in {"build", "request", "done"} => pc'[c] \in {"build", "request", "done"}
  BY DEF Step, Begin, LookUpService, LookUpCredentials, LoadToken, Refresh, StartSave, EndSave,
         CacheCredentials, BuildClient, RenewInUse, Request, Goto, End, call
<1>3. CASE UNCHANGED caches
  <2>1. creds' = creds /\ client' = client
    BY <1>3 DEF caches
  <2> QED BY <1>1, <1>2, <2>1
<1>4. CASE CacheCredentials(c) /\ creds' # creds
  <2>1. /\ creds' = [creds EXCEPT ![proc[c]] = c] /\ pc'[c] = "build"
        /\ client' = client
    BY <1>4 DEF CacheCredentials, Goto
  <2> QED BY <1>1, <1>2, <2>1
<1>5. CASE BuildClient(c) /\ client' # client
  <2>1. client' = [client EXCEPT ![proc[c]][Service(c)] = mine[c]] /\ creds' = creds
    BY <1>5 DEF BuildClient
  <2>2. ASSUME NEW s \in Services, client'[p][s] # None
        PROVE  proc'[client'[p][s]] = p
    BY <1>1, <2>1, <2>2 DEF CallOK
  <2> QED BY <1>1, <1>2, <2>1, <2>2
<1> QED BY <1>3, <1>4, <1>5
        DEF Step, Begin, LookUpService, LookUpCredentials, LoadToken, Refresh, StartSave,
            EndSave, CacheCredentials, BuildClient, RenewInUse, Request, caches

-----------------------------------------------------------------------------
\* A call that runs alone

\* The Credentials of another process become valid by no step here.
LEMMA ValidStaysFalse ==
  ASSUME TypeOK, TokenOK, \A d \in Calls : CallOK(d), NEW c \in Calls, Step(c),
         NEW o \in Calls \cup {None}, ~Valid(o), o # None => proc[o] # proc[c]
  PROVE  ~Valid(o)'
<1>1. CASE o = None
  BY <1>1 DEF Valid
<1>2. CASE o # None
  <2>1. o \in Calls /\ CallOK(c) /\ CallOK(o) /\ TokensGrow /\ o # c /\ o # mine[c]
    BY <1>2, StepKeepsOthers DEF CallOK
  <2>2. held'[o] = held[o]
    BY <2>1, HeldByStep
  <2>3. live' \subseteq Tokens
    BY TypeStep DEF TypeOK
  <2> QED BY <1>2, <2>1, <2>2, <2>3, NamesAssumption DEF Valid, CallOK, TokensGrow
<1> QED BY <1>1, <1>2

\* The call that moves.
LEMMA AloneByOwnStep ==
  ASSUME TypeOK, NEW c \in Calls, Step(c), AloneOK(c)
  PROVE  AloneOK(c)'
<1>1. OthersKept(c)
  BY StepKeepsOthers
<1>2. Together(c)' = Together(c) /\ Service(c)' = Service(c)
  BY <1>1 DEF Together, OthersKept, Service
<1> USE DEF TypeOK, Goto, End, Take, google, caches
<1>3. CASE Begin(c)
  BY <1>1, <1>2, <1>3 DEF Begin, AloneOK
<1>4. CASE LookUpService(c)
  BY <1>1, <1>2, <1>4 DEF LookUpService, AloneOK, OthersKept
<1>5. CASE LookUpCredentials(c)
  BY <1>1, <1>2, <1>5 DEF LookUpCredentials, AloneOK, OthersKept, Valid
<1>6. CASE /\ alone' = alone /\ pc[c] \notin {"idle", "done"}
           /\ pc'[c] \notin {"creds", "load"}
  BY <1>1, <1>2, <1>6 DEF AloneOK
<1> QED BY <1>3, <1>4, <1>5, <1>6
        DEF Step, LoadToken, Refresh, StartSave, EndSave, CacheCredentials, BuildClient,
            RenewInUse, Request, call

\* The calls beside it.
LEMMA AloneByOther ==
  ASSUME TypeOK, TokenOK, \A e \in Calls : CallOK(e), \A p \in Processes : CacheOK(p),
         NEW c \in Calls, NEW d \in Calls \ {c}, Step(d), AloneOK(c)
  PROVE  AloneOK(c)'
<1>1. OthersKept(d)
  BY StepKeepsOthers
<1>2. Service(c)' = Service(c) /\ pc'[c] = pc[c] /\ proc' = proc /\ proc[c] \in Processes
  BY <1>1 DEF OthersKept, Service, TypeOK
<1>3. alone'[c] => alone[c]
  BY DEF TypeOK, Step, Begin, LookUpService, LookUpCredentials, LoadToken, Refresh, StartSave,
         EndSave, CacheCredentials, BuildClient, RenewInUse, Request, call
<1>4. CASE pc[c] \in {"idle", "done"}
  BY <1>2, <1>4 DEF AloneOK
<1>5. CASE pc[c] \notin {"idle", "done"} /\ proc[d] = proc[c]
  <2>1. ASSUME alone'[c] PROVE FALSE
    <3>1. Together(c) = {}
      BY <1>3, <1>5, <2>1 DEF AloneOK
    <3>2. pc[d] \in {"idle", "done"}
      BY <1>5, <3>1 DEF Together
    <3>3. Begin(d)
      BY <3>2 DEF Step, LookUpService, LookUpCredentials, LoadToken, Refresh, StartSave, EndSave,
                  CacheCredentials, BuildClient, RenewInUse, Request
    <3>4. c \in Together(d)
      BY <1>5 DEF Together
    <3> QED BY <2>1, <3>3, <3>4 DEF Begin
  <2> QED BY <2>1 DEF AloneOK
<1>6. CASE pc[c] \notin {"idle", "done"} /\ proc[d] # proc[c]
  <2>1. Together(c)' = Together(c)
    BY <1>1, <1>2, <1>6 DEF Together, OthersKept
  <2>2. creds'[proc[c]] = creds[proc[c]] /\ client'[proc[c]] = client[proc[c]]
    BY <1>2, <1>6 DEF TypeOK, Step, Begin, LookUpService, LookUpCredentials, LoadToken, Refresh, StartSave,
       EndSave, CacheCredentials, BuildClient, RenewInUse, Request, caches
  <2>3. ~Valid(creds[proc[c]]) => ~Valid(creds[proc[c]])'
    <3>1. creds[proc[c]] \in Calls \cup {None} /\ CacheOK(proc[c])
      BY <1>2 DEF TypeOK
    <3>2. creds[proc[c]] # None => proc[creds[proc[c]]] # proc[d]
      BY <1>6, <3>1 DEF CacheOK
    <3>3. ~Valid(creds[proc[c]]) =>
             ~(creds[proc[c]] # None /\ held'[creds[proc[c]]] \in live')
      BY <3>1, <3>2, ValidStaysFalse DEF Valid
    <3> QED BY <1>2, <2>2, <3>3 DEF Valid
  <2> QED BY <1>2, <1>3, <1>6, <2>1, <2>2, <2>3 DEF AloneOK
<1> QED BY <1>4, <1>5, <1>6

-----------------------------------------------------------------------------
\* Around the calls

Around == \/ \E p \in Processes : Crash(p)
          \/ Expire \/ StartConsent \/ EndConsent

LEMMA TokenAround ==
  ASSUME TypeOK, TokenOK, Around
  PROVE  TokenOK' /\ [F!FileNext]_(F!fileVars)
<1> USE NamesAssumption DEF TypeOK, F!FileTypeOK, TokenOK, F!FileNext, F!fileVars, fileVars, google
<1>1. ASSUME NEW p \in Processes, Crash(p) PROVE TokenOK' /\ [F!FileNext]_(F!fileVars)
  <2> DEFINE hit == {c \in Calls : proc[c] = p /\ pc[c] \notin {"idle", "done"}}
  <2>1. minted' = minted /\ granted' = granted
    BY <1>1 DEF Crash
  <2>2. CASE hit \cap writing # {}
    <3>1. F!Abandon(hit \cap writing)
      BY <1>1, <2>2 DEF Crash
    <3>2. hit \cap writing \in SUBSET (Calls \cup {Consent})
      OBVIOUS
    <3> QED BY <2>1, <3>1, <3>2 DEF F!Abandon
  <2>3. CASE hit \cap writing = {}
    BY <1>1, <2>1, <2>3 DEF Crash
  <2> QED BY <2>2, <2>3
<1>2. CASE Expire
  BY <1>2 DEF Expire
<1>3. CASE StartConsent
  BY <1>3 DEF StartConsent, Mint, F!Truncate
<1>4. CASE EndConsent
  BY <1>4 DEF EndConsent, F!Finish, F!Abandon
<1> QED BY <1>1, <1>2, <1>3, <1>4 DEF Around

LEMMA CrashKeepsInv == ASSUME IInv, NEW p \in Processes, Crash(p)
                       PROVE  /\ \A c \in Calls : CallOK(c)' /\ AloneOK(c)'
                              /\ \A q \in Processes : CacheOK(q)'
<1> DEFINE hit == {c \in Calls : proc[c] = p /\ pc[c] \notin {"idle", "done"}}
<1>1. /\ UNCHANGED <<minted, live, granted, held, tool, proc, alone, effects>>
      /\ \A c \in Calls : c \in hit => /\ pc'[c] = "done" /\ ended'[c] = "killed"
                                       /\ mine'[c] = None
      /\ \A c \in Calls \ hit : /\ pc'[c] = pc[c] /\ ended'[c] = ended[c]
                                /\ mine'[c] = mine[c]
      /\ writing' = writing \ hit
  BY DEF Crash, google, fileVars, F!Abandon
<1>2. /\ creds'[p] = None /\ \A s \in Services : client'[p][s] = None
      /\ \A q \in Processes \ {p} : creds'[q] = creds[q] /\ client'[q] = client[q]
  BY DEF IInv, TypeOK, Crash
<1>3. ASSUME NEW c \in Calls PROVE CallOK(c)'
  <2>1. CallOK(c) /\ ended[c] \in {"none", "returned", "no_service", "failed", "killed"}
    BY DEF IInv, TypeOK
  <2>2. CASE c \in hit
    <3>1. ended[c] = "none" /\ c \notin effects
      BY <2>1, <2>2 DEF CallOK
    <3> QED BY <1>1, <2>1, <2>2, <3>1 DEF CallOK
  <2>3. CASE c \notin hit
    BY <1>1, <2>1, <2>3 DEF CallOK
  <2> QED BY <2>2, <2>3
<1>4. ASSUME NEW q \in Processes PROVE CacheOK(q)'
  <2>1. CASE q = p
    BY <1>2, <2>1 DEF CacheOK
  <2>2. CASE q # p
    <3>1. CacheOK(q) /\ creds[q] \in Calls \cup {None}
      BY DEF IInv, TypeOK
    <3>2. creds[q] # None => pc'[creds[q]] = pc[creds[q]]
      BY <1>1, <2>2, <3>1 DEF CacheOK
    <3> QED BY <1>1, <1>2, <2>2, <3>1, <3>2 DEF CacheOK
  <2> QED BY <2>1, <2>2
<1>5. ASSUME NEW c \in Calls PROVE AloneOK(c)'
  <2>1. CASE c \in hit
    BY <1>1, <2>1 DEF AloneOK
  <2>2. CASE c \notin hit
    <3>1. AloneOK(c) /\ proc[c] \in Processes /\ Service(c)' = Service(c)
      BY <1>1 DEF IInv, TypeOK, Service
    <3>2. Together(c)' \subseteq Together(c)
      BY <1>1 DEF Together
    <3>3. CASE proc[c] = p
      BY <1>1, <2>2, <3>3 DEF AloneOK
    <3>4. CASE proc[c] # p
      BY <1>1, <1>2, <2>2, <3>1, <3>2, <3>4 DEF AloneOK, Valid
    <3> QED BY <3>3, <3>4
  <2> QED BY <2>1, <2>2
<1> QED BY <1>3, <1>4, <1>5

LEMMA TokensKeepInv == ASSUME IInv, Expire \/ StartConsent \/ EndConsent
                       PROVE  /\ \A c \in Calls : CallOK(c)' /\ AloneOK(c)'
                              /\ \A q \in Processes : CacheOK(q)'
<1>1. /\ UNCHANGED <<held, creds, client, tool, proc, pc, mine, ended, alone, effects>>
      /\ minted \subseteq minted' /\ live' \cap minted \subseteq live
      /\ \A c \in Calls : c \in writing' <=> c \in writing
  BY NamesAssumption DEF Expire, StartConsent, EndConsent, Mint, F!Truncate, F!Finish, F!Abandon,
                         caches, call, google, fileVars, IInv, TypeOK
<1>2. ASSUME NEW c \in Calls PROVE CallOK(c)'
  BY <1>1 DEF IInv, CallOK
<1>3. ASSUME NEW q \in Processes PROVE CacheOK(q)'
  BY <1>1 DEF IInv, CacheOK
<1>4. ASSUME NEW c \in Calls PROVE AloneOK(c)'
  <2>1. Together(c)' = Together(c) /\ Service(c)' = Service(c) /\ AloneOK(c)
    BY <1>1 DEF Together, Service, IInv
  <2>2. live' \subseteq Tokens
    BY TypeAround DEF IInv, TypeOK
  <2>3. ~Valid(creds[proc[c]]) => ~Valid(creds[proc[c]])'
    <3>1. creds[proc[c]] \in Calls \cup {None}
      BY DEF IInv, TypeOK
    <3>2. creds[proc[c]] # None => held[creds[proc[c]]] \in minted \cup {None}
      BY <3>1 DEF IInv, CallOK
    <3> QED BY <1>1, <2>2, <3>2, NamesAssumption DEF Valid
  <2> QED BY <1>1, <2>1, <2>3 DEF AloneOK
<1> QED BY <1>2, <1>3, <1>4

-----------------------------------------------------------------------------
\* The invariant

LEMMA InvInit == Init => IInv
<1> SUFFICES ASSUME Init PROVE IInv
    OBVIOUS
<1>1. TypeOK
  BY TypeInit
<1>2. TokenOK
  BY DEF Init, TokenOK
<1>3. \A c \in Calls : CallOK(c) /\ AloneOK(c)
  BY DEF Init, CallOK, AloneOK
<1>4. \A p \in Processes : CacheOK(p)
  BY DEF Init, CacheOK
<1> QED BY <1>1, <1>2, <1>3, <1>4 DEF IInv

LEMMA InvStep == IInv /\ [Next]_vars => IInv'
<1> SUFFICES ASSUME IInv, [Next]_vars PROVE IInv'
    OBVIOUS
<1>1. CASE UNCHANGED vars
  <2> USE <1>1 DEF vars, fileVars, google, caches, call
  <2>1. TypeOK' /\ TokenOK'
    BY DEF IInv, TypeOK, F!FileTypeOK, TokenOK
  <2>2. \A c \in Calls : CallOK(c)'
    BY DEF IInv, CallOK
  <2>3. \A p \in Processes : CacheOK(p)'
    BY DEF IInv, CacheOK
  <2>4. \A c \in Calls : AloneOK(c)'
    BY DEF IInv, AloneOK, Together, Service, Valid
  <2> QED BY <2>1, <2>2, <2>3, <2>4 DEF IInv
<1>2. ASSUME NEW c \in Calls, Step(c) PROVE IInv'
  <2>1. TypeOK' /\ TokenOK' /\ \A d \in Calls : CallOK(d)'
    BY <1>2, TypeStep, TokenByStep, CallsByStep DEF IInv
  <2>2. \A p \in Processes : CacheOK(p)'
    BY <1>2, CacheByStep DEF IInv
  <2>3. AloneOK(c)'
    BY <1>2, AloneByOwnStep DEF IInv
  <2>4. ASSUME NEW d \in Calls, d # c PROVE AloneOK(d)'
    BY <1>2, <2>4, AloneByOther DEF IInv
  <2> QED BY <2>1, <2>2, <2>3, <2>4 DEF IInv
<1>3. CASE Around
  <2>1. TypeOK' /\ TokenOK'
    BY <1>3, TypeAround, TokenAround DEF IInv, Around
  <2>2. /\ \A c \in Calls : CallOK(c)' /\ AloneOK(c)'
        /\ \A q \in Processes : CacheOK(q)'
    BY <1>3, CrashKeepsInv, TokensKeepInv DEF Around
  <2> QED BY <2>1, <2>2 DEF IInv
<1> QED BY <1>1, <1>2, <1>3 DEF Next, Around

LEMMA Invariance == Spec => []IInv
  BY InvInit, InvStep, PTL DEF Spec

-----------------------------------------------------------------------------
\* The file, Google's tokens, the caches and the calls keep their types.
THEOREM TypeCorrect == Spec => []TypeOK
  BY Invariance, PTL DEF IInv

\* What a tool reports as done was done, and without a client nothing was asked.
THEOREM ReportsAreTrue == Spec => []ReportedIsDone
<1>1. IInv => ReportedIsDone
  BY DEF IInv, CallOK, ReportedIsDone
<1> QED BY <1>1, Invariance, PTL

\* No step of a tool, a crash or a consent changes token.json but by a rewrite in
\* place, whose outcomes InPlaceFile tells.
THEOREM TokenFileIsRewritten == Spec => IsRewrittenInPlace
<1>1. Init => F!FileInit
  BY DEF Init, F!FileInit
<1>2. IInv /\ [Next]_vars => [F!FileNext]_(F!fileVars)
  <2>1. CASE UNCHANGED vars
    BY <2>1 DEF vars, fileVars, F!fileVars
  <2>2. ASSUME IInv, NEW c \in Calls, Step(c) PROVE [F!FileNext]_(F!fileVars)
    BY <2>2, TokenByStep DEF IInv
  <2>3. ASSUME IInv, Around PROVE [F!FileNext]_(F!fileVars)
    BY <2>3, TokenAround DEF IInv
  <2> QED BY <2>1, <2>2, <2>3 DEF Next, Around
<1> QED BY <1>1, <1>2, Invariance, PTL DEF Spec, IsRewrittenInPlace, F!FileSpec

\* What InPlaceFile promises holds of token.json: with nobody writing it is
\* unreadable only after a rewriting that was shared or not finished, and while
\* one process rewrites it alone, no other can read it.
THEOREM TokenFileSurvives == Spec => [](F!TornOnlyByMishap /\ F!LoneWriterTears)
<1> DEFINE Inv == /\ F!TornOnlyByMishap
                  /\ F!LoneWriterTears
                  /\ ~spoiled => \A v, w \in writing : v = w
<1>1. F!FileInit => Inv
  BY NamesAssumption DEF F!FileInit, F!TornOnlyByMishap, F!LoneWriterTears
<1>2. Inv /\ [F!FileNext]_(F!fileVars) => Inv'
  <2> SUFFICES ASSUME Inv, [F!FileNext]_(F!fileVars) PROVE Inv'
      OBVIOUS
  <2> USE DEF F!TornOnlyByMishap, F!LoneWriterTears
  <2>1. CASE UNCHANGED F!fileVars
    BY <2>1 DEF F!fileVars
  <2>2. ASSUME NEW w, F!Truncate(w) PROVE Inv'
    BY <2>2 DEF F!Truncate
  <2>3. ASSUME NEW w, NEW x \in Tokens, F!Finish(w, x) PROVE Inv'
    BY <2>3, NamesAssumption DEF F!Finish
  <2>4. ASSUME NEW W, F!Abandon(W) PROVE Inv'
    BY <2>4 DEF F!Abandon
  <2> QED BY <2>1, <2>2, <2>3, <2>4 DEF F!FileNext
<1>3. Inv => F!TornOnlyByMishap /\ F!LoneWriterTears
  OBVIOUS
<1> QED BY <1>1, <1>2, <1>3, TokenFileIsRewritten, PTL DEF IsRewrittenInPlace, F!FileSpec

\* A call that runs alone in its process loads nothing that is there already.
THEOREM LoadsOnce == Spec => LoadedOncePerRun
<1> DEFINE Fresh == \A c \in Calls :
                      LoadToken(c) /\ alone[c] => /\ ~Valid(creds[proc[c]])
                                                  /\ client[proc[c]][Service(c)] = None
<1>1. IInv => Fresh
  BY DEF IInv, AloneOK, LoadToken
<1> QED BY <1>1, Invariance, PTL DEF LoadedOncePerRun
=============================================================================
