------------------------------- MODULE GoogleAuth -------------------------------
(***************************************************************************)
(* The Google tools (app/tools/google) and the credentials they share      *)
(* (app/core/google_auth.py): token.json, which every process of the agent *)
(* reads and rewrites in place (InPlaceFile), and in each process the      *)
(* cached Credentials and the cached clients.  Calls run in threads; their *)
(* processes may die and start again.                                      *)
(*                                                                         *)
(* A Credentials object is named by the call that loaded it: it holds an   *)
(* access token, which expires, and the library may put a new one into it  *)
(* when a client is used.  The refresh token never changes and is left out.*)
(*                                                                         *)
(* An operator named Bug... is a wrong version of the definition that      *)
(* follows it, to be put in its place to see which property notices.       *)
(***************************************************************************)
EXTENDS FiniteSets

CONSTANTS Calls,      \* the invocations of a behaviour
          Processes,  \* the processes they run in: the bot, main.py, scripts
          Consent,    \* the one that runs _regenerate_google_token.py
          Tools,      \* what is called, a subset of Tool
          Tokens,     \* bound: the access tokens Google hands out
          MayCrash,   \* bound: the processes that may die, once
          Absent, Torn, None

\* The tools: the client each asks for, and what its requests do there.
GmailSearch         == [service |-> "gmail", does |-> "reads"]
GmailReadMessage    == [service |-> "gmail", does |-> "reads"]
GmailSend           == [service |-> "gmail", does |-> "changes"]
DriveSearch         == [service |-> "drive", does |-> "reads"]
DriveUploadFile     == [service |-> "drive", does |-> "changes"]
DriveDownloadFile   == [service |-> "drive", does |-> "reads"]
DriveCreateFolder   == [service |-> "drive", does |-> "changes"]
CalendarListEvents  == [service |-> "calendar", does |-> "reads"]
CalendarCreateEvent == [service |-> "calendar", does |-> "changes"]
CalendarDeleteEvent == [service |-> "calendar", does |-> "changes"]
SheetsGetInfo       == [service |-> "sheets", does |-> "reads"]
SheetsReadRange     == [service |-> "sheets", does |-> "reads"]
SheetsWriteRange    == [service |-> "sheets", does |-> "changes"]
SheetsDeleteSheet   == [service |-> "sheets", does |-> "changes"]

Tool == {GmailSearch, GmailReadMessage, GmailSend, DriveSearch, DriveUploadFile,
         DriveDownloadFile, DriveCreateFolder, CalendarListEvents,
         CalendarCreateEvent, CalendarDeleteEvent, SheetsGetInfo, SheetsReadRange,
         SheetsWriteRange, SheetsDeleteSheet}

\* _SERVICE_SPECS
Services == {"gmail", "drive", "calendar", "sheets"}

ASSUME ToolsAssumption == Tools \subseteq Tool /\ MayCrash \subseteq Processes
ASSUME NamesAssumption ==
  /\ None \notin Calls \cup Tokens /\ Consent \notin Calls
  /\ Absent \notin Tokens /\ Torn \notin Tokens /\ Absent # Torn

VARIABLES file, writing, spoiled,  \* token.json, see InPlaceFile
          minted,   \* the access tokens Google has handed out
          live,     \* those that have not expired
          granted,  \* the one the last consent gave
          held,     \* the access token in the Credentials a call loaded
          creds,    \* _CREDENTIALS_CACHE of each process
          client,   \* _SERVICE_CACHE: the Credentials each client was built with
          tool,     \* what each call calls
          proc,     \* and in which process
          pc,       \* where it is
          mine,     \* the Credentials, or the client's Credentials, in its hands
          ended,    \* what its caller got
          effects,  \* history: the calls whose change Google carried out
          alone,    \* history: no call of the process ran while this one did
          crashes   \* the processes that may still die

fileVars == <<file, writing, spoiled>>
google   == <<minted, live, granted>>
caches   == <<creds, client>>
call     == <<tool, proc, pc, mine, ended, alone>>
vars     == <<fileVars, google, held, caches, call, effects, crashes>>

PC == {"idle", "service", "creds", "load", "refresh", "save", "saving", "check",
       "build", "request", "done"}

F == INSTANCE InPlaceFile WITH Writers <- Calls \cup {Consent}, Contents <- Tokens

TypeOK == /\ F!FileTypeOK
          /\ live \subseteq minted /\ minted \subseteq Tokens
          /\ granted \in Tokens \cup {None}
          /\ held    \in [Calls -> Tokens \cup {None}]
          /\ creds   \in [Processes -> Calls \cup {None}]
          /\ client  \in [Processes -> [Services -> Calls \cup {None}]]
          /\ tool    \in [Calls -> Tools]
          /\ proc    \in [Calls -> Processes]
          /\ pc      \in [Calls -> PC]
          /\ mine    \in [Calls -> Calls \cup {None}]
          /\ ended   \in [Calls -> {"none", "returned", "no_service", "failed", "killed"}]
          /\ effects \subseteq Calls
          /\ alone   \in [Calls -> BOOLEAN]
          /\ crashes \subseteq MayCrash

\* No consent was ever given, or the token file of an earlier run is there.
Init == /\ file \in {Absent} \cup Tokens
        /\ writing = {} /\ spoiled = FALSE
        /\ minted = {file} \cap Tokens
        /\ live \in SUBSET minted
        /\ granted = None
        /\ held    = [c \in Calls |-> None]
        /\ creds   = [p \in Processes |-> None]
        /\ client  = [p \in Processes |-> [s \in Services |-> None]]
        /\ tool    \in [Calls -> Tools]
        /\ proc    \in [Calls -> Processes]
        /\ pc      = [c \in Calls |-> "idle"]
        /\ mine    = [c \in Calls |-> None]
        /\ ended   = [c \in Calls |-> "none"]
        /\ effects = {}
        /\ alone   = [c \in Calls |-> TRUE]
        /\ crashes = MayCrash

-----------------------------------------------------------------------------
Goto(c, label) == pc' = [pc EXCEPT ![c] = label]
Take(c, o)     == mine' = [mine EXCEPT ![c] = o]
End(c, e)      == /\ Goto(c, "done")
                  /\ ended' = [ended EXCEPT ![c] = e]
                  /\ Take(c, None)

Valid(o) == o # None /\ held[o] \in live
Service(c) == tool[c].service
Together(c) == {d \in Calls \ {c} : proc[d] = proc[c] /\ pc[d] \notin {"idle", "done"}}

\* A tool begins with get_google_service.
Begin(c) ==
  /\ pc[c] = "idle"
  /\ Goto(c, "service")
  /\ alone' = [d \in Calls |-> alone[d] /\ IF d = c THEN Together(c) = {} ELSE d \notin Together(c)]
  /\ UNCHANGED <<fileVars, google, held, caches, tool, proc, mine, ended, effects, crashes>>

\* The client is there, or Credentials are needed to build it.
LookUpService(c) ==
  /\ pc[c] = "service"
  /\ LET o == client[proc[c]][Service(c)]
     IN IF o # None THEN Take(c, o) /\ Goto(c, "request")
                    ELSE Goto(c, "creds") /\ UNCHANGED mine
  /\ UNCHANGED <<fileVars, google, held, caches, tool, proc, ended, alone, effects, crashes>>

\* The cached Credentials serve while they are valid (Bug: they are not cached).
BugLookUpCredentials(c) ==
  /\ pc[c] = "creds"
  /\ Goto(c, "load")
  /\ UNCHANGED <<fileVars, google, held, caches, tool, proc, mine, ended, alone, effects, crashes>>
LookUpCredentials(c) ==
  /\ pc[c] = "creds"
  /\ IF Valid(creds[proc[c]])
       THEN Take(c, creds[proc[c]]) /\ Goto(c, "build")
       ELSE Goto(c, "load") /\ UNCHANGED mine
  /\ UNCHANGED <<fileVars, google, held, caches, tool, proc, ended, alone, effects, crashes>>

\* token.json is missing, or does not parse, or becomes a new Credentials object
\* (Bug: nobody looks whether it is there).
BugLoadToken(c) ==
  /\ pc[c] = "load"
  /\ held' = [held EXCEPT ![c] = file]
  /\ Take(c, c)
  /\ Goto(c, IF file \in live THEN "check" ELSE "refresh")
  /\ UNCHANGED <<fileVars, google, caches, tool, proc, ended, alone, effects, crashes>>
LoadToken(c) ==
  /\ pc[c] = "load"
  /\ IF file \in {Absent, Torn}
       THEN End(c, "no_service") /\ UNCHANGED held
       ELSE /\ held' = [held EXCEPT ![c] = file]
            /\ Take(c, c)
            /\ Goto(c, IF file \in live THEN "check" ELSE "refresh")
            /\ UNCHANGED ended
  /\ UNCHANGED <<fileVars, google, caches, tool, proc, alone, effects, crashes>>

Mint(t) == /\ t \in Tokens \ minted
           /\ minted' = minted \cup {t}
           /\ live' = live \cup {t}

\* creds.refresh: a new token, or an exception (Bug: token.json is emptied for the
\* new token before it is there).
BugRefresh(c) ==
  /\ pc[c] = "refresh"
  /\ file' = Torn
  /\ \/ \E t \in Tokens :
          /\ Mint(t)
          /\ held' = [held EXCEPT ![c] = t]
          /\ Goto(c, "save")
          /\ UNCHANGED <<granted, ended, mine>>
     \/ /\ End(c, "no_service")
        /\ UNCHANGED <<google, held>>
  /\ UNCHANGED <<writing, spoiled, caches, tool, proc, alone, effects, crashes>>
Refresh(c) ==
  /\ pc[c] = "refresh"
  /\ \/ \E t \in Tokens :
          /\ Mint(t)
          /\ held' = [held EXCEPT ![c] = t]
          /\ Goto(c, "save")
          /\ UNCHANGED <<granted, ended, mine>>
     \/ /\ End(c, "no_service")
        /\ UNCHANGED <<google, held>>
  /\ UNCHANGED <<fileVars, caches, tool, proc, alone, effects, crashes>>

\* The new token is written back.
StartSave(c) ==
  /\ pc[c] = "save"
  /\ F!Truncate(c)
  /\ Goto(c, "saving")
  /\ UNCHANGED <<google, held, caches, tool, proc, mine, ended, alone, effects, crashes>>

EndSave(c) ==
  /\ pc[c] = "saving"
  /\ \/ /\ F!Finish(c, held[c])
        /\ Goto(c, "check")
        /\ UNCHANGED <<ended, mine>>
     \/ /\ F!Abandon({c})
        /\ End(c, "no_service")
  /\ UNCHANGED <<google, held, caches, tool, proc, alone, effects, crashes>>

\* What is still valid is cached.
CacheCredentials(c) ==
  /\ pc[c] = "check"
  /\ IF Valid(c)
       THEN /\ creds' = [creds EXCEPT ![proc[c]] = c]
            /\ Goto(c, "build")
            /\ UNCHANGED <<ended, mine>>
       ELSE End(c, "no_service") /\ UNCHANGED creds
  /\ UNCHANGED <<fileVars, google, held, client, tool, proc, alone, effects, crashes>>

\* build() may raise.
BuildClient(c) ==
  /\ pc[c] = "build"
  /\ \/ /\ client' = [client EXCEPT ![proc[c]][Service(c)] = mine[c]]
        /\ Goto(c, "request")
        /\ UNCHANGED <<ended, mine>>
     \/ /\ End(c, "no_service")
        /\ UNCHANGED client
  /\ UNCHANGED <<fileVars, google, held, creds, tool, proc, alone, effects, crashes>>

\* The library renews an expired token in the object, and nowhere else.
RenewInUse(c) ==
  /\ pc[c] = "request"
  /\ ~Valid(mine[c])
  /\ \E t \in Tokens : /\ Mint(t)
                       /\ held' = [held EXCEPT ![mine[c]] = t]
  /\ UNCHANGED <<fileVars, granted, caches, call, effects, crashes>>

\* The request: every exception becomes a GoogleAPIError, also one that comes
\* when Google has done what it was asked to (Bug: it is swallowed).
BugRequest(c) ==
  /\ pc[c] = "request"
  /\ effects' \in {effects, effects \cup {c}}
  /\ End(c, "returned")
  /\ UNCHANGED <<fileVars, google, held, caches, tool, proc, alone, crashes>>
Request(c) ==
  /\ pc[c] = "request"
  /\ \/ /\ Valid(mine[c])
        /\ effects' = IF tool[c].does = "changes" THEN effects \cup {c} ELSE effects
        /\ End(c, "returned") \/ End(c, "failed")
     \/ /\ End(c, "failed")
        /\ UNCHANGED effects
  /\ UNCHANGED <<fileVars, google, held, caches, tool, proc, alone, crashes>>

-----------------------------------------------------------------------------
\* Around the calls

Expire == /\ \E t \in live : live' = live \ {t}
          /\ UNCHANGED <<fileVars, minted, granted, held, caches, call, effects, crashes>>

\* A process dies, with its calls and its caches, and starts again.
Crash(p) ==
  LET hit == {c \in Calls : proc[c] = p /\ pc[c] \notin {"idle", "done"}}
  IN /\ p \in crashes
     /\ crashes' = crashes \ {p}
     /\ pc'     = [c \in Calls |-> IF c \in hit THEN "done" ELSE pc[c]]
     /\ ended'  = [c \in Calls |-> IF c \in hit THEN "killed" ELSE ended[c]]
     /\ mine'   = [c \in Calls |-> IF c \in hit THEN None ELSE mine[c]]
     /\ creds'  = [creds EXCEPT ![p] = None]
     /\ client' = [client EXCEPT ![p] = [s \in Services |-> None]]
     /\ IF hit \cap writing # {} THEN F!Abandon(hit \cap writing) ELSE UNCHANGED fileVars
     /\ UNCHANGED <<google, held, tool, proc, alone, effects>>

\* _regenerate_google_token.py, run by hand: a fresh consent, and its token is
\* written in place, or the script dies on the way.
StartConsent == /\ \E t \in Tokens : Mint(t) /\ granted' = t
                /\ F!Truncate(Consent)
                /\ UNCHANGED <<held, caches, call, effects, crashes>>
EndConsent   == /\ F!Finish(Consent, granted) \/ F!Abandon({Consent})
                /\ UNCHANGED <<google, held, caches, call, effects, crashes>>

Step(c) == \/ Begin(c) \/ LookUpService(c) \/ LookUpCredentials(c) \/ LoadToken(c)
           \/ Refresh(c) \/ StartSave(c) \/ EndSave(c) \/ CacheCredentials(c)
           \/ BuildClient(c) \/ RenewInUse(c) \/ Request(c)

Next == \/ \E c \in Calls : Step(c)
        \/ \E p \in Processes : Crash(p)
        \/ Expire \/ StartConsent \/ EndConsent

Spec == Init /\ [][Next]_vars

-----------------------------------------------------------------------------
\* Properties

\* token.json is written by nothing but whole rewrites in place, also by two
\* processes at once, so that it can be read whenever nobody writes it unless a
\* rewrite was cut short or met another one (InPlaceFile): a refresh that fails
\* costs the next run nothing.
IsRewrittenInPlace == F!FileSpec

\* "The token load happens only once per run": what a call loads is not loaded
\* again in its process, as long as it is valid there, by a call that runs alone;
\* two at once may both load it, none needs to when the client is built.
LoadedOncePerRun ==
  [][\A c \in Calls :
       LoadToken(c) /\ alone[c] =>
         /\ ~Valid(creds[proc[c]])
         /\ client[proc[c]][Service(c)] = None]_vars

\* Google is asked for nothing before the tool has its client, and what a tool
\* reports as done is done; only a failure of the request itself leaves it open.
ReportedIsDone ==
  \A c \in Calls :
    /\ ended[c] = "returned" /\ tool[c].does = "changes" => c \in effects
    /\ ended[c] = "no_service" => c \notin effects
=============================================================================
