------------------------------ MODULE Cookies ------------------------------
(***************************************************************************)
(* The cookie jar and everyone who touches it: imports from a browser      *)
(* profile (services/cookie_refresh.py in the bot, scripts/fix_login.py    *)
(* beside it), exports by hand, yt-dlp runs that take a writable copy      *)
(* (services/extractor.py), and the watcher (services/cookie_watch.py).    *)
(* A step is a file operation, or code between two awaits of the bot.      *)
(***************************************************************************)
EXTENDS Naturals, FiniteSets

CONSTANTS Asker,      \* handlers and failed downloads of the bot that ask for a refresh
          Wizard,     \* runs of fix_login.py
          YtRun,      \* yt-dlp runs, in threads of the bot
          NoFile,     \* there is no candidate
          MaxWrites   \* bound: writes of the jar

ASSUME CookiesAssumption == Asker \cap Wizard = {} /\ "bot" \notin Wizard
                            /\ MaxWrites \in Nat \ {0}

\* What a jar on disk is: absent, unusable, usable without and with a login.
Jar == {"missing", "bad", "anon", "login"}
Usable(kind) == kind \in {"anon", "login"}

Importer == Asker \cup Wizard
Copy     == [stamp : 0..MaxWrites, has : 0..MaxWrites, noted : SUBSET YtRun, moved : SUBSET YtRun]
Copying  == [at : {"idle", "copy", "move", "note"}, stamp : 0..MaxWrites, has : 0..MaxWrites]

VARIABLES jar,        \* [kind, stamp]: the stamp stands for mtime and size
          candidate,  \* per process: the file beside the jar, named for the pid
          import,     \* per importer: [at, saw]
          inFlight,   \* _in_flight
          copied,     \* _cookie_copy_stamp and which jar the copy holds; as
                      \* history, which run noted the one and which moved the other
          run,        \* per yt-dlp run
          watch,      \* CookieJarWatcher: [primed, announced]
          told,       \* history: stamps announced
          wrong       \* history: which promises were broken

cookieVars == <<jar, candidate, import, inFlight, copied, run, watch, told, wrong>>

\* The candidate's name holds the process id: the bot's importers share one.
Beside(i) == IF i \in Wizard THEN i ELSE "bot"

CookiesTypeOK ==
  /\ jar \in [kind : Jar, stamp : 0..MaxWrites]
  /\ candidate \in [Wizard \cup {"bot"} -> Jar \cup {NoFile}]
  /\ import \in [Importer -> [at : {"idle", "export", "judge", "place"}, saw : 0..MaxWrites]]
  /\ inFlight \in BOOLEAN
  /\ copied \in Copy
  /\ run \in [YtRun -> Copying]
  /\ watch \in [primed : BOOLEAN, announced : 0..MaxWrites]
  /\ told \subseteq 1..MaxWrites
  /\ wrong \subseteq {"login lost", "told twice"}

Resting   == [at |-> "idle", saw |-> 0]
NoCopying == [at |-> "idle", stamp |-> 0, has |-> 0]

CookiesInit ==
  /\ jar \in {[kind |-> "missing", stamp |-> 0], [kind |-> "login", stamp |-> 1]}
  /\ candidate = [f \in Wizard \cup {"bot"} |-> NoFile]
  /\ import = [i \in Importer |-> Resting]
  /\ inFlight = FALSE
  /\ copied \in [stamp : {0}, has : {0, jar.stamp}, noted : {{}}, moved : {{}}]
  /\ run = [r \in YtRun |-> NoCopying]
  /\ watch = [primed |-> FALSE, announced |-> 0]
  /\ told = {} /\ wrong = {}

-----------------------------------------------------------------------------
(* Writers of the jar.                                                     *)

JarBecomes(kind) ==
  /\ jar.stamp < MaxWrites
  /\ jar' = [kind |-> kind, stamp |-> jar.stamp + 1]

\* export_cookies.py writes in place, so a reader may meet half a jar; an
\* operator may also move a file there, or take it away.
WrittenByHand ==
  /\ \E kind \in Jar : JarBecomes(kind)
  /\ UNCHANGED <<candidate, import, inFlight, copied, run, watch, told, wrong>>

\* Mutant: no _in_flight; a second refresh starts beside the first.
AskRefreshAnyway(i) ==
  /\ i \in Asker /\ import[i].at = "idle"
  /\ inFlight' = TRUE
  /\ import' = [import EXCEPT ![i].at = "export"]
  /\ UNCHANGED <<jar, candidate, copied, run, watch, told, wrong>>

\* auto_refresh_jar: one at a time in the bot.
AskRefresh(i) ==
  /\ i \in Asker /\ import[i].at = "idle"
  /\ ~inFlight
  /\ inFlight' = TRUE
  /\ import' = [import EXCEPT ![i].at = "export"]
  /\ UNCHANGED <<jar, candidate, copied, run, watch, told, wrong>>

\* fix_login.py imports only over a jar that does not sign in.
StartWizard(i) ==
  /\ i \in Wizard /\ import[i].at = "idle"
  /\ jar.kind # "login"
  /\ import' = [import EXCEPT ![i].at = "export"]
  /\ UNCHANGED <<jar, candidate, inFlight, copied, run, watch, told, wrong>>

\* The end of an import: the candidate is unlinked, whoever wrote it last.
ImportEnds(i) ==
  /\ import' = [import EXCEPT ![i] = Resting]
  /\ candidate' = [candidate EXCEPT ![Beside(i)] = NoFile]
  /\ inFlight' = IF i \in Asker THEN FALSE ELSE inFlight

\* export_jar_from_browser, in a thread; it may raise.
Export(i) ==
  /\ import[i].at = "export"
  /\ \/ /\ \E kind \in Jar \ {"missing"} : candidate' = [candidate EXCEPT ![Beside(i)] = kind]
        /\ import' = [import EXCEPT ![i].at = "judge"]
        /\ UNCHANGED inFlight
     \/ ImportEnds(i)
  /\ UNCHANGED <<jar, copied, run, watch, told, wrong>>

\* candidate_rejection
Rejected(kind) == ~Usable(kind) \/ (kind = "anon" /\ jar.kind = "login")

Judge(i) ==
  /\ import[i].at = "judge"
  /\ IF Rejected(candidate[Beside(i)])
       THEN ImportEnds(i)
       ELSE /\ import' = [import EXCEPT ![i].at = "place", ![i].saw = jar.stamp]
            /\ UNCHANGED <<candidate, inFlight>>
  /\ UNCHANGED <<jar, copied, run, watch, told, wrong>>

\* os.replace, and the unlink that finds nothing. The probe that follows is a
\* yt-dlp run, and _in_flight stays up until it has answered.
Place(i) ==
  /\ import[i].at = "place"
  /\ IF candidate[Beside(i)] = NoFile
       THEN UNCHANGED <<jar, wrong>>
       ELSE /\ JarBecomes(candidate[Beside(i)])
            /\ wrong' = IF /\ jar.kind = "login" /\ candidate[Beside(i)] # "login"
                           /\ import[i].saw = jar.stamp
                        THEN wrong \cup {"login lost"} ELSE wrong
  /\ ImportEnds(i)
  /\ UNCHANGED <<copied, run, watch, told>>

-----------------------------------------------------------------------------
(* _writable_cookie_file, in the threads of the yt-dlp runs.               *)

\* The stamp first; an up-to-date copy is taken as it is.
StatJar(r) ==
  /\ run[r].at = "idle" /\ Usable(jar.kind)
  /\ copied.stamp # jar.stamp
  /\ run' = [run EXCEPT ![r] = [at |-> "copy", stamp |-> jar.stamp, has |-> 0]]
  /\ UNCHANGED <<jar, candidate, import, inFlight, copied, watch, told, wrong>>

\* copyfile to a private name, and os.replace: a jar that is gone by now ends
\* it, and the run goes without cookies.
ReadJar(r) ==
  /\ run[r].at = "copy"
  /\ run' = IF jar.kind = "missing" THEN [run EXCEPT ![r] = NoCopying]
            ELSE [run EXCEPT ![r].at = "move", ![r].has = jar.stamp]
  /\ UNCHANGED <<jar, candidate, import, inFlight, copied, watch, told, wrong>>

MoveCopy(r) ==
  /\ run[r].at = "move"
  /\ copied' = [copied EXCEPT !.has = run[r].has, !.moved = {r}]
  /\ run' = [run EXCEPT ![r].at = "note"]
  /\ UNCHANGED <<jar, candidate, import, inFlight, watch, told, wrong>>

NoteStamp(r) ==
  /\ run[r].at = "note"
  /\ copied' = [copied EXCEPT !.stamp = run[r].stamp, !.noted = {r}]
  /\ run' = [run EXCEPT ![r] = NoCopying]
  /\ UNCHANGED <<jar, candidate, import, inFlight, watch, told, wrong>>

-----------------------------------------------------------------------------
(* The watcher.                                                            *)

\* cookie_jar_state: exact once this process copied, by time before that.
InSync == /\ copied.has # 0
          /\ IF copied.stamp # 0 THEN copied.stamp = jar.stamp ELSE copied.has >= jar.stamp

ExportStamp == IF jar.kind = "missing" THEN 0 ELSE jar.stamp

\* _decide: the first look is the baseline. The alert goes out after the look
\* was noted, whether or not it reaches anybody. The alert for a jar that
\* stopped working has no state of its own and is left out.
Watch ==
  /\ watch' = [primed |-> TRUE, announced |-> ExportStamp]
  /\ LET fresh == watch.primed /\ Usable(jar.kind) /\ ExportStamp # watch.announced /\ ~InSync IN
       /\ told' = IF fresh THEN told \cup {ExportStamp} ELSE told
       /\ wrong' = IF fresh /\ ExportStamp \in told THEN wrong \cup {"told twice"} ELSE wrong
  /\ UNCHANGED <<jar, candidate, import, inFlight, copied, run>>

\* The importers and the readers meet at the jar only: to a reader an import is
\* a write like one by hand, and nothing it does matters to an importer.
ImportNext ==
  \/ WrittenByHand
  \/ \E i \in Importer : \/ AskRefresh(i) \/ StartWizard(i) \/ Export(i) \/ Judge(i) \/ Place(i)

CopyNext ==
  \/ WrittenByHand \/ Watch
  \/ \E r \in YtRun : StatJar(r) \/ ReadJar(r) \/ MoveCopy(r) \/ NoteStamp(r)

CookiesNext == ImportNext \/ CopyNext

CookiesSpec == CookiesInit /\ [][CookiesNext]_cookieVars

-----------------------------------------------------------------------------
\* An import never takes a login away, unless another process wrote the jar
\* between its look and its move; no export is announced twice; and a copy whose
\* bytes and stamp come of one run is no older than the jar it passes for: of two
\* runs that copy at once, only the older bytes under the other one's stamp are
\* (import_from_profile, auto_refresh_jar, _decide, _writable_cookie_file).
JarKept ==
  /\ wrong = {}
  /\ copied.moved = copied.noted => copied.has >= copied.stamp
=============================================================================
