------------------------------- MODULE Doctor -------------------------------
(***************************************************************************)
(* services/doctor.py, and what main.py decides once at boot: the token    *)
(* provider and the tunnel the extractor is built with. The doctor asks    *)
(* the helpers one after the other, tests a link, asks the fallback engine *)
(* and turns what it saw into one verdict. Helpers come and go meanwhile,  *)
(* and what it wrote down of the fallback is read after a restart.         *)
(***************************************************************************)
EXTENDS Naturals

CONSTANTS Deployment,  \* settings: [provider, plugin, tunnel, oauth, node]
          Address,     \* addresses of fallback instances
          Embedded,    \* those of the one the stack runs itself
          NoAddress,   \* COBALT_API_URL empty
          Opinion,     \* what the fallback answers: ready, auth, youtube, ...
          Patience,    \* attempts at a helper while booting
          MaxFlaps,    \* bound: changes of the helpers and of the jar
          MaxReports   \* bound: reports and restarts

ASSUME DoctorAssumption ==
  /\ Deployment \subseteq [provider : BOOLEAN, plugin : BOOLEAN, tunnel : BOOLEAN,
                           oauth : BOOLEAN, node : Address \cup {NoAddress}]
  /\ Embedded \subseteq Address /\ NoAddress \notin Address
  /\ Patience \in Nat \ {0} /\ {MaxFlaps, MaxReports} \subseteq Nat

VARIABLES conf,
          world,    \* what is out there: [jar, provider, tunnel]
          flaps,
          built,     \* what the extractor was built with: [provider, tunnel]
          report,   \* where boot or the report stands
          attempt,
          seen,     \* the report so far
          verdict,
          reports,
          written,  \* bot_state: the last verdict on the fallback, [state, node]
          recalled  \* what an offline report said of the fallback

doctorVars == <<conf, world, flaps, built, report, attempt, seen, verdict, reports,
                written, recalled>>

JarIs       == {"unset", "unreadable", "anonymous", "login"}
ProviderIs  == {"down", "error", "mismatch", "up"}
TunnelIs    == {"down", "plain", "untraced", "warp"}
Tests         == {"ok", "OAUTH_REFUSED", "SESSION_STALE", "EXTRACTOR_BLOCKED", "other"}
Blamed        == {"oauth", "link", "provider off", "provider", "jar", "tunnel", "exit",
                  "address", "youtube"}
World         == [jar : JarIs, provider : ProviderIs, tunnel : TunnelIs]
Unseen        == [jar |-> "unset", provider |-> "down", tunnel |-> "down", live |-> "other"]
Unknown       == [state |-> "unknown", node |-> NoAddress]
Answer        == [state : Opinion \cup {"quarantined", "off", "unknown"}, node : Address \cup {NoAddress}]

DoctorTypeOK ==
  /\ conf \in Deployment /\ world \in World
  /\ flaps \in 0..MaxFlaps /\ attempt \in 0..(Patience - 1) /\ reports \in 0..MaxReports
  /\ built \in [provider : BOOLEAN, tunnel : BOOLEAN]
  /\ report \in {"boot", "booting", "idle", "tunnel", "rows", "live", "fallback", "judge"}
  /\ seen \in [jar : JarIs, provider : ProviderIs, tunnel : TunnelIs, live : Tests]
  /\ verdict \in Blamed \cup {"none", "healthy"}
  /\ written \in Answer /\ recalled \in Answer

DoctorInit ==
  /\ conf \in Deployment /\ world \in World
  /\ flaps = 0 /\ reports = 0 /\ report = "boot" /\ attempt = 0
  /\ built = [provider |-> FALSE, tunnel |-> FALSE]
  /\ seen = Unseen /\ verdict = "none" /\ written = Unknown /\ recalled = Unknown

\* A helper starts, stops or is replaced; the jar is exported anew.
Flap ==
  /\ flaps < MaxFlaps /\ flaps' = flaps + 1
  /\ \E p \in ProviderIs, t \in TunnelIs, j \in JarIs :
       world' \in {[world EXCEPT !.provider = p], [world EXCEPT !.tunnel = t],
                   [world EXCEPT !.jar = j]}
  /\ UNCHANGED <<conf, built, report, attempt, seen, verdict, reports, written, recalled>>

-----------------------------------------------------------------------------
(* Boot: what the extractor will use for as long as the process lives.     *)

BootStep(here, helper, wanted, answers, next) ==
  /\ report = here
  /\ IF wanted /\ ~answers /\ attempt + 1 < Patience
       THEN attempt' = attempt + 1 /\ UNCHANGED <<report, built>>
       ELSE /\ attempt' = 0 /\ report' = next
            /\ built' = [built EXCEPT ![helper] = wanted /\ answers]
  /\ UNCHANGED <<conf, world, flaps, seen, verdict, reports, written, recalled>>

\* Whatever answers is taken, whatever its version.
resolve_pot_provider ==
  BootStep("boot", "provider", conf.provider, world.provider \in {"up", "mismatch"}, "booting")
resolve_tunnel ==
  BootStep("booting", "tunnel", conf.tunnel, world.tunnel # "down", "idle")

\* The process is started again, with other settings perhaps.
Reboot ==
  /\ report = "idle" /\ reports < MaxReports /\ reports' = reports + 1
  /\ conf' \in Deployment /\ report' = "boot"
  /\ built' = [provider |-> FALSE, tunnel |-> FALSE]
  /\ seen' = Unseen /\ verdict' = "none" /\ recalled' = Unknown
  /\ UNCHANGED <<world, flaps, attempt, written>>

-----------------------------------------------------------------------------
(* The rows, and the verdict over them.                                    *)

CookieRow == CASE seen.jar = "login"      -> "ok"
               [] seen.jar = "unreadable" -> "fail"
               [] OTHER                   -> "warn"

\* A server of another major version answers, and the plugin rejects its tokens.
ProviderRow == IF ~conf.provider THEN "warn"
               ELSE IF ~conf.plugin \/ seen.provider \in {"down", "error"} THEN "fail"
               ELSE IF seen.provider = "mismatch" THEN "warn" ELSE "ok"

TunnelRow == IF ~conf.tunnel \/ seen.tunnel \in {"warp", "untraced"} THEN "ok"
             ELSE IF seen.tunnel = "down" THEN "fail" ELSE "warn"

\* The session was accepted and the request was not.
StaleVerdict == IF ~conf.provider THEN "provider off"
                ELSE IF ProviderRow = "fail" THEN "provider"
                ELSE IF CookieRow # "ok" THEN "jar" ELSE "youtube"

\* Mutant: the provider is not looked at.
BlockedVerdictUnasked == IF CookieRow # "ok" THEN "jar"
                         ELSE IF ~conf.provider THEN "provider off"
                         ELSE IF TunnelRow # "ok" THEN "tunnel"
                         ELSE IF conf.tunnel THEN "exit" ELSE "address"

BlockedVerdict == IF CookieRow # "ok" THEN "jar"
                  ELSE IF ~conf.provider THEN "provider off"
                  ELSE IF ProviderRow = "fail" THEN "provider"
                  ELSE IF TunnelRow # "ok" THEN "tunnel"
                  ELSE IF conf.tunnel THEN "exit" ELSE "address"

Diagnosis == CASE seen.live = "ok"                -> "healthy"
                [] seen.live = "OAUTH_REFUSED"     -> "oauth"
                [] seen.live = "SESSION_STALE"     -> StaleVerdict
                [] seen.live = "EXTRACTOR_BLOCKED" -> BlockedVerdict
                [] OTHER                           -> "link"

-----------------------------------------------------------------------------
(* run_youtube_doctor, one await after the other.                          *)

Poll(here, next, found) ==
  /\ report = here /\ report' = next /\ seen' = found
  /\ recalled' = Unknown
  /\ UNCHANGED <<conf, world, flaps, built, attempt>>

\* /doctor, or the button under an alert.
AskProvider ==
  /\ reports < MaxReports /\ reports' = reports + 1 /\ verdict' = "none"
  /\ Poll("idle", "tunnel",
          [Unseen EXCEPT !.provider = IF conf.provider THEN world.provider ELSE "down"])
  /\ UNCHANGED written

AskTunnel ==
  /\ Poll("tunnel", "rows", [seen EXCEPT !.tunnel = IF conf.tunnel THEN world.tunnel ELSE "down"])
  /\ UNCHANGED <<verdict, reports, written>>

\* The rows are made before the link is tested.
MakeRows == /\ Poll("rows", "live", [seen EXCEPT !.jar = world.jar])
           /\ UNCHANGED <<verdict, reports, written>>

TestLink == \E found \in Tests :
              /\ found = "OAUTH_REFUSED" => conf.oauth
              /\ Poll("live", "fallback", [seen EXCEPT !.live = found])
              /\ UNCHANGED <<verdict, reports, written>>

\* Writing the answer down may fail; without an instance there is still one.
AskFallback ==
  /\ Poll("fallback", "judge", seen)
  /\ \E state \in IF conf.node = NoAddress THEN {"off"} ELSE Opinion :
       written' \in {written, [state |-> state, node |-> conf.node]}
  /\ UNCHANGED <<verdict, reports>>

\* The report is sent, or something under it raised and there is none.
Decide == /\ Poll("judge", "idle", seen)
         /\ verdict' \in {Diagnosis, "none"}
         /\ UNCHANGED <<reports, written>>

-----------------------------------------------------------------------------
(* The offline answer (/blocks).                                           *)

\* The embedded instance has several addresses; an answer without one fits all.
About(answer) == \/ answer.node \in {NoAddress, conf.node}
                 \/ {answer.node, conf.node} \subseteq Embedded

\* A quarantine of this process is known without asking.
Recall ==
  /\ report = "idle"
  /\ \/ /\ conf.node = NoAddress
        /\ recalled' = [state |-> "off", node |-> NoAddress]
     \/ /\ conf.node # NoAddress
        /\ recalled' = [state |-> "quarantined", node |-> conf.node]
     \/ /\ conf.node # NoAddress
        /\ recalled' = IF written # Unknown /\ About(written) THEN written
                       ELSE [Unknown EXCEPT !.node = conf.node]
  /\ UNCHANGED <<conf, world, flaps, built, report, attempt, seen, verdict, reports, written>>

-----------------------------------------------------------------------------
DoctorNext ==
  \/ Flap \/ resolve_pot_provider \/ resolve_tunnel \/ Reboot
  \/ AskProvider \/ AskTunnel \/ MakeRows \/ TestLink \/ AskFallback \/ Decide
  \/ Recall

DoctorSpec == DoctorInit /\ [][DoctorNext]_doctorVars

\* The operator is sent after another address only when the login was there and
\* the running extractor goes through everything it was configured with; "all in
\* place" is said of no less. Helpers that changed since boot are the exception:
\* the extractor keeps what it was built with (main.py:148) and the rows show
\* what is out there now.
BlameFair ==
  /\ verdict \in {"exit", "address", "youtube"} => seen.jar = "login"
  /\ verdict \in {"exit", "address", "youtube"} /\ flaps = 0 => built.provider
  /\ verdict \in {"exit", "address"} /\ flaps = 0 => built.tunnel = conf.tunnel
  /\ verdict = "jar" => seen.jar # "login"

\* A remembered answer is about the machine that is configured now, under
\* whichever of its addresses. "off" is the exception: it was written down
\* without an address, and reads as an answer about any.
RecalledAbout ==
  recalled.state \notin {"unknown", "off"} =>
    recalled.node = conf.node \/ {recalled.node, conf.node} \subseteq Embedded

\* Both.
DoctorHonest == BlameFair /\ RecalledAbout
=============================================================================
