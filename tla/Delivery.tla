------------------------------ MODULE Delivery ------------------------------
(***************************************************************************)
(* Sending what a job produced: _upload and the sends below it in          *)
(* services/worker.py, the flood budget of services/delivery.py, and the   *)
(* aim of the session (core/telegram_api.py, Settings.cloud_api_fallback,  *)
(* main.connect_bot) in a deployment with a local Bot API server. One      *)
(* Telegram call is one step. An upload is one attempt; that a failed job  *)
(* is tried again belongs to Worker.                                       *)
(***************************************************************************)
EXTENDS Naturals

CONSTANTS Upload,       \* uploads under way at once
          Posts,        \* per upload: what it may have to send
          GroupMax,     \* MEDIA_GROUP_MAX
          MaxRetries,   \* FLOOD_MAX_RETRIES
          PerWait,      \* FLOOD_PER_WAIT_MAX_S
          Total,        \* FLOOD_TOTAL_MAX_S
          Jitter,       \* FLOOD_JITTER_MAX_S
          Asks,         \* waits the server may ask for
          MaxFlips      \* bound: how often the local server goes or comes

\* Some pictures, then one file of another kind or none; large: more than the
\* cloud takes. Item photos + 1 is the other file.
Other == {"none", "audio", "video", "file"}
Shape == [photos : Nat, other : Other, large : BOOLEAN]

ASSUME DeliveryAssumption ==
  /\ Posts \in [Upload -> (SUBSET Shape) \ {{}}]
  /\ \A u \in Upload : \A p \in Posts[u] :
       /\ p.photos > 0 \/ p.other # "none"
       /\ p.large => p.photos = 0
  /\ GroupMax \in Nat \ {0}
  /\ {MaxRetries, PerWait, Total, Jitter, MaxFlips} \subseteq Nat
  /\ Asks \subseteq Nat

VARIABLES latched,  \* cloud_api_fallback
          driven,   \* the bot's session is the one that follows the latch
          localUp,  \* the local server answers
          probed,   \* the last recovery probe is younger than its interval
          up,       \* per upload: the frame of _upload and the sends below it
          copies,   \* history: per upload and item, messages in the chat
          flips

deliveryVars == <<latched, driven, localUp, probed, up, copies, flips>>

ItemsOf(p) == 1 .. (p.photos + (IF p.other = "none" THEN 0 ELSE 1))
AnyPost    == UNION {Posts[u] : u \in Upload}
Items      == UNION {ItemsOf(p) : p \in AnyPost}

Unsent == [post |-> CHOOSE p \in AnyPost : TRUE, at |-> "idle", as |-> "native",
           leg |-> "stream", mayUri |-> FALSE, next |-> 1, tries |-> 0, spent |-> 0,
           outerTries |-> 0, outerSpent |-> 0, named |-> TRUE, end |-> "none"]

DeliveryTypeOK ==
  /\ {latched, driven, localUp, probed} \subseteq BOOLEAN
  /\ up \in [Upload -> [post : AnyPost, at : {"idle", "aim", "probe", "send"},
                        as : {"group", "native", "document"},
                        leg : {"ref", "uri", "stream"}, mayUri : BOOLEAN,
                        next : Items, tries : 0..MaxRetries, spent : 0..(Total + Jitter),
                        outerTries : 0..MaxRetries, outerSpent : 0..(Total + Jitter),
                        named : BOOLEAN,
                        end : {"none", "delivered", "tooBig", "failed", "ceiling"}]]
  /\ copies \in [Upload -> [Items -> 0..2]]
  /\ flips \in 0..MaxFlips

\* connect_bot: a server that does not answer latches the fallback and has the
\* bot built anew, on a session of the cloud's own.
DeliveryInit ==
  /\ localUp \in BOOLEAN
  /\ latched = ~localUp /\ driven = localUp
  /\ probed = FALSE
  /\ up = [u \in Upload |-> Unsent]
  /\ copies = [u \in Upload |-> [i \in Items |-> 0]]
  /\ flips = 0

-----------------------------------------------------------------------------
(* How a file travels, and where to.                                       *)

Ref(fallback) == IF fallback THEN "stream" ELSE "uri"

\* SettingsDrivenAPIServer; a session without it always asks the cloud.
ToCloud == latched \/ ~driven

\* upload_limit_bytes: the cloud's ceiling while latched.
TooBig(p) == p.large /\ latched

\* The pictures of one media group, or the one item of a send.
Sending(f) == IF f.as = "group"
                THEN {i \in f.next .. f.post.photos : i < f.next + GroupMax}
                ELSE {f.next}

\* What the server may answer: the cloud knows no file URI and has a ceiling.
Answers(f) ==
  LET ref == IF f.leg = "ref" THEN Ref(latched) ELSE f.leg
  IN IF ToCloud
       THEN IF ref = "uri" THEN {"refused"}
            ELSE IF f.post.large THEN {"flood", "error", "ceiling"}
            ELSE {"ok", "flood", "refused", "error"}
       ELSE IF localUp THEN {"ok", "flood", "refused", "error"} ELSE {"error"}

Becomes(u, f) == up' = [up EXCEPT ![u] = f]
Lands(u, S) == copies' = [copies EXCEPT ![u] =
                 [i \in Items |-> IF i \in S /\ @[i] < 2 THEN @[i] + 1 ELSE @[i]]]
FreshCall(f)    == [f EXCEPT !.tries = 0, !.spent = 0]
Over(f, end)    == [Unsent EXCEPT !.post = f.post, !.named = f.named, !.end = end]
AlbumAnew(f)    == FreshCall([f EXCEPT !.next = 1, !.named = TRUE])

-----------------------------------------------------------------------------
\* _finish_upload: the ceiling of the moment decides before anything is sent;
\* an album goes as groups, one file the way its kind is sent.
StartUpload(u) ==
  /\ up[u].at = "idle"
  /\ \E p \in Posts[u] :
       Becomes(u, IF TooBig(p) THEN [Unsent EXCEPT !.post = p, !.end = "tooBig"]
                  ELSE [Unsent EXCEPT !.post = p, !.at = "aim",
                                      !.as = IF p.photos > 1 THEN "group" ELSE "native"])
  /\ copies' = [copies EXCEPT ![u] = [i \in Items |-> 0]]
  /\ UNCHANGED <<latched, driven, localUp, probed, flips>>

\* The reference is taken: a group looks at the latch again for every call.
Aimed(f, fallback) ==
  LET ref == Ref(fallback)
  IN FreshCall([f EXCEPT !.at = "send", !.mayUri = (ref = "uri"),
                         !.leg = IF f.as = "group" THEN "ref" ELSE ref])

\* _recover_local_api_if_healthy: nothing to do, or asked a moment ago.
Aim(u) ==
  /\ up[u].at = "aim"
  /\ IF latched /\ ~probed
       THEN probed' = TRUE /\ Becomes(u, [up[u] EXCEPT !.at = "probe"])
       ELSE Becomes(u, Aimed(up[u], latched)) /\ UNCHANGED probed
  /\ UNCHANGED <<latched, driven, localUp, copies, flips>>

\* local_api_is_reachable: a server that is back clears the latch.
ProbeServer(u) ==
  /\ up[u].at = "probe"
  /\ latched' = (latched /\ ~localUp)
  /\ Becomes(u, Aimed(up[u], latched'))
  /\ UNCHANGED <<driven, localUp, probed, copies, flips>>

-----------------------------------------------------------------------------
(* One call of a send, by what comes back.                                 *)

Sends(u, answer) == up[u].at = "send" /\ answer \in Answers(up[u])

LastSent(f) == CHOOSE i \in Sending(f) : \A j \in Sending(f) : j <= i

\* The next batch; or, once an id was missing, the end: _SentNoFileId leaves the
\* post there as delivered, the ids of an album being read after its last batch.
\* Else the next picture of a refused group, the file beside the pictures, or
\* the end.
After(f) ==
  LET last == LastSent(f)
  IN IF f.as = "group" /\ last < f.post.photos
       THEN FreshCall([f EXCEPT !.next = last + 1])
     ELSE IF ~f.named THEN Over(f, "delivered")
     ELSE IF last < f.post.photos
       THEN [f EXCEPT !.next = last + 1, !.at = "aim"]
     ELSE IF last = f.post.photos /\ f.post.other # "none"
       THEN [f EXCEPT !.next = last + 1, !.at = "aim", !.as = "native"]
     ELSE Over(f, "delivered")

\* It landed, with the id a later replay needs (_file_id, _photo_id) or without.
SendOk(u) ==
  /\ Sends(u, "ok")
  /\ Lands(u, Sending(up[u]))
  /\ \E named \in BOOLEAN : Becomes(u, After([up[u] EXCEPT !.named = @ /\ named]))
  /\ UNCHANGED <<latched, driven, localUp, probed, flips>>

\* Mutant: one retry too many.
PatientOnceMore(tries, spent, wait) ==
  tries <= MaxRetries /\ wait <= PerWait /\ spent + wait <= Total

\* flood_aware_call, kind "deliver": once more after the wait, or raised.
Patient(tries, spent, wait) == tries < MaxRetries /\ wait <= PerWait /\ spent + wait <= Total

\* A flood that a batch of a group does not outwait is raised into the call
\* around send_album, which has a budget of its own and starts the album anew.
SendFlood(u) ==
  /\ Sends(u, "flood")
  /\ \E wait \in Asks, jitter \in 0..Jitter :
       LET f == up[u] IN
         Becomes(u,
           IF Patient(f.tries, f.spent, wait)
             THEN [f EXCEPT !.tries = @ + 1, !.spent = @ + wait + jitter]
           ELSE IF f.as = "group" /\ Patient(f.outerTries, f.outerSpent, wait)
             THEN AlbumAnew([f EXCEPT !.outerTries = @ + 1,
                                      !.outerSpent = @ + wait + jitter])
           ELSE Over(f, "failed"))
  /\ UNCHANGED <<latched, driven, localUp, probed, copies, flips>>

\* A refusal. An album: the bytes instead of the URIs, then every picture as a
\* document; a file: the bytes, then a photo or a video as a document.
Instead(f) ==
  IF f.as = "group"
    THEN IF f.leg = "ref" /\ f.mayUri
           THEN AlbumAnew([f EXCEPT !.leg = "stream", !.outerTries = 0, !.outerSpent = 0])
           ELSE [f EXCEPT !.as = "document", !.next = 1, !.named = TRUE, !.at = "aim"]
  ELSE IF f.leg = "uri" THEN FreshCall([f EXCEPT !.leg = "stream"])
  ELSE IF f.as = "native" /\ (f.next <= f.post.photos \/ f.post.other = "video")
    THEN [f EXCEPT !.as = "document", !.at = "aim"]
  ELSE Over(f, "failed")

SendRefused(u) ==
  /\ Sends(u, "refused")
  /\ Becomes(u, Instead(up[u]))
  /\ UNCHANGED <<latched, driven, localUp, probed, copies, flips>>

\* Mutant: any error of the send has the bytes sent instead.
SendErrorStreams(u) ==
  /\ Sends(u, "error")
  /\ \E arrived \in BOOLEAN :
       /\ arrived => ToCloud \/ localUp
       /\ Lands(u, IF arrived THEN Sending(up[u]) ELSE {})
  /\ Becomes(u, Instead(up[u]))
  /\ UNCHANGED <<latched, driven, localUp, probed, flips>>

\* No answer, or a bad one: what was sent may have arrived, and nothing is
\* sent instead.
SendError(u) ==
  /\ Sends(u, "error")
  /\ \E arrived \in BOOLEAN :
       /\ arrived => ToCloud \/ localUp
       /\ Lands(u, IF arrived THEN Sending(up[u]) ELSE {})
  /\ Becomes(u, Over(up[u], "failed"))
  /\ UNCHANGED <<latched, driven, localUp, probed, flips>>

\* TelegramEntityTooLarge: the transport's ceiling, after all the work.
SendCeiling(u) ==
  /\ Sends(u, "ceiling")
  /\ Becomes(u, Over(up[u], "ceiling"))
  /\ UNCHANGED <<latched, driven, localUp, probed, copies, flips>>

-----------------------------------------------------------------------------
\* The local server goes or comes.
ServerFlips ==
  /\ flips < MaxFlips
  /\ localUp' = ~localUp
  /\ flips' = flips + 1
  /\ UNCHANGED <<latched, driven, probed, up, copies>>

\* LOCAL_API_RECOVERY_INTERVAL_S passes.
ProbeAges ==
  /\ probed
  /\ probed' = FALSE
  /\ UNCHANGED <<latched, driven, localUp, up, copies, flips>>

DeliveryNext ==
  \/ ServerFlips \/ ProbeAges
  \/ \E u \in Upload : \/ StartUpload(u) \/ Aim(u) \/ ProbeServer(u) \/ SendOk(u)
                       \/ SendFlood(u) \/ SendRefused(u) \/ SendError(u) \/ SendCeiling(u)

DeliverySpec == DeliveryInit /\ [][DeliveryNext]_deliveryVars

-----------------------------------------------------------------------------
\* Within one attempt no message is sent twice, whatever is refused, limited or
\* lost, wherever the session is aimed meanwhile, as long as an album fits one
\* group; and what counts as delivered is in the chat whole, unless Telegram kept
\* back an id (_deliver_ref, flood_aware_call, _send_photos, _upload).
DeliveredWhole ==
  \A u \in Upload :
    LET p == up[u].post IN
      /\ p.photos <= GroupMax => \A i \in Items : copies[u][i] <= 1
      /\ up[u].end = "delivered" /\ up[u].named => \A i \in ItemsOf(p) : copies[u][i] >= 1

\* A file the limit let through is never turned away by the transport's own
\* ceiling (upload_limit_mb, restore_local_api).
CeilingKept == \A u \in Upload : up[u].end # "ceiling"
=============================================================================
