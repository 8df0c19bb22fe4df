------------------------------ MODULE JobFiles ------------------------------
(***************************************************************************)
(* The files of a job: services/extractor.py download, services/fallback.py *)
(* fetch, services/verify.py, services/quality.py, _finish_upload and the  *)
(* disk sweep of services/worker.py. A run of yt-dlp is a thread that      *)
(* outlives the job waiting for it; every attempt has a directory of its   *)
(* own; the sweep judges directories by their age alone. Time is counted   *)
(* in steps long enough for the sweep to tell apart.                       *)
(***************************************************************************)
EXTENDS Integers, FiniteSets

CONSTANTS Order,         \* [format, tap, tier, track, strict]; tap 0: no rung was chosen
          Product,     \* files an engine may leave
          Retries,     \* EXTRACTOR_RETRY_ATTEMPTS
          RunBudget,   \* DOWNLOAD_TIMEOUT_S
          PullBudget,  \* COBALT_DOWNLOAD_TIMEOUT_S
          SendBudget,  \* what checking and sending take at most
          Headroom,    \* _JOB_CLEANUP_UPLOAD_HEADROOM_S
          LockTTL,     \* JOB_LOCK_TTL_S
          SweepAge,  \* JOB_CLEANUP_MAX_AGE_S
          MaxClock, MaxDirs, MaxJobs  \* bounds

\* <<codec, kbps>>; 0: no rate is named.
AUDIO_EXPORTS == ({"mp3"} \X {128, 192, 256, 320}) \cup ({"m4a"} \X {128, 192, 256})
                   \cup ({"opus"} \X {64, 96, 128, 192}) \cup ({"wav", "flac"} \X {0})
Original == <<"m4a", 0>>

\* What ffprobe and the engine say of a file. No container is named like the
\* kind of a label.
MediaFile == [as : {"video", "audio", "photo"}, suffix : STRING \ {"video"}, codec : STRING,
              kbps : Nat, w : Nat, h : Nat, said : Nat, source : Nat, streams : Nat,
              over : BOOLEAN, read : BOOLEAN, empty : BOOLEAN]

ASSUME JobFilesAssumption ==
  /\ Order \subseteq [format : {"video", "audio"}, tap : Nat,
                    tier : AUDIO_EXPORTS \cup {Original}, track : BOOLEAN, strict : BOOLEAN]
  /\ Product \subseteq MediaFile
  /\ {Retries, RunBudget, PullBudget, SendBudget, Headroom, LockTTL, SweepAge} \subseteq Nat
  /\ {MaxClock, MaxDirs, MaxJobs} \subseteq Nat
  \* Nothing in the code bounds these two by the age of the sweep.
  /\ PullBudget <= RunBudget + Headroom /\ SendBudget <= RunBudget + Headroom

VARIABLES ffmpeg, now,
          dirs,     \* job directories: newest mtime of each
          spent,    \* names handed out
          threads,  \* attempts under way: [dir, left, dropped]
          at,       \* where the job stands
          ask, jobs,
          began,    \* when its present wait began
          mine,     \* the directory of what it is about to send; 0: none
          made,     \* what is in it
          code,     \* the job's error
          use,      \* cobalt_last_use
          sent,     \* what the chat got: [file, label]
          cacheRows,     \* smart_cache: [ask, label, rungs], for a replay and the next menu
          filedAs,    \* block_events of this job: [code, cause]
          spills    \* history: runs nobody waits for any more, and deaths

filesVars == <<ffmpeg, now, dirs, spent, threads, at, ask, jobs, began, mine, made,
               code, use, sent, cacheRows, filedAs, spills>>

Unnamed == <<"", 0, 0>>
Unmade  == [as |-> "video", suffix |-> "", codec |-> "", kbps |-> 0, w |-> 0, h |-> 0, said |-> 0,
            source |-> 0, streams |-> 0, over |-> FALSE, read |-> FALSE, empty |-> TRUE]
NotSent == [file |-> Unmade, label |-> Unnamed]

RETRYABLE_EXTRACTION_CODES == {"SESSION_STALE"}
FALLBACK_ERROR_CODES == {"SESSION_STALE", "EXTRACTOR_BLOCKED", "IMAGE_ONLY"}
Codes == FALLBACK_ERROR_CODES \cup {"GENERAL"}
FileEnds  == {"TIMEOUT", "CONVERSION_MISMATCH", "FFMPEG_REQUIRED", "LOSSLESS_UNAVAILABLE",
          "DELIVERY_FAILED", "CANCELLED"}

FilesTypeOK ==
  /\ ffmpeg \in BOOLEAN /\ now \in 0..MaxClock /\ began \in 0..MaxClock
  /\ DOMAIN dirs \subseteq 1..spent /\ \A d \in DOMAIN dirs : dirs[d] \in 0..now
  /\ spent \in 0..MaxDirs /\ mine \in 0..spent /\ jobs \in 0..MaxJobs
  /\ threads \subseteq [dir : 1..spent, left : 0..Retries, dropped : BOOLEAN]
  /\ Cardinality({th \in threads : ~th.dropped}) <= 1
  /\ at \in {"idle", "wait", "run", "fetch", "pull", "check", "upload", "failed", "refused",
             "settled"}
  /\ ask \in Order /\ filedAs \subseteq [code : Codes, cause : {"session", "login", "ip", "site"}]
  /\ code \in Codes \cup FileEnds \cup {"none"} /\ use \in {"none", "used", "failed", "skipped"}
  /\ made \in MediaFile \cup {Unmade} /\ spills \in Nat

FilesInit ==
  /\ ffmpeg \in BOOLEAN /\ now = 0 /\ dirs = [d \in {} |-> 0] /\ spent = 0 /\ threads = {}
  /\ at = "idle" /\ ask \in Order /\ jobs = 0 /\ began = 0 /\ mine = 0 /\ made = Unmade
  /\ code = "none" /\ use = "none" /\ sent = NotSent /\ cacheRows = {} /\ filedAs = {}
  /\ spills = 0

Without(d)  == [e \in DOMAIN dirs \ {d} |-> dirs[e]]
With(f, d)  == [e \in DOMAIN f \cup {d} |-> IF e = d THEN now ELSE f[e]]
Larger(a, b) == IF a >= b THEN a ELSE b

-----------------------------------------------------------------------------
(* What the file testifies (services/verify.py).                           *)

Steps == {2160, 1440, 1080, 720, 480, 360, 240, 144}
Distance(a, b) == IF a >= b THEN a - b ELSE b - a

\* The short edge names it; a frame a few lines off the ladder is its rung.
quality_label_p(w, h) ==
  LET short == IF w > 0 /\ w < h THEN w ELSE h
      near  == {r \in Steps : Distance(short, r) <= 16}
  IN  IF h > 0 /\ near # {} THEN CHOOSE r \in near : TRUE ELSE IF h > 0 THEN short ELSE 0

height_mismatch(expected, measured) ==
  /\ expected > 0 /\ measured > 0
  /\ Distance(expected, measured) > 16 /\ Distance(expected, measured) * 20 > expected

bitrate_in_window(measured, nominal) ==
  7 * nominal <= 10 * measured /\ 10 * measured <= 15 * nominal

container_claims(suffix) ==
  CASE suffix = "m4a"             -> {"aac", "alac"}
    [] suffix \in {"opus", "webm"} -> {"opus", "vorbis"}
    [] suffix = "wav"             -> {"pcm"}
    [] OTHER                      -> {suffix}

\* The label names a rate only for the container the tier asked for.
RateNamed(tier, suffix) == IF tier # Original /\ suffix = tier[1] THEN tier[2] ELSE 0

check_audio(p, tier) ==
  \/ p.codec # "" /\ p.codec \notin container_claims(p.suffix)
  \/ LET named == RateNamed(tier, p.suffix)
     IN  named > 0 /\ p.kbps > 0 /\ ~bitrate_in_window(p.kbps, named)

\* A name meets the name of what was measured, a tap the measured height. A
\* pick nobody made is no promise.
check_video(p, a) ==
  \/ a.tap > 0 /\ height_mismatch(p.said, quality_label_p(p.w, p.h))
  \/ height_mismatch(a.tap, p.h)

check_produced(p, a) ==
  \/ p.streams = 0
  \/ IF a.format = "audio" THEN check_audio(p, a.tier) ELSE check_video(p, a)

\* Without ffprobe, or when it cannot read the file, nothing is contradicted.
Measured(p) == ffmpeg /\ p.read
verify_produced(p, a) == p.empty \/ (Measured(p) /\ check_produced(p, a))

\* A rate above the source's is true of the file and says nothing of the sound.
upscale_disclaimer(named, source) == IF source > 0 /\ named > source THEN source ELSE 0

\* <<name, kbps, rate of the source when it is below>>
produced_quality_label(p, a) ==
  IF a.format = "video"
    THEN LET seen == IF Measured(p) /\ p.as = "video" THEN quality_label_p(p.w, p.h) ELSE 0
         IN  <<"video", IF seen > 0 THEN seen ELSE p.said, 0>>
    ELSE LET named == RateNamed(a.tier, p.suffix)
         IN  <<p.suffix, named, upscale_disclaimer(named, p.source)>>

upload_caption(p, a) == [file |-> p, label |-> produced_quality_label(p, a)]

\* The rungs of a track are those of the video it was fetched through.
upload_ladder(p, a) == a.format = "video" /\ p.said > 0

\* ON CONFLICT DO NOTHING: the first file kept for a request stays.
store_cached_file(r) ==
  IF \E s \in cacheRows : s.ask = r.ask THEN cacheRows ELSE cacheRows \cup {r}

memorize(p, a) ==
  store_cached_file([ask |-> a, label |-> produced_quality_label(p, a),
                     rungs |-> upload_ladder(p, a)])

\* The worker names no source as verified lossless, so nothing passes for one.
plan_for_tier(a) ==
  CASE a.strict \/ a.tier[1] \in {"flac", "wav"} -> "refused"
    [] ~a.strict /\ a.tier = Original            -> "copied"
    [] OTHER                                     -> "transcoded"
spotify_audio_plan(a) == a.track /\ a.format = "audio" /\ plan_for_tier(a) = "refused"

-----------------------------------------------------------------------------
(* The job begins, and fails.                                              *)

SettleAs(state, why) ==
  /\ at' = state /\ code' = why /\ mine' = 0 /\ made' = Unmade
  /\ UNCHANGED <<ffmpeg, now, ask, jobs, began, sent, cacheRows, filedAs>>

\* The fallback engine knows no FLAC.
Servable(a) == ~(a.format = "audio" /\ a.tier[1] = "flac")

\* The net was needed and not there: the complement of taking it.
skip_reason(why, available) == why \in FALLBACK_ERROR_CODES /\ ~available

remember_use(outcome) == use' = outcome
note_fallback_skip(why, available) ==
  IF skip_reason(why, available) THEN remember_use("skipped") ELSE UNCHANGED use

\* An extraction error: the fallback, or the end of the attempt. Its instance
\* may be off or in quarantine.
EngineFails(why) ==
  \E available \in BOOLEAN :
    IF why \in FALLBACK_ERROR_CODES /\ available /\ Servable(ask)
      THEN /\ at' = "fetch" /\ code' = why /\ mine' = 0 /\ made' = Unmade
           /\ UNCHANGED <<ffmpeg, now, ask, jobs, began, use, sent, cacheRows, filedAs>>
      ELSE /\ note_fallback_skip(why, available)
           /\ SettleAs("failed", why)

\* A track asked for without loss is refused before anything is fetched, and
\* a conversion is refused where there is no ffmpeg.
Begin(a) ==
  /\ at \in {"idle", "failed", "refused", "settled"} /\ jobs < MaxJobs
  /\ LET refused  == spotify_audio_plan(a)
         unusable == a.format = "audio" /\ a.tier # Original /\ ~ffmpeg
     IN  /\ at' = IF refused \/ unusable THEN "failed" ELSE "wait"
         /\ code' = CASE refused               -> "LOSSLESS_UNAVAILABLE"
                      [] ~refused /\ unusable  -> "FFMPEG_REQUIRED"
                      [] OTHER                 -> "none"
  /\ ask' = a /\ jobs' = jobs + 1 /\ began' = now
  /\ sent' = NotSent /\ filedAs' = {} /\ mine' = 0 /\ made' = Unmade
  /\ UNCHANGED <<ffmpeg, now, dirs, spent, threads, use, cacheRows, spills>>

\* A thread of the pool takes the run up, in a directory of its own.
StartRun ==
  /\ at = "wait" /\ spent < MaxDirs
  /\ at' = "run" /\ spent' = spent + 1 /\ dirs' = With(dirs, spent + 1)
  /\ threads' = threads \cup {[dir |-> spent + 1, left |-> Retries, dropped |-> FALSE]}
  /\ UNCHANGED <<ffmpeg, now, ask, jobs, began, mine, made, code, use, sent, cacheRows,
                 filedAs, spills>>

\* The budget is over, or the worker is cancelled: nobody waits for the thread.
LetGo(why) ==
  /\ threads' = {[th EXCEPT !.dropped = TRUE] : th \in threads}
  /\ spills' = spills + (IF \E th \in threads : ~th.dropped THEN 1 ELSE 0)
  /\ SettleAs("failed", why)
  /\ UNCHANGED <<dirs, spent, use>>
TimeOut   == at \in {"wait", "run"} /\ now - began >= RunBudget /\ LetGo("TIMEOUT")
CancelRun == at \in {"wait", "run"} /\ LetGo("CANCELLED")

-----------------------------------------------------------------------------
(* The attempts of a run, waited for or not.                               *)

\* Progress; the hook of a dropped run raises, and its attempt cleans up.
Write(th) ==
  /\ IF th.dropped
       THEN threads' = threads \ {th} /\ dirs' = Without(th.dir)
       ELSE /\ th.dir \in DOMAIN dirs
            /\ dirs' = With(dirs, th.dir) /\ UNCHANGED threads
  /\ UNCHANGED <<ffmpeg, now, spent, at, ask, jobs, began, mine, made, code, use, sent,
                 cacheRows, filedAs, spills>>

\* Only a stale session is tried again, at once, and by a dropped run too.
AttemptFails(th, why) ==
  IF why \in RETRYABLE_EXTRACTION_CODES /\ th.left > 0
    THEN /\ spent < MaxDirs /\ spent' = spent + 1
         /\ dirs' = With(Without(th.dir), spent + 1)
         /\ threads' = (threads \ {th}) \cup
                         {[th EXCEPT !.dir = spent + 1, !.left = th.left - 1]}
         /\ UNCHANGED <<ffmpeg, now, at, ask, jobs, began, mine, made, code, use, sent,
                        cacheRows, filedAs, spills>>
    ELSE /\ threads' = threads \ {th} /\ dirs' = Without(th.dir)
         /\ IF th.dropped
              THEN UNCHANGED <<ffmpeg, now, at, ask, jobs, began, mine, made, code, use,
                               sent, cacheRows, filedAs>>
              ELSE EngineFails(why)
         /\ UNCHANGED <<spent, spills>>

\* A conversion leaves the container that was asked for, or fails.
Converted(p, a) == a.format = "audio" /\ a.tier # Original => p.suffix = a.tier[1]

\* What a dropped run has made stays where it is.
Produced(th, p) ==
  /\ p.as = ask.format /\ th.dir \in DOMAIN dirs /\ threads' = threads \ {th}
  /\ IF th.dropped
       THEN UNCHANGED <<ffmpeg, now, dirs, at, ask, jobs, began, mine, made, code, use,
                        sent, cacheRows, filedAs>>
     ELSE IF ~Converted(p, ask)
       THEN dirs' = Without(th.dir) /\ UNCHANGED use /\ SettleAs("failed", "CONVERSION_MISMATCH")
       ELSE /\ dirs' = With(dirs, th.dir) /\ at' = "check" /\ mine' = th.dir /\ made' = p
            /\ began' = now
            /\ UNCHANGED <<ffmpeg, now, ask, jobs, code, use, sent, cacheRows, filedAs>>
  /\ UNCHANGED <<spent, spills>>

-----------------------------------------------------------------------------
(* The fallback engine, in the event loop.                                 *)

StartPull ==
  /\ at = "fetch" /\ spent < MaxDirs
  /\ at' = "pull" /\ spent' = spent + 1 /\ mine' = spent + 1
  /\ dirs' = With(dirs, spent + 1) /\ began' = now
  /\ UNCHANGED <<ffmpeg, now, threads, ask, jobs, made, code, use, sent, cacheRows,
                 filedAs, spills>>

\* Every item of a post has the whole budget.
NextPart ==
  /\ at = "pull" /\ began' = now /\ dirs' = With(dirs, mine)
  /\ UNCHANGED <<ffmpeg, now, spent, threads, at, ask, jobs, mine, made, code, use, sent,
                 cacheRows, filedAs, spills>>

\* Nothing is kept of half a post; the error is the one that led here.
FetchFails ==
  /\ at \in {"fetch", "pull"} /\ dirs' = Without(mine)
  /\ remember_use("failed") /\ SettleAs("failed", code)
  /\ UNCHANGED <<spent, threads, spills>>

JarKinds == {"none", "anonymous", "login"}

\* An anonymous jar explains the refusal; a login that was refused does not.
login_looking_block(why, jar) == why \in {"SESSION_STALE", "EXTRACTOR_BLOCKED"} /\ jar # "login"
classify_block(why, jar) ==
  CASE why = "SESSION_STALE"     -> "session"
    [] why = "EXTRACTOR_BLOCKED" -> IF login_looking_block(why, jar) THEN "login" ELSE "ip"
    [] OTHER                     -> "site"

\* The failure the net covered is filed all the same.
record_block ==
  \E jar \in JarKinds : filedAs' = {[code |-> code, cause |-> classify_block(code, jar)]}

\* The fallback knows neither the height nor the rate of what it brings; it
\* takes no empty file, whose pull FetchFails.
Pulled(p) ==
  /\ ~p.empty
  /\ p.as = ask.format \/ (p.as = "photo" /\ ask.format = "video")
  /\ at = "pull" /\ dirs' = With(dirs, mine) /\ at' = "check" /\ began' = now
  /\ made' = [p EXCEPT !.said = 0, !.source = 0] /\ remember_use("used") /\ code' = "none"
  /\ record_block
  /\ UNCHANGED <<ffmpeg, now, spent, threads, ask, jobs, mine, sent, cacheRows, spills>>

-----------------------------------------------------------------------------
(* _finish_upload: whatever happens, the directory goes.                   *)

Dropping(state, why) ==
  /\ dirs' = Without(mine) /\ SettleAs(state, why) /\ UNCHANGED <<spent, threads, use, spills>>

\* An image is not measured.
Check ==
  /\ at = "check"
  /\ CASE made.over -> Dropping("refused", "none")
       [] ~made.over /\ made.as # "photo" /\ verify_produced(made, ask)
            -> Dropping("failed", "CONVERSION_MISMATCH")
       [] ~made.over /\ (made.as = "photo" \/ ~verify_produced(made, ask))
            -> /\ at' = "upload"
               /\ UNCHANGED <<ffmpeg, now, dirs, spent, threads, ask, jobs, began, mine,
                              made, code, use, sent, cacheRows, filedAs, spills>>

\* Confirmed by Telegram; what came back may not be worth a row.
Uploaded(cacheable) ==
  /\ at = "upload"
  /\ sent' = upload_caption(made, ask)
  /\ cacheRows' = IF cacheable THEN memorize(made, ask) ELSE cacheRows
  /\ dirs' = Without(mine) /\ at' = "settled" /\ mine' = 0 /\ made' = Unmade
  /\ UNCHANGED <<ffmpeg, now, spent, threads, ask, jobs, began, code, use, filedAs, spills>>

UploadRefused   == at = "upload" /\ Dropping("failed", "DELIVERY_FAILED")
CancelInLoop  == at \in {"fetch", "pull", "check", "upload"} /\ Dropping("failed", "CANCELLED")

-----------------------------------------------------------------------------
(* Deaths, time and the sweep.                                             *)

Die ==
  /\ at # "idle" \/ threads # {}
  /\ spills' = spills + (IF mine # 0 \/ \E th \in threads : ~th.dropped THEN 1 ELSE 0)
  /\ threads' = {} /\ UNCHANGED <<dirs, spent, use>> /\ SettleAs("idle", "none")

\* A job waits no longer than its budgets.
Tick ==
  /\ now < MaxClock
  /\ at \in {"wait", "run"}     => now - began < RunBudget
  /\ at = "pull"                => now - began < PullBudget
  /\ at \in {"check", "upload"} => now - began < SendBudget
  /\ now' = now + 1
  /\ UNCHANGED <<ffmpeg, dirs, spent, threads, at, ask, jobs, began, mine, made, code, use,
                 sent, cacheRows, filedAs, spills>>

job_cleanup_floor == Larger(LockTTL, RunBudget + Headroom)
job_cleanup_max_age_unclamped == SweepAge
job_cleanup_max_age == Larger(SweepAge, job_cleanup_floor)

\* Old by its newest mtime; whether its entries can be read is left open.
Stale(d) == dirs[d] < now - job_cleanup_max_age

Sweep(d) ==
  /\ Stale(d) /\ dirs' = Without(d)
  /\ UNCHANGED <<ffmpeg, now, spent, threads, at, ask, jobs, began, mine, made, code, use,
                 sent, cacheRows, filedAs, spills>>

FilesNext ==
  \/ \E a \in Order : Begin(a)
  \/ StartRun \/ TimeOut \/ CancelRun
  \/ \E th \in threads :
       \/ Write(th)
       \/ \E why \in Codes : AttemptFails(th, why)
       \/ \E p \in Product : Produced(th, p)
  \/ StartPull \/ NextPart \/ FetchFails
  \/ \E p \in Product : Pulled(p)
  \/ Check \/ UploadRefused \/ CancelInLoop \/ Die \/ Tick
  \/ \E cacheable \in BOOLEAN : Uploaded(cacheable)
  \/ \E d \in DOMAIN dirs : Sweep(d)

FilesSpec == FilesInit /\ [][FilesNext]_filesVars

-----------------------------------------------------------------------------
(* What the files of a job owe.                                            *)

Working == {th.dir : th \in threads} \cup ({mine} \ {0})

\* The sweep never takes a directory from under the job: an attempt that is
\* waited for, a fetch, a check and an upload have theirs.
LiveDirKept ==
  /\ \A th \in threads : ~th.dropped => th.dir \in DOMAIN dirs
  /\ mine # 0 => mine \in DOMAIN dirs

\* What lies about belongs to nobody only through a run that was let go or a
\* death, and there is no more of it than there were of those.
NothingForgotten == Cardinality(DOMAIN dirs \ Working) <= spills

\* What was measured is what is said: a rung that was tapped arrived, the
\* caption names the file that was sent, and so does the replay of it; no
\* track passes for lossless.
SentAsAsked ==
  LET p == sent.file IN
  sent # NotSent =>
    /\ ~p.over /\ ~p.empty
    /\ (ask.track /\ ask.format = "audio" => ask.tier[1] \notin {"flac", "wav"})
    /\ (Measured(p) /\ p.as # "photo") =>
         IF ask.format = "audio"
           THEN /\ p.codec = "" \/ p.codec \in container_claims(sent.label[1])
                /\ p.kbps > 0 /\ sent.label[2] > 0 => bitrate_in_window(p.kbps, sent.label[2])
           ELSE /\ ask.tap > 0 /\ p.h > 0 => ~height_mismatch(ask.tap, p.h)
                /\ p.h > 0 => sent.label[2] = quality_label_p(p.w, p.h)

\* A request has one row, its replay speaks of what its format is, and the next
\* menu of a track offers no rungs of a video.
RowsHonest ==
  \A r \in cacheRows :
    /\ \A s \in cacheRows : s.ask = r.ask => s = r
    /\ r.ask.format = "audio" => ~r.rungs /\ r.label[1] # "video"

\* Of a link the net should have saved, the panel knows what became of it.
NetNoted ==
  /\ at = "failed" /\ code \in FALLBACK_ERROR_CODES /\ Servable(ask)
       => use \in {"failed", "skipped"}
  /\ at = "settled" /\ sent.file.as = "photo" => use = "used"
  /\ at = "settled" /\ filedAs # {} => use = "used"
  /\ \A e \in filedAs : e.cause = "site" => e.code = "IMAGE_ONLY"

FilesHonest == LiveDirKept /\ NothingForgotten /\ SentAsAsked /\ RowsHonest /\ NetNoted
=============================================================================
