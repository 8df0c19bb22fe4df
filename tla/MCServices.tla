----------------------------- MODULE MCServices -----------------------------
(* Services that share no state: a behaviour is one of one of them.         *)
EXTENDS Engines, Probe, Delivery, Restore, Cookies, Membership, HelperWatch, MCMenu,
        Lifecycle, Doctor, Songs, JobFiles, TLC

CONSTANTS n1, n2, job1, job2, s1, g1, v1, v2, h1, h2, d3

VARIABLE service

Others(name) == /\ service = name /\ UNCHANGED service
                /\ name # "engines" => UNCHANGED engineVars
                /\ name # "probe"   => UNCHANGED probeVars
                /\ name # "delivery" => UNCHANGED deliveryVars
                /\ name # "restore" => UNCHANGED restoreVars
                /\ name \notin {"imports", "copies"} => UNCHANGED cookieVars
                /\ name # "joins"   => UNCHANGED membershipVars
                /\ name \notin {"helpers", "notices"} => UNCHANGED helperVars
                /\ name # "menu"    => UNCHANGED menuVars
                /\ name # "life"    => UNCHANGED lifecycleVars
                /\ name # "files" => UNCHANGED filesVars
                /\ name # "doctor" => UNCHANGED doctorVars
                /\ name # "songs" => UNCHANGED songVars

Outside(j, p, t) == [jar |-> j, provider |-> p, tunnel |-> t]
MCWorlds == {Outside("login", "up", "warp"), Outside("anonymous", "mismatch", "plain"),
             Outside("login", "down", "untraced"), Outside("login", "error", "down")}

Wants(f, tap, tier, track) ==
  [format |-> f, tap |-> tap, tier |-> tier, track |-> track, strict |-> FALSE]
MCOrder == Wants("video", 0, <<"m4a", 0>>, FALSE)

Init == /\ service \in {"engines", "probe", "delivery", "restore", "imports", "copies", "joins",
                        "helpers", "notices", "menu", "life", "doctor", "songs",
                        "files"}
        /\ EnginesInit /\ ProbeInit /\ DeliveryInit /\ RestoreInit
        /\ CookiesInit /\ MembershipInit /\ HelperWatchInit /\ MenuInit
        /\ LifecycleInit
        /\ DoctorInit
        /\ SongsInit
        /\ FilesInit
        /\ service # "delivery" => localUp
        /\ service \notin {"imports", "copies"} => jar.kind = "missing"
        /\ service # "menu" => filed = {}
        /\ service # "life" => mode = "polling"
        /\ service # "songs" => redis
        /\ service # "files" => ffmpeg /\ ask = MCOrder
        /\ service = "doctor" => world \in MCWorlds
        /\ service # "doctor" => world = Outside("login", "up", "warp") /\ conf.node = n1

Next == \/ Others("engines") /\ EnginesNext
        \/ Others("probe") /\ ProbeNext
        \/ Others("delivery") /\ DeliveryNext
        \/ Others("restore") /\ RestoreNext
        \/ Others("imports") /\ ImportNext
        \/ Others("copies") /\ CopyNext
        \/ Others("joins") /\ MembershipNext
        \/ Others("helpers") /\ (SweepNext \/ WatchTick)
        \/ Others("notices") /\ (NoticeNext \/ WatchTick)
        \/ Others("menu") /\ MenuNext
        \/ Others("life") /\ LifecycleNext
        \/ Others("files") /\ FilesNext
        \/ Others("doctor") /\ DoctorNext
        \/ Others("songs") /\ SongsNext

Spec == /\ Init
        /\ [][Next]_<<service, engineVars, probeVars, deliveryVars, restoreVars,
                      cookieVars, membershipVars, helperVars, menuVars,
                      lifecycleVars, doctorVars, songVars, filesVars>>

\* The type invariants of the parts.
ServicesTypeOK == /\ EnginesTypeOK /\ ProbeTypeOK /\ DeliveryTypeOK
                  /\ RestoreTypeOK /\ CookiesTypeOK /\ MembershipTypeOK /\ HelperWatchTypeOK
                  /\ MenuTypeOK /\ LifecycleTypeOK /\ DoctorTypeOK /\ SongsTypeOK
                  /\ FilesTypeOK

HandlerSymmetry == Permutations({h1, h2})

\* Everything on behind the first node, and half of it beside the embedded one.
MCDeployments ==
  {[provider |-> TRUE, plugin |-> TRUE, tunnel |-> TRUE, oauth |-> TRUE, node |-> n1],
   [provider |-> TRUE, plugin |-> TRUE, tunnel |-> FALSE, oauth |-> FALSE, node |-> n2],
   [provider |-> FALSE, plugin |-> FALSE, tunnel |-> TRUE, oauth |-> FALSE, node |-> d3]}

OneHelper == <<"tunnel">>

OneFile == {[texts |-> v2, state |-> [r \in Row |-> IF r \in Setting THEN v2 ELSE Missing]]}
TwoNodes   == <<n1, n2>>
TwoDialects == n1 :> 1 @@ n2 :> 2

\* One list of each kind: mixed, only clients a login excludes, ones that may
\* race, the default, a single one.
ClientLists == {<<"mweb", "tv", "android">>, <<"tv", "ios">>, <<"web", "android">>, <<>>, <<"tv">>}

Video(w, h, codec) == [w |-> w, h |-> h, codec |-> codec]

\* Landscape; a taller row in a worse codec; portrait beside an unknown width
\* and a 1088-line coding; two rows of one label.
FourViews ==
  {{Video(1920, 1080, "avc"), Video(1280, 720, "avc")},
   {Video(854, 480, "hevc"), Video(1280, 720, "avc")},
   {Video(1080, 1920, "other"), Video(0, 480, "avc"), Video(1920, 1088, "hevc")},
   {Video(640, 360, "other"), Video(360, 640, "avc")}}

Shaped(photos, other, large) == [photos |-> photos, other |-> other, large |-> large]

\* One photo, an album of two groups, photos and a video, a small and a large
\* video; beside them another chat gets its song.
MCUpload == {job1, job2}
MCPosts  == job1 :> {Shaped(1, "none", FALSE), Shaped(3, "none", FALSE), Shaped(2, "video", FALSE),
                     Shaped(0, "video", FALSE), Shaped(0, "video", TRUE)}
              @@ job2 :> {Shaped(0, "audio", FALSE)}

\* A rung, the engine's own choice, a rate, and a track asked for without loss.
MCOrders == {MCOrder, Wants("video", 720, <<"m4a", 0>>, FALSE),
               Wants("audio", 0, <<"mp3", 320>>, FALSE), Wants("audio", 0, <<"flac", 0>>, TRUE)}

Picture(w, h, over) ==
  [as |-> "video", suffix |-> "mp4", codec |-> "h264", kbps |-> 0, w |-> w, h |-> h, said |-> 720,
   source |-> 128, streams |-> 2, over |-> over, read |-> TRUE, empty |-> FALSE]
Mp3(kbps, source) ==
  [Picture(0, 0, FALSE) EXCEPT !.as = "audio", !.suffix = "mp3", !.codec = "mp3", !.kbps = kbps,
                               !.said = 0, !.source = source, !.streams = 1]

\* What the site said, less than it said, upright, over the ceiling; a true and
\* a false rate; an image.
MCProducts == {Picture(1280, 720, FALSE), Picture(854, 480, FALSE), Picture(720, 1280, FALSE),
               Picture(854, 480, TRUE), Mp3(320, 128), Mp3(192, 0),
               [Picture(0, 0, FALSE) EXCEPT !.as = "photo", !.suffix = "jpg", !.read = FALSE]}
=============================================================================
