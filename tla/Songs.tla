------------------------------- MODULE Songs -------------------------------
(***************************************************************************)
(* The short-lived Redis keys behind two kinds of buttons: the song lookup *)
(* under a video (services/song_id.py, on_song_tap of handlers/user.py)    *)
(* and the deep link of an inline answer (handlers/inline.py). A mapping   *)
(* is stored, then a button that names it is shown; both are rationed by a *)
(* counter per user. Every Redis command is a step and may fail.           *)
(***************************************************************************)
EXTENDS Naturals, FiniteSets

CONSTANTS Clip,         \* videos a song button may hang under
          Named,        \* those whose caption names a song
          Recognizer,   \* a recognizer beside the metadata is configured
          Page,         \* links sent inline
          Fan,          \* users
          Update,       \* deliveries and updates in flight
          MappingTTL,   \* SONG_MAPPING_TTL_S, INLINE_TOKEN_TTL_S
          NegativeTTL,  \* SONG_NEGATIVE_TTL_S
          Window,       \* SONG_COOLDOWN_WINDOW_S, INLINE_TOKEN_RATE_WINDOW_S
          Ration,       \* SONG_COOLDOWN_MAX, INLINE_TOKEN_RATE_LIMIT
          Slots,        \* SONG_MAX_CONCURRENCY
          NoticeEvery,  \* SONG_NOTICE_COOLDOWN_S
          NoUpdate,     \* neither a clip nor a link
          MaxOps,       \* bound: updates begun
          MaxFailures,  \* bound: Redis commands that fail
          MaxHours      \* bound: the clock

ASSUME SongsAssumption ==
  /\ Named \subseteq Clip /\ Recognizer \in BOOLEAN
  /\ {MappingTTL, NegativeTTL, Window, Ration, Slots, NoticeEvery, MaxHours} \subseteq Nat \ {0}
  /\ {MaxOps, MaxFailures} \subseteq Nat

SongKey == {"find", "hit", "negative", "link"} \X (Clip \cup Page)
Counter == {"song", "link"} \X Fan

VARIABLES redis,        \* there is a Redis (redis is not None)
          hour,
          expires,   \* Redis: per key, when it expires (0: never written)
          counter,   \* Redis: per counter [n, expires]; expires 0: it never does
          step,      \* per update: [at, job, fan, on, blind, until]
          announced, \* _degraded_announced
          stamped,   \* _last_notice and bot_state: when a page was stamped (0: never)
          queued,    \* what confirming taps and deep links handed to the intake
          ops, failures,
          promised,  \* history: per key, until when a shown button counts on it
          lost,      \* history: counters whose window could not be set
          barren,    \* history: clips a search found nothing for, or that a tap
                     \* without a message or without a name gave up
          pagedAt,   \* history: when the operator was paged last (0: never)
          hasty      \* history: a page that knew of one too short before it

redisVars == <<expires, counter>>
noticeVars == <<announced, stamped, pagedAt, hasty>>
songVars  == <<redis, hour, redisVars, step, noticeVars, queued, ops, failures,
               promised, lost, barren>>

Asleep == [at |-> "idle", job |-> "none", fan |-> NoUpdate, on |-> NoUpdate, blind |-> FALSE,
           until |-> 0]

SongsTypeOK ==
  /\ redis \in BOOLEAN /\ hour \in 1..MaxHours
  /\ expires \in [SongKey -> 0..(MaxHours + MappingTTL + NegativeTTL)]
  /\ counter \in [Counter -> [n : Nat, expires : 0..(MaxHours + Window)]]
  /\ step \in [Update -> [at : {"idle", "count", "window", "negative", "read", "forgo",
                                "wait", "search", "store", "show", "due", "page", "stamp"},
                          job : {"none", "deliver", "find", "inline"},
                          fan : Fan \cup {NoUpdate}, on : Clip \cup Page \cup {NoUpdate},
                          blind : BOOLEAN, until : 0..(MaxHours + MappingTTL)]]
  /\ announced \in BOOLEAN /\ hasty \in BOOLEAN
  /\ {stamped, pagedAt} \subseteq 0..MaxHours
  /\ queued \subseteq {"hit", "link"} \X (Clip \cup Page)
  /\ ops \in 0..MaxOps /\ failures \in 0..MaxFailures
  /\ promised \in [SongKey -> 0..(MaxHours + MappingTTL)]
  /\ lost \subseteq Counter /\ barren \subseteq Clip

SongsInit ==
  /\ redis \in BOOLEAN /\ hour = 1
  /\ expires = [k \in SongKey |-> 0]
  /\ counter = [c \in Counter |-> [n |-> 0, expires |-> 0]]
  /\ step = [o \in Update |-> Asleep]
  /\ announced = FALSE /\ stamped = 0 /\ queued = {} /\ ops = 0 /\ failures = 0
  /\ promised = [k \in SongKey |-> 0] /\ lost = {} /\ barren = {}
  /\ pagedAt = 0 /\ hasty = FALSE

-----------------------------------------------------------------------------
At(o, place)   == step[o].at = place
Turns(o, place) == step' = [step EXCEPT ![o].at = place]
Ends(o)        == step' = [step EXCEPT ![o] = Asleep]

\* A command that raises; without a Redis none is sent.
Fails    == redis /\ failures < MaxFailures /\ failures' = failures + 1
Works  == redis /\ UNCHANGED failures
NoRedis  == ~redis /\ UNCHANGED failures
Live(k)  == expires[k] > hour

Begins(o, job, fan, on, place) ==
  /\ At(o, "idle") /\ ops < MaxOps
  /\ ops' = ops + 1
  /\ step' = [step EXCEPT ![o] = [at |-> place, job |-> job, fan |-> fan, on |-> on,
                                  blind |-> FALSE, until |-> 0]]
  /\ UNCHANGED <<redis, hour, redisVars, noticeVars, queued, failures, promised, lost, barren>>

\* The caption names the song (identify_from_metadata), or a recognizer may.
Nameable(clip) == clip \in Named \/ Recognizer

\* button_for_delivery
DeliverBegins(o, clip) ==
  Nameable(clip) /\ Begins(o, "deliver", NoUpdate, clip, "store")

\* on_song_tap on a button that was shown; on_inline_query with a known user.
FindBegins(o, fan, clip) ==
  promised[<<"find", clip>>] > 0 /\ Begins(o, "find", fan, clip, "count")
InlineBegins(o, fan, page) ==
  redis /\ Begins(o, "inline", fan, page, "count")

-----------------------------------------------------------------------------
(* check_cooldown and the counter of mint_token: INCR, then EXPIRE.        *)

CounterOf(o) == <<IF step[o].job = "find" THEN "song" ELSE "link", step[o].fan>>
Beyond(o)    == IF step[o].job = "find" THEN "negative" ELSE "store"

Reading(c) == IF counter[c].expires > hour \/ counter[c].expires = 0
                THEN counter[c].n ELSE 0

\* A dead counter lets a tap pass, and gives an inline answer a plain start.
CountFails(o) ==
  /\ At(o, "count")
  /\ IF step[o].job = "find" THEN Turns(o, "negative") ELSE Ends(o)
  /\ NoRedis \/ Fails
  /\ UNCHANGED <<redis, hour, redisVars, noticeVars, queued, ops, promised, lost, barren>>

Count(o) ==
  /\ At(o, "count") /\ Works
  /\ LET c == CounterOf(o)
         n == Reading(c) + 1
     IN /\ counter' = [counter EXCEPT ![c] = [n |-> n, expires |-> IF n = 1 THEN 0 ELSE @.expires]]
        /\ CASE n = 1      -> Turns(o, "window")
             [] n > Ration -> Ends(o)
             [] OTHER      -> Turns(o, Beyond(o))
  /\ UNCHANGED <<redis, hour, expires, noticeVars, queued, ops, promised, lost, barren>>

SetWindow(o) ==
  /\ At(o, "window")
  /\ Turns(o, Beyond(o))
  /\ \/ /\ Works
        /\ counter' = [counter EXCEPT ![CounterOf(o)].expires = hour + Window]
        /\ UNCHANGED lost
     \/ /\ Fails
        /\ lost' = lost \cup {CounterOf(o)}
        /\ UNCHANGED counter
  /\ UNCHANGED <<redis, hour, expires, noticeVars, queued, ops, promised, barren>>

-----------------------------------------------------------------------------
(* on_song_tap behind the counter                                          *)

\* is_negative: unreadable, it is asked again.
AskNegative(o) ==
  /\ At(o, "negative")
  /\ \/ NoRedis /\ Turns(o, "read")
     \/ Fails /\ Turns(o, "read")
     \/ Works /\ IF Live(<<"negative", step[o].on>>) THEN Ends(o) ELSE Turns(o, "read")
  /\ UNCHANGED <<redis, hour, redisVars, noticeVars, queued, ops, promised, lost, barren>>

\* read_mapping: gone or unreadable, the button has expired. A song without a
\* name, and a tap without a message behind it, are given up.
ReadMapping(o) ==
  /\ At(o, "read")
  /\ \/ (NoRedis \/ Fails) /\ Ends(o)
     \/ /\ Works
        /\ IF ~Live(<<"find", step[o].on>>) THEN Ends(o)
           ELSE \/ step[o].on \in Named /\ Turns(o, "wait")
                \/ Turns(o, "forgo")
  /\ UNCHANGED <<redis, hour, redisVars, noticeVars, queued, ops, promised, lost, barren>>

\* remember_negative
Forgo(o) ==
  /\ At(o, "forgo") /\ Ends(o)
  /\ barren' = barren \cup {step[o].on}
  /\ \/ Works /\ expires' = [expires EXCEPT ![<<"negative", step[o].on>>] = hour + NegativeTTL]
     \/ Fails /\ UNCHANGED expires
  /\ UNCHANGED <<redis, hour, counter, noticeVars, queued, ops, promised, lost>>

TakeSlot(o) ==
  /\ At(o, "wait") /\ Cardinality({p \in Update : At(p, "search")}) < Slots
  /\ Turns(o, "search")
  /\ UNCHANGED <<redis, hour, redisVars, noticeVars, queued, ops, failures, promised, lost, barren>>

\* A search that fails says no match, and leaves no marker.
Search(o) ==
  /\ At(o, "search")
  /\ Ends(o) \/ Turns(o, "forgo") \/ Turns(o, "store")
  /\ UNCHANGED <<redis, hour, redisVars, noticeVars, queued, ops, failures, promised, lost, barren>>

-----------------------------------------------------------------------------
(* The mapping, and the button that names it.                              *)

KeyOf(o) == <<CASE step[o].job = "deliver" -> "find"
                [] step[o].job = "find"    -> "hit"
                [] step[o].job = "inline"  -> "link", step[o].on>>

\* store_mapping, and the end of mint_token; a write that works ends the spell.
Store(o) ==
  /\ At(o, "store") /\ Works
  /\ expires' = [expires EXCEPT ![KeyOf(o)] = hour + MappingTTL]
  /\ announced' = (announced /\ step[o].job = "inline")
  /\ step' = [step EXCEPT ![o].at = "show", ![o].until = hour + MappingTTL]
  /\ UNCHANGED <<redis, hour, counter, stamped, pagedAt, hasty, queued, ops, promised, lost, barren>>

StoreFailsUnseen(o) ==
  /\ At(o, "store")
  /\ NoRedis \/ Fails
  /\ step' = [step EXCEPT ![o].at = "show", ![o].until = hour + MappingTTL]
  /\ announced' = (announced \/ step[o].job # "inline")
  /\ UNCHANGED <<redis, hour, redisVars, stamped, pagedAt, hasty, queued, ops, promised, lost, barren>>

\* _enter_degraded: once in a spell, and never a page for a bot without Redis.
StoreFails(o) ==
  /\ At(o, "store")
  /\ NoRedis \/ Fails
  /\ IF redis /\ step[o].job # "inline" /\ ~announced THEN Turns(o, "due") ELSE Ends(o)
  /\ announced' = (announced \/ step[o].job # "inline")
  /\ UNCHANGED <<redis, hour, redisVars, stamped, pagedAt, hasty, queued, ops, promised, lost, barren>>

\* The card, the caption or the inline answer goes out, or fails.
Show(o) ==
  /\ At(o, "show") /\ Ends(o)
  /\ promised' \in {promised, [promised EXCEPT ![KeyOf(o)] = step[o].until]}
  /\ UNCHANGED <<redis, hour, redisVars, noticeVars, queued, ops, failures, lost, barren>>

-----------------------------------------------------------------------------
(* degraded: the page of an outage, at most one per cooldown.              *)

Recent(time) == time > 0 /\ hour < time + NoticeEvery

\* _notice_due; a bot_state that cannot be read leaves the local stamp.
Due(o) ==
  /\ At(o, "due")
  /\ IF Recent(stamped) THEN Ends(o)
     ELSE LET paging == {p \in Update : At(p, "page") \/ At(p, "stamp")}
          IN step' = [p \in Update |->
                        [step[p] EXCEPT !.at = IF p = o THEN "page" ELSE @,
                                        !.blind = @ \/ (paging # {} /\ p \in paging \cup {o})]]
  /\ UNCHANGED <<redis, hour, redisVars, noticeVars, queued, ops, failures, promised, lost, barren>>

PageAdmins(o) ==
  /\ At(o, "page") /\ Turns(o, "stamp")
  /\ pagedAt' = hour
  /\ hasty' = (hasty \/ (Recent(pagedAt) /\ ~step[o].blind))
  /\ UNCHANGED <<redis, hour, redisVars, announced, stamped, queued, ops, failures, promised, lost,
                 barren>>

\* _stamp_notice: this process's own stamp cannot fail.
StampNotice(o) ==
  /\ At(o, "stamp") /\ Ends(o)
  /\ stamped' = hour
  /\ UNCHANGED <<redis, hour, redisVars, announced, pagedAt, hasty, queued, ops, failures, promised,
                 lost, barren>>

-----------------------------------------------------------------------------
\* _song_confirm and _start_with_token: a mapping that is gone or unreadable
\* has expired, any other goes through the intake.
Follow(key) ==
  /\ promised[key] > 0 /\ redis /\ Live(key)
  /\ queued' = queued \cup {key}
  /\ UNCHANGED <<redis, hour, redisVars, step, noticeVars, ops, failures, promised, lost, barren>>

SongConfirm(clip)    == Follow(<<"hit", clip>>)
StartWithToken(page) == Follow(<<"link", page>>)

HourPasses ==
  /\ hour < MaxHours /\ hour' = hour + 1
  /\ UNCHANGED <<redis, redisVars, step, noticeVars, queued, ops, failures, promised, lost, barren>>

SongsNext ==
  \/ \E o \in Update :
       \/ \E c \in Clip : DeliverBegins(o, c) \/ \E f \in Fan : FindBegins(o, f, c)
       \/ \E f \in Fan, l \in Page : InlineBegins(o, f, l)
       \/ CountFails(o) \/ Count(o) \/ SetWindow(o) \/ AskNegative(o) \/ ReadMapping(o)
       \/ Forgo(o) \/ TakeSlot(o) \/ Search(o) \/ Store(o) \/ StoreFails(o) \/ Show(o)
       \/ Due(o) \/ PageAdmins(o) \/ StampNotice(o)
  \/ \E c \in Clip : SongConfirm(c)
  \/ \E l \in Page : StartWithToken(l)
  \/ HourPasses

SongsSpec == SongsInit /\ [][SongsNext]_songVars

-----------------------------------------------------------------------------
\* A button that is shown names a mapping that lives as long as it may.
ButtonsLead == \A k \in SongKey : promised[k] > hour => expires[k] >= promised[k]

\* A counter that refuses runs out by itself, unless the command that gives
\* it its window was lost or is still to come.
RefusedForAWhile ==
  \A c \in Counter :
    Reading(c) > Ration =>
      \/ counter[c].expires > hour
      \/ c \in lost
      \/ \E o \in Update : At(o, "window") /\ CounterOf(o) = c

\* A song is answered from memory only when a search or a tap found nothing.
MutedForReason == \A v \in Clip : Live(<<"negative", v>>) => v \in barren

\* At most one delivery of a spell pages, and a page that could see the stamp
\* of another keeps its distance from it.
PagedOnce == ~hasty

\* What the mapping keys promise to the people who see their buttons
\* (services/song_id.py, handlers/inline.py).
SongsKept == ButtonsLead /\ RefusedForAWhile /\ MutedForReason /\ PagedOnce
=============================================================================
