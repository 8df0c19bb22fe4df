--------------------------- MODULE InstanceGuard ---------------------------
(***************************************************************************)
(* services/instance_guard.py: the lease that tells bot processes sharing  *)
(* one Redis from each other. Time passes in ticks; a Redis command takes  *)
(* none of it, but the commands of several processes interleave within a   *)
(* tick, and a process whose refresh is due is served before the clock     *)
(* goes on. A lost or slow command is a Blip.                              *)
(***************************************************************************)
EXTENDS Naturals, FiniteSets

CONSTANTS Process,
          NoHolder,  \* no lease
          TTL,       \* LEASE_TTL_S, in ticks
          Stale,     \* STALE_TTL_S
          Refresh,   \* REFRESH_S
          Grace,     \* STARTUP_GRACE_S
          Drain,     \* bound: how long a shutdown works before it releases
          MaxBlips,  \* bound: commands that fail
          Calm       \* bound: quiet ticks that are counted

ASSUME GuardAssumption == /\ NoHolder \notin Process
                          /\ {TTL, Refresh} \subseteq Nat \ {0}
                          /\ {Stale, Grace, Drain, MaxBlips, Calm} \subseteq Nat
                          /\ Stale + Refresh < TTL /\ Grace <= Refresh

VARIABLES holder,  \* whose value the lease key holds, or NoHolder
          ttl,     \* what is left of it
          state,   \* InstanceGuard.state
          phase,   \* per process: the await it stands at
          why,     \* per process: what the read under way is for
          saw,     \* per process: the holder its GET returned
          due,     \* per process: ticks left of its sleep
          blips,
          calm     \* history: ticks since the last start, end or blip

leaseVars == <<holder, ttl>>
watchVars == <<state, phase, why, saw, due>>
guardVars == <<leaseVars, watchVars, blips, calm>>

Asleep  == {"wait", "grace", "drain"}
AtRedis == {"get", "ttl", "claim", "set", "del"}
Up == {p \in Process : phase[p] \notin {"new", "off", "drain"} /\ why[p] # "release"}

GuardTypeOK ==
  /\ holder \in Process \cup {NoHolder} /\ ttl \in 0..TTL
  /\ state \in [Process -> {"unknown", "single", "duplicate"}]
  /\ phase \in [Process -> {"new", "off"} \cup Asleep \cup AtRedis]
  /\ why \in [Process -> {"boot", "renew", "observe", "reread", "release"}]
  /\ saw \in [Process -> Process \cup {NoHolder}]
  /\ due \in [Process -> 0..(Refresh + Grace + Drain)]
  /\ blips \in 0..MaxBlips /\ calm \in 0..Calm
  /\ holder = NoHolder <=> ttl = 0

GuardInit ==
  /\ holder = NoHolder /\ ttl = 0
  /\ state = [p \in Process |-> "unknown"]
  /\ phase = [p \in Process |-> "new"]
  /\ why = [p \in Process |-> "boot"]
  /\ saw = [p \in Process |-> NoHolder]
  /\ due = [p \in Process |-> 0]
  /\ blips = 0 /\ calm = 0

MoveTo(p, a)  == phase' = [phase EXCEPT ![p] = a]
For(p, w)   == why' = [why EXCEPT ![p] = w]
Enter(p, s) == state' = [state EXCEPT ![p] = s]
Sleep(p, a, n) == MoveTo(p, a) /\ due' = [due EXCEPT ![p] = n]

\* The check is over: the process waits for its next one.
Judged(p, s) == /\ Enter(p, s) /\ Sleep(p, "wait", Refresh)
                /\ saw' = [saw EXCEPT ![p] = NoHolder]
                /\ UNCHANGED <<leaseVars, why, blips, calm>>

\* The process is gone, and what it remembered with it.
Leaves(p) == /\ Sleep(p, "off", 0) /\ For(p, "boot") /\ Enter(p, "unknown")
           /\ saw' = [saw EXCEPT ![p] = NoHolder]
           /\ calm' = 0

\* Mutant: SET with an EX Redis does not take.
WriteNoExpiry(p) == /\ holder' = p /\ UNCHANGED ttl
                    /\ Enter(p, "single") /\ Sleep(p, "wait", Refresh)
                    /\ saw' = [saw EXCEPT ![p] = NoHolder]
                    /\ UNCHANGED <<why, blips, calm>>

\* SET EX: the lease is this process's again, for a whole TTL.
Write(p) == /\ holder' = p /\ ttl' = TTL
            /\ Enter(p, "single") /\ Sleep(p, "wait", Refresh)
            /\ saw' = [saw EXCEPT ![p] = NoHolder]
            /\ UNCHANGED <<why, blips, calm>>

-----------------------------------------------------------------------------
(* start, run and stop.                                                    *)

Start(p) == /\ phase[p] = "new"
            /\ MoveTo(p, "get") /\ For(p, "boot")
            /\ calm' = 0
            /\ UNCHANGED <<leaseVars, state, saw, due, blips>>

\* After the grace period of a foreign lease: judge it.
GraceOver(p) == /\ phase[p] = "grace" /\ due[p] = 0
                /\ MoveTo(p, "get") /\ For(p, "observe")
                /\ UNCHANGED <<leaseVars, state, saw, due, blips, calm>>

\* Mutant: only a holder looks at the lease again.
refresh_onceHolder(p) == /\ phase[p] = "wait" /\ due[p] = 0
                         /\ IF state[p] = "single" THEN MoveTo(p, "get") /\ UNCHANGED due
                                                   ELSE Sleep(p, "wait", Refresh)
                         /\ For(p, "renew")
                         /\ UNCHANGED <<leaseVars, state, saw, blips, calm>>

refresh_once(p) == /\ phase[p] = "wait" /\ due[p] = 0
                   /\ MoveTo(p, "get")
                   /\ For(p, IF state[p] = "single" THEN "renew" ELSE "observe")
                   /\ UNCHANGED <<leaseVars, state, saw, due, blips, calm>>

\* The stop event ends the loop; the workers drain before the release.
StopRequested(p) == /\ phase[p] = "wait"
                    /\ \E n \in 0..Drain : Sleep(p, "drain", n)
                    /\ calm' = 0
                    /\ UNCHANGED <<leaseVars, state, why, saw, blips>>

GuardStop(p) == /\ phase[p] = "drain" /\ due[p] = 0
           /\ MoveTo(p, "get") /\ For(p, "release")
           /\ UNCHANGED <<leaseVars, state, saw, due, blips, calm>>

GuardCrash(p) == /\ phase[p] \notin {"new", "off"}
            /\ Leaves(p)
            /\ UNCHANGED <<leaseVars, blips>>

-----------------------------------------------------------------------------
(* _read: GET, then TTL of whatever it found.                              *)

GetFound(p) == /\ phase[p] = "get" /\ holder # NoHolder
               /\ saw' = [saw EXCEPT ![p] = holder]
               /\ MoveTo(p, "ttl")
               /\ UNCHANGED <<leaseVars, state, why, due, blips, calm>>

\* No lease: start and _observe claim it, a renewal starts to observe.
GetAbsent(p) == /\ phase[p] = "get" /\ holder = NoHolder
                /\ why[p] \in {"boot", "observe", "renew"}
                /\ IF why[p] = "renew" THEN For(p, "observe") /\ UNCHANGED phase
                                       ELSE MoveTo(p, "claim") /\ UNCHANGED why
                /\ UNCHANGED <<leaseVars, state, saw, due, blips, calm>>

\* The winner of a lost claim is gone again: single, with no lease written.
RereadAbsent(p) == /\ phase[p] = "get" /\ holder = NoHolder /\ why[p] = "reread"
                   /\ Judged(p, "single")

\* start: a foreign lease gets the grace period.
TtlBoot(p) == /\ phase[p] = "ttl" /\ why[p] = "boot"
              /\ Sleep(p, "grace", Grace)
              /\ UNCHANGED <<leaseVars, state, why, saw, blips, calm>>

TtlOwn(p) == /\ phase[p] = "ttl" /\ saw[p] = p
             /\ why[p] \in {"renew", "observe", "reread"}
             /\ IF why[p] = "renew"
                THEN /\ MoveTo(p, "set")
                     /\ UNCHANGED <<leaseVars, state, why, saw, due, blips, calm>>
                ELSE Judged(p, "single")

\* A renewal that finds a foreign lease looks again, and judges it.
TtlNotMine(p) == /\ phase[p] = "ttl" /\ saw[p] # p /\ why[p] = "renew"
                 /\ MoveTo(p, "get") /\ For(p, "observe")
                 /\ UNCHANGED <<leaseVars, state, saw, due, blips, calm>>

\* Mutant: a lease is called stale as soon as its refresh is due.
IsStaleEarly == ttl <= TTL - Refresh

\* _observe: a foreign lease that was not renewed lately is taken over. The
\* key may be gone by now, which reads as no time left.
IsStale == ttl <= Stale

TtlStale(p) == /\ phase[p] = "ttl" /\ saw[p] # p /\ why[p] = "observe" /\ IsStale
               /\ MoveTo(p, "set")
               /\ UNCHANGED <<leaseVars, state, why, saw, due, blips, calm>>

TtlLive(p) == /\ phase[p] = "ttl" /\ saw[p] # p
              /\ why[p] = "reread" \/ (why[p] = "observe" /\ ~IsStale)
              /\ Judged(p, "duplicate")

-----------------------------------------------------------------------------
(* The writes.                                                             *)

ClaimWon(p)  == phase[p] = "claim" /\ holder = NoHolder /\ Write(p)

ClaimLost(p) == /\ phase[p] = "claim" /\ holder # NoHolder
                /\ IF why[p] = "boot" THEN Sleep(p, "grace", Grace) /\ UNCHANGED why
                   ELSE MoveTo(p, "get") /\ For(p, "reread") /\ UNCHANGED due
                /\ UNCHANGED <<leaseVars, state, saw, blips, calm>>

\* The renewal and the takeover: a plain SET, whoever wrote in between.
SetLease(p) == phase[p] = "set" /\ Write(p)

\* stop: nothing to release, or a DEL of whatever is there by now.
NotOurs(p) == /\ why[p] = "release"
              /\ (phase[p] = "get" /\ holder = NoHolder) \/ (phase[p] = "ttl" /\ saw[p] # p)
              /\ Leaves(p)
              /\ UNCHANGED <<leaseVars, blips>>

ReleaseOurs(p) == /\ why[p] = "release" /\ phase[p] = "ttl" /\ saw[p] = p
                  /\ MoveTo(p, "del")
                  /\ UNCHANGED <<leaseVars, state, why, saw, due, blips, calm>>

DelLease(p) == /\ phase[p] = "del"
               /\ holder' = NoHolder /\ ttl' = 0
               /\ Leaves(p)
               /\ UNCHANGED blips

-----------------------------------------------------------------------------
(* Failures and time.                                                      *)

\* A command raises: the guard does not know; a release is given up.
Blip(p) == /\ blips < MaxBlips /\ phase[p] \in AtRedis \ {"ttl"}
           /\ blips' = blips + 1 /\ calm' = 0
           /\ IF why[p] = "release" THEN Leaves(p)
              ELSE Enter(p, "unknown") /\ Sleep(p, "wait", Refresh) /\ UNCHANGED <<why, saw>>
           /\ UNCHANGED leaseVars

\* The TTL command raises: _read reads it as no time left.
TtlRaises(p) == /\ blips < MaxBlips /\ phase[p] = "ttl" /\ why[p] = "observe" /\ saw[p] # p
                /\ blips' = blips + 1 /\ calm' = 0
                /\ MoveTo(p, "set")
                /\ UNCHANGED <<leaseVars, state, why, saw, due>>

Tick == /\ \A p \in Process : phase[p] \notin AtRedis /\ (phase[p] \in Asleep => due[p] > 0)
        /\ due' = [p \in Process |-> IF phase[p] \in Asleep THEN due[p] - 1 ELSE due[p]]
        /\ ttl' = IF ttl = 0 THEN 0 ELSE ttl - 1
        /\ holder' = IF ttl' = 0 THEN NoHolder ELSE holder
        /\ calm' = IF calm = Calm THEN Calm ELSE calm + 1
        /\ UNCHANGED <<state, phase, why, saw, blips>>

Life(p)  == Start(p) \/ GraceOver(p) \/ refresh_once(p) \/ StopRequested(p) \/ GuardStop(p)
              \/ GuardCrash(p)
Read(p)  == GetFound(p) \/ GetAbsent(p) \/ RereadAbsent(p) \/ TtlBoot(p) \/ TtlOwn(p)
              \/ TtlNotMine(p) \/ TtlStale(p) \/ TtlLive(p)
Command(p) == ClaimWon(p) \/ ClaimLost(p) \/ SetLease(p) \/ NotOurs(p) \/ ReleaseOurs(p)
              \/ DelLease(p)
GuardNext == \/ \E p \in Process : Life(p) \/ Read(p) \/ Command(p) \/ Blip(p) \/ TtlRaises(p)
        \/ Tick

GuardSpec == GuardInit /\ [][GuardNext]_guardVars

-----------------------------------------------------------------------------
(* What the tripwire must keep true.                                       *)

Rested == \A p \in Process : phase[p] \notin AtRedis

\* The tripwire fires, and the alarm ends: once nobody started, ended or failed
\* for as long as a dead lease takes to go stale and every process to look twice,
\* exactly one process holds the lease and says so, and every other one warns
\* (_observe, _takeover, refresh_once).
Settled == TTL - Stale + 2 * Refresh

OneHolder ==
  (calm > Settled /\ Up # {} /\ \A p \in Process : phase[p] \notin AtRedis)
    => \E p \in Up : /\ holder = p /\ state[p] = "single"
                     /\ \A q \in Up \ {p} : state[q] = "duplicate"

\* A live lease is not overwritten: while no command fails, a holder that renews
\* on time loses the key only to its own end, to the DEL of a process that stops,
\* or in the very tick it wrote it, to a takeover decided on the lease before
\* (STALE_TTL_S against REFRESH_S).
NeverStolen ==
  [][\A p \in Up : (blips' = 0 /\ holder = p /\ holder' # p)
        => \/ p \notin Up' \/ ttl = TTL
           \/ \E q \in Process : phase[q] = "del" /\ phase'[q] = "off"]_guardVars
=============================================================================
