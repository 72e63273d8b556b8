----------------------------- MODULE LoginLimit -----------------------------
(***************************************************************************)
(* checkRateLimit and clearRateLimit of schema/login/datasources.ts, for   *)
(* one user name.  On Redis the count is the key login-attempts:<userName> *)
(* that all instances share: INCR, PEXPIRE, PTTL and DEL are commands of   *)
(* their own, with an await after each; other attempts run in between, and *)
(* the connection or the process may fail in between.  Without REDIS_URL   *)
(* it is an entry of the Map loginAttemptsMemory of one process, checked   *)
(* and cleared without an await.  The password is compared between check   *)
(* and clear.                                                              *)
(*                                                                         *)
(* A tick is a minute.  The counter is exact up to MaxAttempts + 1 and     *)
(* stays there: the code tells apart 1, the values up to MAX_ATTEMPTS and  *)
(* the values beyond.                                                      *)
(***************************************************************************)
EXTENDS Naturals

CONSTANTS
    Request,        \* login attempts that can be in flight at the same time
    MaxAttempts,    \* MAX_ATTEMPTS
    Window,         \* WINDOW_MS, in ticks
    MaxAge,         \* bound: ticks an attempt can stay in flight
    Stores,         \* where attempts may be counted: "redis", "memory"
    Faults          \* which of "redis" and "crash" may happen

ASSUME AttemptsAssumption == MaxAttempts \in Nat \ {0}
ASSUME WindowAssumption == Window \in Nat \ {0} /\ MaxAge \in Nat
ASSUME FaultsAssumption ==
    Faults \subseteq {"redis", "crash"} /\ Stores \subseteq {"redis", "memory"}

VARIABLES
    store,  \* "redis" if REDIS_URL is set, else "memory"
    faults, \* what may fail in this deployment; nothing in "memory"
    count,  \* the value of the key, or entry.count; 0 when there is none
    ttl,    \* ticks until the key expires, 0 when no expiry is set; or until
            \* entry.resetAt, 0 when it is past
    pc,     \* pc[r]: what attempt r is about to do
    age,    \* age[r]: ticks since r arrived
    life    \* history: ticks since the key was created or its window began

deployment == <<store, faults>>
vars == <<deployment, count, ttl, pc, age, life>>

Steps == {"idle", "incr", "pexpire", "pttl", "compare", "del"}
InFlight == {r \in Request : pc[r] # "idle"}

\* Ticks after which a key with an expiry is certainly gone.
Horizon == Window + MaxAge

TypeOK ==
    /\ store \in {"redis", "memory"} /\ faults \subseteq {"redis", "crash"}
    /\ count \in 0 .. MaxAttempts + 1
    /\ ttl \in 0 .. Window
    /\ pc \in [Request -> Steps]
    /\ age \in [Request -> 0 .. MaxAge]
    /\ life \in 0 .. Horizon

Init ==
    /\ store \in Stores
    /\ faults \in IF store = "redis" THEN SUBSET Faults ELSE {{}}
    /\ count = 0
    /\ ttl = 0
    /\ pc = [r \in Request |-> "idle"]
    /\ age = [r \in Request |-> 0]
    /\ life = 0

Goto(r, step) ==
    /\ pc' = [pc EXCEPT ![r] = step]
    /\ UNCHANGED age

Leave(r) ==
    /\ pc' = [pc EXCEPT ![r] = "idle"]
    /\ age' = [age EXCEPT ![r] = 0]

\* The window has begun and is not over.
Open == IF store = "redis" THEN count > 0 ELSE ttl > 0

KeyGone == count' = 0 /\ ttl' = 0 /\ life' = 0
KeyUnchanged == UNCHANGED <<count, ttl, life>>

\* A command rejected by the client may have reached the server or not.
\* checkRateLimit then lets the attempt through.
FailsOpen(r) == "redis" \in faults /\ Goto(r, "compare")
OnRedis(r, step) == store = "redis" /\ pc[r] = step
InMemory(r, step) == store = "memory" /\ pc[r] = step

Arrive(r) ==
    /\ pc[r] = "idle"
    /\ Goto(r, "incr")
    /\ KeyUnchanged

Increment ==
    /\ count' = IF count <= MaxAttempts THEN count + 1 ELSE count
    /\ life' = IF count = 0 THEN 0 ELSE life
    /\ UNCHANGED ttl

\* Mutant: the limit is compared with >= against MAX_ATTEMPTS + 1.
IncrOneMore(r) ==
    /\ OnRedis(r, "incr")
    /\ Increment
    /\ \/ count = 0 /\ Goto(r, "pexpire")
       \/ count \in 1 .. MaxAttempts /\ Goto(r, "compare")
       \/ count > MaxAttempts /\ Goto(r, "pttl")

\* Mutant: every admitted attempt sets the expiry anew.
IncrSliding(r) ==
    /\ OnRedis(r, "incr")
    /\ Increment
    /\ \/ count < MaxAttempts /\ Goto(r, "pexpire")
       \/ count >= MaxAttempts /\ Goto(r, "pttl")

\* Mutant: the expiry is set when the count is 0, which INCR never returns.
IncrNoExpiry(r) ==
    /\ OnRedis(r, "incr")
    /\ Increment
    /\ \/ count < MaxAttempts /\ Goto(r, "compare")
       \/ count >= MaxAttempts /\ Goto(r, "pttl")

Incr(r) ==
    /\ OnRedis(r, "incr")
    /\ \/ /\ Increment
          /\ \/ count = 0 /\ Goto(r, "pexpire")
             \/ count \in 1 .. MaxAttempts - 1 /\ Goto(r, "compare")
             \/ count >= MaxAttempts /\ Goto(r, "pttl")
       \/ FailsOpen(r) /\ Increment
       \/ FailsOpen(r) /\ KeyUnchanged

\* Mutant: EXPIRE, in seconds, with a number of milliseconds.
ExpireInSeconds(r) ==
    /\ pc[r] = "pexpire"
    /\ Goto(r, "compare")
    /\ ttl' = IF count > 0 THEN 1000 * Window ELSE 0
    /\ UNCHANGED <<count, life>>

\* PEXPIRE of a key that is gone does nothing.
PExpire(r) ==
    /\ pc[r] = "pexpire"
    /\ \/ /\ Goto(r, "compare")
          /\ ttl' = IF count > 0 THEN Window ELSE 0
          /\ UNCHANGED <<count, life>>
       \/ FailsOpen(r) /\ KeyUnchanged

\* Mutant: every attempt moves resetAt.
CheckSliding(r) ==
    /\ InMemory(r, "incr")
    /\ \/ /\ ttl > 0 /\ count >= MaxAttempts
          /\ Goto(r, "pttl")
          /\ KeyUnchanged
       \/ /\ ttl > 0 /\ count < MaxAttempts
          /\ count' = count + 1 /\ ttl' = Window
          /\ Goto(r, "compare")
          /\ UNCHANGED life
       \/ /\ ttl = 0
          /\ count' = 1 /\ ttl' = Window /\ life' = 0
          /\ Goto(r, "compare")

\* checkRateLimitInMemory.  An entry past its resetAt is still in the Map, and
\* is replaced.
CheckInMemory(r) ==
    /\ InMemory(r, "incr")
    /\ \/ /\ ttl > 0 /\ count >= MaxAttempts
          /\ Goto(r, "pttl")
          /\ KeyUnchanged
       \/ /\ ttl > 0 /\ count < MaxAttempts
          /\ count' = count + 1
          /\ Goto(r, "compare")
          /\ UNCHANGED <<ttl, life>>
       \/ /\ ttl = 0
          /\ count' = 1 /\ ttl' = Window /\ life' = 0
          /\ Goto(r, "compare")

\* The attempt is refused; PTTL only words the error.
PTtl(r) ==
    /\ pc[r] = "pttl"
    /\ Leave(r) \/ FailsOpen(r)
    /\ KeyUnchanged

\* The row is read and the password compared.
Compare(r) ==
    /\ pc[r] = "compare"
    /\ Goto(r, "del") \/ Leave(r)
    /\ KeyUnchanged

\* clearRateLimit; login goes on, also when the command fails.
Del(r) ==
    /\ OnRedis(r, "del")
    /\ KeyGone \/ ("redis" \in faults /\ KeyUnchanged)
    /\ Leave(r)

ClearInMemory(r) ==
    /\ InMemory(r, "del")
    /\ KeyGone
    /\ Leave(r)

Crash(r) ==
    /\ "crash" \in faults
    /\ pc[r] # "idle"
    /\ Leave(r)
    /\ KeyUnchanged

\* Redis restarts without its data.
RedisRestart ==
    /\ "redis" \in faults
    /\ count > 0
    /\ KeyGone
    /\ UNCHANGED <<pc, age>>

\* The window ends: Redis drops the key, an entry of the Map stays.
Expires ==
    /\ ttl = 1
    /\ ttl' = 0 /\ life' = 0
    /\ count' = IF store = "redis" THEN 0 ELSE count

Tick ==
    /\ \A r \in InFlight : age[r] < MaxAge
    /\ age' = [r \in Request |-> IF r \in InFlight THEN age[r] + 1 ELSE 0]
    /\ \/ Expires
       \/ /\ ttl # 1
          /\ ttl' = IF ttl > 0 THEN ttl - 1 ELSE 0
          /\ life' = IF Open /\ life < Horizon THEN life + 1 ELSE life
          /\ UNCHANGED count
    /\ UNCHANGED pc

Progress(r) ==
    \/ Incr(r) \/ PExpire(r) \/ CheckInMemory(r) \/ PTtl(r) \/ Compare(r)
    \/ Del(r) \/ ClearInMemory(r)

Next ==
    /\ \/ \E r \in Request : Arrive(r) \/ Progress(r) \/ Crash(r)
       \/ RedisRestart
       \/ Tick
    /\ UNCHANGED deployment

Spec == Init /\ [][Next]_vars

\* Node runs every callback that is ready, and time passes.
FairSpec ==
    /\ Spec
    /\ \A r \in Request : WF_vars(Progress(r) /\ UNCHANGED deployment)
    /\ WF_vars(Tick /\ UNCHANGED deployment)

-----------------------------------------------------------------------------
(* What the counter implements. *)

Verdict(step) ==
    CASE step = "idle" -> "none"
      [] step = "incr" -> "asked"
      [] step = "pttl" -> "refused"
      [] OTHER -> "admitted"

Admitted ==
    IF ~Open THEN 0 ELSE IF count <= MaxAttempts THEN count ELSE MaxAttempts

Limit == INSTANCE LoginAttempts WITH
    Longest <- Horizon,
    admitted <- Admitted,
    elapsed <- life,
    verdict <- [r \in Request |-> Verdict(pc[r])]

\* Four commands with awaits in between, and the two functions on the Map,
\* keep the promise of LoginAttempts: never more than MAX_ATTEMPTS admitted
\* in a window, no window closed early but by a success, whoever's PEXPIRE or
\* DEL meets whose key, whichever attempts die between two commands, and
\* although expired entries stay in the Map (login/datasources.ts:38-106).
LimitSpec == Limit!Spec

\* Without faults a window is over at the latest WINDOW_MS and the duration
\* of one request after its start: the only attempt that sees count === 1
\* sets the expiry of the key it created or of a later one
\* (login/datasources.ts:66-69).
LockoutBounded == faults = {} /\ Open => life < Horizon

\* A counter that was given an expiry is gone by then whatever fails: no
\* attempt but the first of a window sets one, however late; in memory the
\* window is WINDOW_MS to the tick (login/datasources.ts:52, 67-69).
ExpiryBounded ==
    ttl > 0 => count > 0 /\ life + ttl <= IF store = "redis" THEN Horizon ELSE Window

LockedOut == Open /\ count >= MaxAttempts

\* Who is locked out is let in again some day (readme.md:249: an outage of
\* Redis does not block logins, login/datasources.ts:81-84).
EveryLockoutEnds == LockedOut ~> ~LockedOut

\* Without faults it is so, although refused attempts go on counting.
LockoutEnds == faults = {} /\ LockedOut ~> ~LockedOut

=============================================================================
