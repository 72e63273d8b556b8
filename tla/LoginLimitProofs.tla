-------------------------- MODULE LoginLimitProofs --------------------------
(***************************************************************************)
(* Proofs about LoginLimit, for any number of attempts in flight and any   *)
(* limit, window and request duration, on Redis and in memory.             *)
(***************************************************************************)
EXTENDS LoginLimit, TLAPS

\* A window that is over has no expiry.
NoKey == ~Open => ttl = 0 /\ life = 0

\* An attempt that is about to set the expiry arrived before the key it will
\* meet was created, be it its own or a later one.
Newborn ==
    \A r \in Request : pc[r] = "pexpire" /\ Open => life <= age[r]

\* No window ends before it is Window ticks old.
ExpiryNotEarly == ttl > 0 => life + ttl >= Window

\* The Map needs no expiry command, and does not fail.
Fallback ==
    store = "memory" => faults = {} /\ \A r \in Request : pc[r] # "pexpire"

KeyInv == NoKey /\ Newborn /\ ExpiryBounded /\ ExpiryNotEarly /\ Fallback
IInv == TypeOK /\ KeyInv

\* Whoever created the key has yet to give it an expiry.
NoLinger == Open /\ ttl = 0 => \E r \in Request : pc[r] = "pexpire"

-----------------------------------------------------------------------------

LEMMA Constants ==
    /\ MaxAttempts \in Nat /\ MaxAttempts > 0
    /\ Window \in Nat /\ Window > 0
    /\ MaxAge \in Nat
    /\ Horizon \in Nat /\ Horizon = Window + MaxAge
BY AttemptsAssumption, WindowAssumption DEF Horizon

LEMMA DeploymentStep == [Next]_vars => store' = store /\ faults' = faults
BY DEF Next, vars, deployment

LEMMA TypeStep == TypeOK /\ [Next]_vars => TypeOK'
<1>. SUFFICES ASSUME TypeOK, [Next]_vars
              PROVE  TypeOK'
  OBVIOUS
<1>0. store' \in {"redis", "memory"} /\ faults' \subseteq {"redis", "crash"}
  BY DeploymentStep DEF TypeOK
<1>1. ASSUME NEW r \in Request, NEW step \in Steps, Goto(r, step)
      PROVE  pc' \in [Request -> Steps] /\ age' \in [Request -> 0 .. MaxAge]
  BY <1>1 DEF Goto, TypeOK
<1>2. ASSUME NEW r \in Request, Leave(r)
      PROVE  pc' \in [Request -> Steps] /\ age' \in [Request -> 0 .. MaxAge]
  BY <1>2, Constants DEF Leave, TypeOK, Steps
<1>3. CASE KeyUnchanged
  <2>1. /\ count' \in 0 .. MaxAttempts + 1 /\ ttl' \in 0 .. Window
        /\ life' \in 0 .. Horizon
    BY <1>3 DEF KeyUnchanged, TypeOK
  <2>2. ASSUME NEW r \in Request,
               \/ Arrive(r) \/ Incr(r) \/ PExpire(r) \/ PTtl(r)
               \/ Compare(r) \/ Del(r) \/ Crash(r)
               \/ CheckInMemory(r) \/ ClearInMemory(r)
        PROVE  TypeOK'
    <3>1. \/ \E step \in Steps : Goto(r, step)
          \/ Leave(r)
      BY <2>2
         DEF Arrive, Incr, PExpire, PTtl, Compare, Del, Crash, CheckInMemory,
             ClearInMemory, FailsOpen, Steps
    <3>2. QED
      BY <1>0, <1>1, <1>2, <2>1, <3>1 DEF TypeOK
  <2>3. CASE RedisRestart \/ UNCHANGED vars
    BY <1>0, <2>1, <2>3 DEF RedisRestart, vars, TypeOK
  <2>4. CASE Tick
    <3>1. age' \in [Request -> 0 .. MaxAge]
      BY <2>4, Constants DEF Tick, TypeOK
    <3>2. QED
      BY <1>0, <2>1, <2>4, <3>1 DEF Tick, TypeOK
  <2>5. QED
    BY <2>2, <2>3, <2>4 DEF Next, Progress
<1>4. ASSUME NEW r \in Request, Incr(r), Increment PROVE TypeOK'
  <2>1. /\ count' \in 0 .. MaxAttempts + 1 /\ ttl' \in 0 .. Window
        /\ life' \in 0 .. Horizon
    BY <1>4, Constants DEF Increment, TypeOK
  <2>2. \E step \in Steps : Goto(r, step)
    BY <1>4 DEF Incr, FailsOpen, Steps
  <2>3. QED
    BY <1>0, <1>1, <2>1, <2>2 DEF TypeOK
<1>5. ASSUME NEW r \in Request, PExpire(r), ~KeyUnchanged PROVE TypeOK'
  <2>1. Goto(r, "compare") /\ "compare" \in Steps
    BY <1>5 DEF PExpire, Steps
  <2>2. ttl' \in 0 .. Window /\ count' = count /\ life' = life
    BY <1>5, Constants DEF PExpire, KeyUnchanged, FailsOpen
  <2>3. QED
    BY <1>0, <1>1, <2>1, <2>2 DEF TypeOK
<1>6. ASSUME NEW r \in Request, CheckInMemory(r), ~KeyUnchanged PROVE TypeOK'
  <2>1. Goto(r, "compare") /\ "compare" \in Steps
    BY <1>6 DEF CheckInMemory, Steps
  <2>2. /\ count' \in 0 .. MaxAttempts + 1 /\ ttl' \in 0 .. Window
        /\ life' \in 0 .. Horizon
    BY <1>6, Constants DEF CheckInMemory, TypeOK
  <2>3. QED
    BY <1>0, <1>1, <2>1, <2>2 DEF TypeOK
<1>7. CASE KeyGone /\ (RedisRestart \/ \E r \in Request : Del(r) \/ ClearInMemory(r))
  <2>1. /\ count' \in 0 .. MaxAttempts + 1 /\ ttl' \in 0 .. Window
        /\ life' \in 0 .. Horizon
    BY <1>7, Constants DEF KeyGone
  <2>2. pc' \in [Request -> Steps] /\ age' \in [Request -> 0 .. MaxAge]
    BY <1>2, <1>7 DEF RedisRestart, Del, ClearInMemory, TypeOK
  <2>3. QED
    BY <1>0, <2>1, <2>2 DEF TypeOK
<1>8. CASE Tick
  <2>1. age' \in [Request -> 0 .. MaxAge] /\ pc' \in [Request -> Steps]
    BY <1>8, Constants DEF Tick, TypeOK
  <2>2. /\ count' \in 0 .. MaxAttempts + 1 /\ ttl' \in 0 .. Window
        /\ life' \in 0 .. Horizon
    BY <1>8, Constants DEF Tick, Expires, TypeOK
  <2>3. QED
    BY <1>0, <2>1, <2>2 DEF TypeOK
<1>9. QED
  BY <1>3, <1>4, <1>5, <1>6, <1>7, <1>8
     DEF Next, Progress, Arrive, Incr, PTtl, Compare, Del, ClearInMemory, Crash,
         RedisRestart, vars, KeyUnchanged

(* What every step that is not a tick, an INCR, a PEXPIRE or a check of the  *)
(* Map does: the key is as before or gone, and no attempt gets to its        *)
(* PEXPIRE.                                                                  *)
LEMMA OtherStep ==
    ASSUME TypeOK, Next, ~Tick,
           \A r \in Request : ~Incr(r) /\ ~PExpire(r) /\ ~CheckInMemory(r)
    PROVE  /\ KeyUnchanged \/ KeyGone
           /\ \A r \in Request :
                 pc'[r] = "pexpire" => pc[r] = "pexpire" /\ age'[r] = age[r]
<1>1. ASSUME NEW r \in Request,
             \/ Arrive(r) \/ PTtl(r) \/ Compare(r) \/ Del(r) \/ ClearInMemory(r)
             \/ Crash(r)
      PROVE  KeyUnchanged \/ KeyGone
  BY <1>1 DEF Arrive, PTtl, Compare, Del, ClearInMemory, Crash
<1>2. ASSUME NEW r \in Request,
             \/ Arrive(r) \/ PTtl(r) \/ Compare(r) \/ Del(r) \/ ClearInMemory(r)
             \/ Crash(r)
      PROVE  \A x \in Request :
                pc'[x] = "pexpire" => pc[x] = "pexpire" /\ age'[x] = age[x]
  BY <1>2
     DEF Arrive, PTtl, Compare, Del, ClearInMemory, Crash, Goto, Leave,
         FailsOpen, TypeOK
<1>3. CASE RedisRestart
  BY <1>3 DEF RedisRestart
<1>4. QED
  BY <1>1, <1>2, <1>3 DEF Next, Progress

LEMMA KeyStep == IInv /\ [Next]_vars => KeyInv'
<1>. SUFFICES ASSUME IInv, [Next]_vars
              PROVE  KeyInv'
  OBVIOUS
<1>. USE DEF KeyInv, NoKey, Newborn, ExpiryBounded, ExpiryNotEarly, Fallback, Open
<1>0. /\ TypeOK /\ NoKey /\ Newborn /\ ExpiryBounded /\ ExpiryNotEarly /\ Fallback
      /\ count \in Nat /\ ttl \in Nat /\ life \in Nat
      /\ ttl <= Window /\ life <= Horizon
      /\ \A r \in Request : age[r] \in Nat /\ age[r] <= MaxAge
      /\ store' = store /\ faults' = faults /\ store \in {"redis", "memory"}
  BY Constants, DeploymentStep DEF IInv, TypeOK
<1>1. CASE UNCHANGED vars
  BY <1>0, <1>1 DEF vars
<1>2. ASSUME NEW r \in Request, Incr(r) PROVE KeyInv'
  <2>0. store = "redis"
    BY <1>2 DEF Incr, OnRedis
  <2>1. CASE KeyUnchanged
    <3>1. \A x \in Request : pc'[x] = "pexpire" => pc[x] = "pexpire"
      BY <1>0, <1>2, <2>1, Constants
         DEF Incr, Increment, KeyUnchanged, FailsOpen, Goto, TypeOK
    <3>2. age' = age
      BY <1>2 DEF Incr, FailsOpen, Goto
    <3>3. QED
      BY <1>0, <2>0, <2>1, <3>1, <3>2 DEF KeyUnchanged
  <2>2. CASE Increment /\ count = 0
    <3>1. life' = 0 /\ count' = 1 /\ ttl' = 0 /\ age' = age
      BY <1>0, <1>2, <2>0, <2>2, Constants DEF Incr, Increment, FailsOpen, Goto
    <3>2. \A x \in Request : age'[x] >= 0
      BY <1>0, <3>1
    <3>3. QED
      BY <1>0, <2>0, <3>1, <3>2
  <2>3. CASE Increment /\ count # 0
    <3>1. life' = life /\ count' > 0 /\ ttl' = ttl /\ age' = age
      BY <1>0, <1>2, <2>3, Constants DEF Incr, Increment, FailsOpen, Goto
    <3>2. \A x \in Request : pc'[x] = "pexpire" => pc[x] = "pexpire"
      BY <1>0, <1>2, <2>3 DEF Incr, FailsOpen, Goto, TypeOK
    <3>3. QED
      BY <1>0, <2>0, <2>3, <3>1, <3>2
  <2>4. QED
    BY <1>2, <2>1, <2>2, <2>3 DEF Incr
<1>3. ASSUME NEW r \in Request, PExpire(r) PROVE KeyInv'
  <2>1. /\ count' = count /\ life' = life /\ age' = age
        /\ \A x \in Request : pc'[x] = "pexpire" => pc[x] = "pexpire"
        /\ pc[r] = "pexpire"
    BY <1>0, <1>3 DEF PExpire, FailsOpen, KeyUnchanged, Goto, TypeOK
  <2>2. store = "redis"
    BY <1>0, <2>1
  <2>3. ttl' = ttl \/ ttl' = IF count > 0 THEN Window ELSE 0
    BY <1>3 DEF PExpire, KeyUnchanged
  <2>4. count > 0 => life <= MaxAge
    BY <1>0, <2>1, <2>2, Constants
  <2>5. QED
    BY <1>0, <2>1, <2>2, <2>3, <2>4, Constants
<1>4. ASSUME NEW r \in Request, CheckInMemory(r) PROVE KeyInv'
  <2>1. /\ store = "memory"
        /\ \A x \in Request : pc'[x] = "pexpire" => pc[x] = "pexpire"
    BY <1>0, <1>4 DEF CheckInMemory, InMemory, Goto, TypeOK
  <2>2. \/ count' = count /\ ttl' = ttl /\ life' = life
        \/ ttl > 0 /\ count' = count + 1 /\ ttl' = ttl /\ life' = life
        \/ count' = 1 /\ ttl' = Window /\ life' = 0
    BY <1>4 DEF CheckInMemory, KeyUnchanged
  <2>3. QED
    BY <1>0, <2>1, <2>2, Constants
<1>5. CASE Tick
  <2>1. \A x \in Request : pc'[x] = "pexpire" =>
           pc[x] = "pexpire" /\ age'[x] = age[x] + 1
    BY <1>5 DEF Tick, InFlight
  <2>2. CASE Expires
    BY <1>0, <2>1, <2>2 DEF Expires
  <2>3. CASE /\ ttl # 1 /\ count' = count
             /\ ttl' = IF ttl > 0 THEN ttl - 1 ELSE 0
             /\ life' = IF Open /\ life < Horizon THEN life + 1 ELSE life
    <3>1. NoKey' /\ Newborn' /\ Fallback'
      BY <1>0, <2>1, <2>3, Constants
    <3>2. ExpiryBounded' /\ ExpiryNotEarly'
      BY <1>0, <2>3, Constants
    <3>3. QED
      BY <3>1, <3>2
  <2>4. QED
    BY <1>5, <2>2, <2>3 DEF Tick
<1>6. CASE /\ Next /\ ~Tick
           /\ \A r \in Request : ~Incr(r) /\ ~PExpire(r) /\ ~CheckInMemory(r)
  <2>1. /\ KeyUnchanged \/ KeyGone
        /\ \A r \in Request :
              pc'[r] = "pexpire" => pc[r] = "pexpire" /\ age'[r] = age[r]
    BY <1>0, <1>6, OtherStep
  <2>2. QED
    BY <1>0, <2>1 DEF KeyUnchanged, KeyGone
<1>7. QED
  BY <1>1, <1>2, <1>3, <1>4, <1>5, <1>6

(* Every reachable state satisfies the inductive invariant. *)
THEOREM Invariance == Spec => []IInv
<1>1. Init => IInv
  <2>. SUFFICES ASSUME Init PROVE IInv
    OBVIOUS
  <2>1. store \in {"redis", "memory"} /\ faults \subseteq {"redis", "crash"}
    BY FaultsAssumption DEF Init
  <2>2. TypeOK
    BY <2>1, Constants DEF Init, TypeOK, Steps
  <2>3. KeyInv
    BY <2>1 DEF Init, KeyInv, NoKey, Newborn, ExpiryBounded, ExpiryNotEarly,
                Fallback, Open
  <2>4. QED
    BY <2>2, <2>3 DEF IInv
<1>2. IInv /\ [Next]_vars => IInv'
  BY TypeStep, KeyStep DEF IInv
<1>3. QED
  BY <1>1, <1>2, PTL DEF Spec

(* The counter, its expiry and the attempts in flight keep their types.      *)
THEOREM TypeCorrect == Spec => []TypeOK
<1>1. IInv => TypeOK
  BY DEF IInv
<1>2. QED
  BY <1>1, Invariance, PTL

(* Whatever fails, a key that has an expiry is gone a window and one request *)
(* after its creation, an entry of the Map a window after                    *)
(* (login/datasources.ts:52, 67-69).                                         *)
THEOREM ExpiryIsBounded == Spec => []ExpiryBounded
<1>1. IInv => ExpiryBounded
  BY DEF IInv, KeyInv
<1>2. QED
  BY <1>1, Invariance, PTL

LEMMA NoLingerStep ==
    ASSUME faults = {}, IInv, NoLinger, [Next]_vars
    PROVE  NoLinger'
<1>. USE DEF NoLinger, Open
<1>0. /\ TypeOK /\ count \in Nat /\ ttl \in Nat
      /\ store = "redis" /\ count = 0 => ttl = 0
      /\ store' = store /\ store \in {"redis", "memory"}
  BY Constants, DeploymentStep DEF IInv, KeyInv, TypeOK, NoKey
<1>1. CASE store = "memory"
  BY <1>0, <1>1
<1>2. CASE UNCHANGED vars
  BY <1>0, <1>2 DEF vars
<1>3. ASSUME NEW r \in Request, Incr(r) PROVE NoLinger'
  <2>1. CASE count = 0
    <3>1. pc'[r] = "pexpire"
      BY <1>0, <1>3, <2>1, Constants DEF Incr, FailsOpen, Goto, TypeOK
    <3>2. QED
      BY <3>1
  <2>2. CASE count # 0
    <3>1. /\ ttl' = ttl /\ store = "redis"
          /\ \A x \in Request : pc[x] = "pexpire" => pc'[x] = "pexpire"
      BY <1>0, <1>3, <2>2
         DEF Incr, Increment, KeyUnchanged, FailsOpen, Goto, OnRedis, TypeOK
    <3>2. QED
      BY <1>0, <2>2, <3>1
  <2>3. QED
    BY <2>1, <2>2
<1>4. ASSUME NEW r \in Request, PExpire(r), store = "redis" PROVE NoLinger'
  <2>1. count' = count /\ ttl' = IF count > 0 THEN Window ELSE 0
    BY <1>4 DEF PExpire, FailsOpen
  <2>2. QED
    BY <1>0, <1>4, <2>1, Constants
<1>5. CASE Tick /\ store = "redis"
  BY <1>0, <1>5 DEF Tick, Expires
<1>6. ASSUME NEW r \in Request, Del(r) \/ RedisRestart \/ ClearInMemory(r)
      PROVE  NoLinger'
  BY <1>0, <1>6 DEF Del, RedisRestart, ClearInMemory, KeyGone
<1>7. ASSUME NEW r \in Request, Arrive(r) \/ PTtl(r) \/ Compare(r) \/ Crash(r)
      PROVE  NoLinger'
  <2>1. KeyUnchanged /\ \A x \in Request : pc[x] = "pexpire" => pc'[x] = "pexpire"
    BY <1>0, <1>7
       DEF Arrive, PTtl, Compare, Crash, FailsOpen, Goto, Leave, TypeOK
  <2>2. QED
    BY <1>0, <2>1 DEF KeyUnchanged
<1>8. CASE RedisRestart
  BY <1>8 DEF RedisRestart
<1>9. ASSUME NEW r \in Request, CheckInMemory(r) PROVE store = "memory"
  BY <1>9 DEF CheckInMemory, InMemory
<1>10. QED
  BY <1>0, <1>1, <1>2, <1>3, <1>4, <1>5, <1>6, <1>7, <1>8, <1>9 DEF Next, Progress

(* Without faults no lockout outlives WINDOW_MS and the duration of one      *)
(* request: some attempt always still owes the key its expiry.               *)
THEOREM LockoutIsBounded == Spec => []LockoutBounded
<1>. DEFINE Owed == faults = {} => NoLinger
<1>1. Init => Owed
  BY DEF Init, NoLinger, Open
<1>2. IInv /\ Owed /\ [Next]_vars => Owed'
  BY NoLingerStep, DeploymentStep
<1>3. ASSUME IInv, Owed PROVE LockoutBounded
  <2>1. /\ Newborn /\ ExpiryBounded /\ ttl \in Nat /\ life \in Nat
        /\ \A r \in Request : age[r] \in Nat /\ age[r] <= MaxAge
    BY <1>3, Constants DEF IInv, KeyInv, TypeOK
  <2>2. CASE ttl > 0
    BY <2>1, <2>2, Constants DEF ExpiryBounded, LockoutBounded
  <2>3. CASE ttl = 0 /\ Open /\ faults = {}
    <3>1. PICK r \in Request : pc[r] = "pexpire"
      BY <1>3, <2>3 DEF NoLinger
    <3>2. life <= age[r]
      BY <2>1, <2>3, <3>1 DEF Newborn
    <3>3. QED
      BY <2>1, <3>2, Constants DEF LockoutBounded
  <2>4. QED
    BY <2>1, <2>2, <2>3 DEF LockoutBounded
<1>4. QED
  BY <1>1, <1>2, <1>3, Invariance, PTL DEF Spec

-----------------------------------------------------------------------------
(* LoginLimit implements LoginAttempts. *)

\* What LoginAttempts knows of the attempts in flight.
Answered == [r \in Request |-> Verdict(pc[r])]

LEMMA AnswerStep ==
    ASSUME TypeOK, NEW r \in Request, NEW step \in Steps,
           pc' = [pc EXCEPT ![r] = step]
    PROVE  Answered' = [Answered EXCEPT ![r] = Verdict(step)]
<1>1. \A x \in Request : pc'[x] = IF x = r THEN step ELSE pc[x]
  BY DEF TypeOK
<1>2. Answered' = [x \in Request |-> Verdict(pc'[x])]
  BY DEF Answered, Verdict
<1>3. \A x \in Request : Verdict(pc'[x]) =
         IF x = r THEN Verdict(step) ELSE Verdict(pc[x])
  BY <1>1
<1>4. QED
  BY <1>2, <1>3 DEF Answered

LEMMA RequestRefines ==
    ASSUME "redis" \notin faults, IInv, UNCHANGED deployment, NEW r \in Request,
           Arrive(r) \/ Progress(r) \/ Crash(r)
    PROVE  Limit!Next \/ UNCHANGED Limit!vars
<1>0. /\ TypeOK /\ NoKey /\ count \in Nat /\ life \in Nat /\ ttl \in Nat
      /\ store \in {"redis", "memory"} /\ store' = store /\ faults' = faults
      /\ Answered[r] = Verdict(pc[r])
  BY Constants DEF IInv, KeyInv, TypeOK, Answered, deployment
<1>. USE DEF Answered
<1>1. CASE Arrive(r)
  <2>1. /\ KeyUnchanged /\ pc[r] = "idle"
        /\ Answered' = [Answered EXCEPT ![r] = Verdict("incr")]
    BY <1>0, <1>1, AnswerStep DEF Arrive, Goto, Steps
  <2>2. Admitted' = Admitted
    BY <1>0, <2>1 DEF Admitted, Open, KeyUnchanged
  <2>3. Limit!Ask(r)
    BY <1>0, <2>1, <2>2 DEF Limit!Ask, Limit!Answer, KeyUnchanged, Verdict
  <2>4. QED
    BY <1>0, <2>3 DEF Limit!Next
<1>2. ASSUME Goto(r, "pexpire") \/ Goto(r, "compare"), pc[r] = "incr",
             Admitted < MaxAttempts, Admitted' = Admitted + 1, life' = life
      PROVE  Limit!Next
  <2>1. Answered' = [Answered EXCEPT ![r] = "admitted"]
    BY <1>0, <1>2, AnswerStep DEF Goto, Steps, Verdict
  <2>2. Limit!Admit(r)
    BY <1>0, <1>2, <2>1 DEF Limit!Admit, Limit!Answer, Verdict
  <2>3. QED
    BY <1>0, <2>2 DEF Limit!Next
<1>3. ASSUME Goto(r, "pttl"), pc[r] = "incr",
             Admitted = MaxAttempts, Admitted' = Admitted, life' = life
      PROVE  Limit!Next
  <2>1. Answered' = [Answered EXCEPT ![r] = "refused"]
    BY <1>0, <1>3, AnswerStep DEF Goto, Steps, Verdict
  <2>2. Limit!Refuse(r)
    BY <1>0, <1>3, <2>1 DEF Limit!Refuse, Limit!Answer, Verdict
  <2>3. QED
    BY <1>0, <2>2 DEF Limit!Next
<1>4. CASE Incr(r)
  <2>0. store = "redis" /\ pc[r] = "incr"
    BY <1>4 DEF Incr, OnRedis
  <2>1. CASE count < MaxAttempts
    <3>1. Goto(r, "pexpire") \/ Goto(r, "compare")
      BY <1>0, <1>4, <2>1, Constants DEF Incr, FailsOpen
    <3>2. Admitted = count /\ Admitted' = count + 1 /\ life' = life
      <4>1. Increment
        BY <1>0, <1>4 DEF Incr, FailsOpen
      <4>2. count' = count + 1 /\ life' = IF count = 0 THEN 0 ELSE life
        BY <1>0, <2>1, <4>1, Constants DEF Increment
      <4>3. life' = life
        BY <1>0, <2>0, <4>2 DEF NoKey, Open
      <4>4. Admitted = count
        BY <1>0, <2>0, <2>1, Constants DEF Admitted, Open
      <4>5. Admitted' = count + 1
        BY <1>0, <2>0, <2>1, <4>2, Constants DEF Admitted, Open
      <4>6. QED
        BY <4>3, <4>4, <4>5
    <3>3. QED
      BY <1>2, <2>0, <2>1, <3>1, <3>2
  <2>2. CASE count >= MaxAttempts
    <3>1. Goto(r, "pttl") /\ Increment
      BY <1>0, <1>4, <2>2, Constants DEF Incr, FailsOpen
    <3>2. Admitted = MaxAttempts /\ Admitted' = MaxAttempts /\ life' = life
      BY <1>0, <2>0, <2>2, <3>1, Constants DEF Increment, Admitted, Open
    <3>3. QED
      BY <1>3, <2>0, <3>1, <3>2
  <2>3. QED
    BY <1>0, <2>1, <2>2, Constants
<1>5. CASE CheckInMemory(r)
  <2>0. store = "memory" /\ pc[r] = "incr"
    BY <1>5 DEF CheckInMemory, InMemory
  <2>1. CASE ttl > 0 /\ count >= MaxAttempts
    <3>1. Goto(r, "pttl") /\ KeyUnchanged
      BY <1>0, <1>5, <2>1, Constants DEF CheckInMemory
    <3>2. Admitted = MaxAttempts /\ Admitted' = MaxAttempts /\ life' = life
      BY <1>0, <2>0, <2>1, <3>1, Constants DEF KeyUnchanged, Admitted, Open
    <3>3. QED
      BY <1>3, <2>0, <3>1, <3>2
  <2>2. CASE ttl > 0 /\ count < MaxAttempts
    <3>1. /\ Goto(r, "compare") /\ count' = count + 1
          /\ ttl' = ttl /\ life' = life
      BY <1>0, <1>5, <2>2, Constants DEF CheckInMemory
    <3>2. Admitted = count /\ Admitted' = count + 1
      BY <1>0, <2>0, <2>2, <3>1, Constants DEF Admitted, Open
    <3>3. QED
      BY <1>2, <2>0, <2>2, <3>1, <3>2
  <2>3. CASE ttl = 0
    <3>1. Goto(r, "compare") /\ count' = 1 /\ ttl' = Window /\ life' = 0
      BY <1>5, <2>3 DEF CheckInMemory
    <3>2. Admitted = 0 /\ Admitted' = 1 /\ life = 0
      BY <1>0, <2>0, <2>3, <3>1, Constants DEF Admitted, Open, NoKey
    <3>3. QED
      BY <1>2, <2>0, <3>1, <3>2, Constants
  <2>4. QED
    BY <1>0, <2>1, <2>2, <2>3, Constants
<1>6. CASE \/ PExpire(r) /\ store = "redis"
           \/ Compare(r) /\ Goto(r, "del")
  <2>1. /\ count' = count /\ life' = life /\ Admitted' = Admitted
        /\ Verdict(pc[r]) = "admitted"
        /\ Goto(r, "compare") \/ Goto(r, "del")
    BY <1>0, <1>6
       DEF PExpire, Compare, FailsOpen, KeyUnchanged, Verdict, Admitted, Open
  <2>2. Answered' = [Answered EXCEPT ![r] = "admitted"]
    BY <1>0, <2>1, AnswerStep DEF Goto, Steps, Verdict
  <2>3. Answered' = Answered
    BY <1>0, <2>1, <2>2
  <2>4. QED
    BY <1>0, <2>1, <2>3 DEF Limit!vars
<1>7. CASE KeyUnchanged /\ Leave(r) /\ pc[r] # "idle"
  <2>1. Answered' = [Answered EXCEPT ![r] = "none"]
    BY <1>0, <1>7, AnswerStep DEF Leave, Steps, Verdict
  <2>2. Verdict(pc[r]) # "none"
    BY <1>0, <1>7 DEF TypeOK, Steps, Verdict
  <2>3. Admitted' = Admitted
    BY <1>0, <1>7 DEF Admitted, Open, KeyUnchanged
  <2>4. Limit!End(r)
    BY <1>0, <1>7, <2>1, <2>2, <2>3 DEF Limit!End, Limit!Answer, KeyUnchanged
  <2>5. QED
    BY <1>0, <2>4 DEF Limit!Next
<1>8. CASE Del(r) \/ ClearInMemory(r)
  <2>1. Answered' = [Answered EXCEPT ![r] = "none"]
    BY <1>0, <1>8, AnswerStep DEF Del, ClearInMemory, Leave, Steps, Verdict
  <2>2. Admitted' = 0 /\ life' = 0
    BY <1>0, <1>8, Constants DEF Del, ClearInMemory, KeyGone, Admitted, Open
  <2>3. pc[r] = "del"
    BY <1>8 DEF Del, ClearInMemory, OnRedis, InMemory
  <2>4. Limit!Succeed(r)
    BY <1>0, <2>1, <2>2, <2>3 DEF Limit!Succeed, Limit!Answer, Limit!Close, Verdict
  <2>5. QED
    BY <1>0, <2>4 DEF Limit!Next
<1>9. PExpire(r) => store = "redis"
  BY <1>0 DEF IInv, KeyInv, Fallback, PExpire
<1>10. QED
  BY <1>1, <1>4, <1>5, <1>6, <1>7, <1>8, <1>9
     DEF Progress, PTtl, Compare, Crash, FailsOpen

LEMMA TickRefines ==
    ASSUME IInv, "crash" \notin faults => NoLinger, Tick, UNCHANGED deployment
    PROVE  Limit!Next \/ UNCHANGED Limit!vars
<1>0. /\ TypeOK /\ NoKey /\ Newborn /\ ExpiryBounded /\ ExpiryNotEarly
      /\ count \in Nat /\ ttl \in Nat /\ life \in Nat /\ life <= Horizon
      /\ \A r \in Request : age[r] \in Nat /\ age[r] <= MaxAge
      /\ store' = store /\ faults' = faults /\ store \in {"redis", "memory"}
  BY Constants DEF IInv, KeyInv, TypeOK, deployment
<1>1. Answered' = Answered
  BY DEF Tick, Verdict, Answered
<1>2. CASE ~Open
  <2>1. ttl = 0
    BY <1>0, <1>2 DEF NoKey
  <2>2. ~Open' /\ life' = life
    BY <1>0, <1>2, <2>1 DEF Tick, Expires, Open
  <2>3. QED
    BY <1>0, <1>1, <1>2, <2>2 DEF Limit!vars, Admitted, Answered
<1>3. CASE Open
  <2>0. Admitted > 0
    BY <1>0, <1>3, Constants DEF Admitted, Open, ExpiryBounded
  <2>1. CASE ttl = 1
    <3>1. ~Open' /\ life' = 0 /\ life + 1 >= Window
      BY <1>0, <2>1, Constants DEF Tick, Expires, Open, ExpiryNotEarly
    <3>2. Limit!Tick
      BY <1>1, <2>0, <3>1, Constants DEF Limit!Tick, Limit!Close, Admitted, Answered
    <3>3. QED
      BY <1>0, <3>2 DEF Limit!Next
  <2>2. CASE ttl # 1
    <3>1. /\ Admitted' = Admitted
          /\ life' = IF life < Horizon THEN life + 1 ELSE Horizon
      <4>1. /\ ttl' = IF ttl > 0 THEN ttl - 1 ELSE 0
            /\ life' = IF Open /\ life < Horizon THEN life + 1 ELSE life
            /\ count' = count
        BY <2>2 DEF Tick, Expires
      <4>2. life' = IF life < Horizon THEN life + 1 ELSE Horizon
        BY <1>0, <1>3, <4>1, Constants DEF Horizon
      <4>3. Open'
        BY <1>0, <1>3, <2>2, <4>1 DEF Open
      <4>4. QED
        BY <1>3, <4>1, <4>2, <4>3 DEF Admitted
    <3>2. life + 1 < Horizon \/ "crash" \in faults
      <4>1. CASE ttl > 1
        BY <1>0, <4>1, Constants DEF ExpiryBounded
      <4>2. CASE ttl = 0 /\ "crash" \notin faults
        <5>1. PICK r \in Request : pc[r] = "pexpire"
          BY <1>3, <4>2 DEF NoLinger
        <5>2. life <= age[r] /\ age[r] < MaxAge
          BY <1>0, <1>3, <5>1 DEF Newborn, Tick, InFlight
        <5>3. QED
          BY <1>0, <5>2, Constants
      <4>3. QED
        BY <1>0, <2>2, <4>1, <4>2
    <3>3. Limit!Tick
      BY <1>1, <2>0, <3>1, <3>2 DEF Limit!Tick, Answered
    <3>4. QED
      BY <1>0, <3>3 DEF Limit!Next
  <2>3. QED
    BY <2>1, <2>2
<1>4. QED
  BY <1>2, <1>3

(* Four commands with awaits in between, or a check and a clear of the Map,  *)
(* keep the promise of LoginAttempts, for any number of overlapping attempts *)
(* and whichever of them die between two commands                            *)
(* (login/datasources.ts:38-106).                                            *)
THEOREM Refinement == Spec => LimitSpec
<1>. DEFINE Owed == faults = {} => NoLinger
<1>1. Init => Limit!Init
  BY Constants, FaultsAssumption DEF Init, Limit!Init, Verdict, Admitted, Open
<1>2. Init => Owed
  BY DEF Init, NoLinger, Open
<1>3. IInv /\ Owed /\ [Next]_vars => Owed'
  BY NoLingerStep, DeploymentStep
<1>4. IInv /\ Owed /\ [Next]_vars => [Limit!Next]_Limit!vars
  <2>. SUFFICES ASSUME IInv, Owed, [Next]_vars
                PROVE  Limit!Next \/ UNCHANGED Limit!vars
    OBVIOUS
  <2>0. faults \subseteq {"redis", "crash"}
    BY DEF IInv, TypeOK
  <2>1. CASE UNCHANGED vars
    BY <2>1 DEF vars, deployment, Limit!vars, Verdict, Admitted, Open
  <2>2. CASE "redis" \in faults
    BY <2>2, DeploymentStep DEF Limit!Next, Limit!FailOpen
  <2>3. CASE Tick /\ UNCHANGED deployment /\ "redis" \notin faults
    <3>1. "crash" \notin faults => faults = {}
      BY <2>0, <2>3
    <3>2. QED
      BY <2>3, <3>1, TickRefines
  <2>4. ASSUME NEW r \in Request, Arrive(r) \/ Progress(r) \/ Crash(r),
               UNCHANGED deployment, "redis" \notin faults
        PROVE  Limit!Next \/ UNCHANGED Limit!vars
    BY <2>4, RequestRefines
  <2>5. QED
    BY <2>1, <2>2, <2>3, <2>4 DEF Next, RedisRestart
<1>5. QED
  BY <1>1, <1>2, <1>3, <1>4, Invariance, PTL DEF Spec, LimitSpec, Limit!Spec
=============================================================================
