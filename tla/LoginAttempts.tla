--------------------------- MODULE LoginAttempts ---------------------------
(***************************************************************************)
(* What login rate limiting promises for one user name, whatever keeps the *)
(* count: "5 attempts per 15 minutes per username" (readme.md, Security    *)
(* Features).  The first attempt opens a window.  At most MaxAttempts are  *)
(* admitted until the window closes, which it does when it has been open   *)
(* for Window ticks, or at once when an admitted attempt succeeds.  The    *)
(* promise depends on what may fail: attempts that die can leave a window  *)
(* open for ever, and nothing is promised of a store that rejects          *)
(* commands, where the limiter lets attempts through.                      *)
(***************************************************************************)
EXTENDS Naturals

CONSTANTS
    Request,        \* attempts that can be in flight at the same time
    MaxAttempts,    \* MAX_ATTEMPTS
    Window,         \* WINDOW_MS, in ticks
    Longest         \* ticks after which a window is over

VARIABLES
    faults,     \* which of "redis" and "crash" may happen, for good
    admitted,   \* attempts counted and admitted in the window; 0 when closed
    elapsed,    \* ticks the window has been open
    verdict     \* verdict[r]: what the limiter answered to attempt r

vars == <<faults, admitted, elapsed, verdict>>

Verdicts == {"none", "asked", "admitted", "refused"}

TypeOK ==
    /\ faults \subseteq {"redis", "crash"}
    /\ admitted \in 0 .. MaxAttempts
    /\ elapsed \in 0 .. Longest
    /\ verdict \in [Request -> Verdicts]

Init ==
    /\ faults \subseteq {"redis", "crash"}
    /\ admitted = 0
    /\ elapsed = 0
    /\ verdict = [r \in Request |-> "none"]

Answer(r, answer) == verdict' = [verdict EXCEPT ![r] = answer]

Ask(r) ==
    /\ verdict[r] = "none"
    /\ Answer(r, "asked")
    /\ UNCHANGED <<admitted, elapsed>>

Admit(r) ==
    /\ verdict[r] = "asked"
    /\ admitted < MaxAttempts
    /\ admitted' = admitted + 1
    /\ Answer(r, "admitted")
    /\ UNCHANGED elapsed

Refuse(r) ==
    /\ verdict[r] = "asked"
    /\ admitted = MaxAttempts
    /\ Answer(r, "refused")
    /\ UNCHANGED <<admitted, elapsed>>

\* The attempt ends: refused, failed, cut short, or (Succeed) successful.
End(r) ==
    /\ verdict[r] # "none"
    /\ Answer(r, "none")
    /\ UNCHANGED <<admitted, elapsed>>

Close == admitted' = 0 /\ elapsed' = 0

Succeed(r) ==
    /\ verdict[r] = "admitted"
    /\ Answer(r, "none")
    /\ Close

\* An open window gets older; it closes no earlier than after Window ticks.
\* A window that lingers is Longest ticks old forever.
Tick ==
    /\ admitted > 0
    /\ \/ /\ elapsed + 1 < Longest \/ "crash" \in faults
          /\ elapsed' = IF elapsed < Longest THEN elapsed + 1 ELSE Longest
          /\ UNCHANGED admitted
       \/ /\ elapsed + 1 >= Window
          /\ Close
    /\ UNCHANGED verdict

FailOpen == "redis" \in faults

Next ==
    /\ \/ \E r \in Request :
             \/ Ask(r) \/ Admit(r) \/ Refuse(r) \/ End(r) \/ Succeed(r)
       \/ Tick
       \/ FailOpen
    /\ UNCHANGED faults

Spec == Init /\ [][Next]_vars

=============================================================================
