------------------------------ MODULE Shutdown ------------------------------
(***************************************************************************)
(* How the server comes to exit (rsdirstat/src/main.rs): the counted        *)
(* WebSocket connections, whose last one arms a timer as it closes          *)
(* (Connections, Connection), the `shutdown` watch they and shutdown_signal *)
(* raise, and the two grace periods of an exit that some request or         *)
(* blocking task may hold up for ever (serve_until_stopped, main).          *)
(*                                                                         *)
(* Time runs in ticks for the timers, which may be late but never early.    *)
(***************************************************************************)
EXTENDS Naturals

CONSTANTS
    Grace,       \* SHUTDOWN_GRACE, in ticks
    MaxOpen,     \* bound: connections open at once
    MaxOpened    \* bound: connections ever opened

ASSUME BoundsAssumption == Grace \in Nat /\ MaxOpen \in Nat /\ MaxOpened \in Nat

VARIABLES
    open, opened,   \* Connections
    timer,          \* the timer armed when `opened` stood at n, for each n
    quiet,          \* history: ticks since a connection was last open or opened
    shutdown,       \* the watch's value
    signalled,      \* shutdown_signal has returned: the server takes no more requests
    requests,       \* requests in flight are all answered, or not
    stage           \* "serving", then the blocking tasks "draining", then "exited"

vars == <<open, opened, timer, quiet, shutdown, signalled, requests, stage>>
exitVars == <<shutdown, signalled, requests, stage>>

NoTimer == [state |-> "none", left |-> 0]

Init ==
    /\ open = 0 /\ opened = 0
    /\ timer = [n \in 1 .. MaxOpened |-> NoTimer]
    /\ quiet = Grace
    /\ shutdown = FALSE
    /\ signalled = FALSE
    /\ requests = "answered"
    /\ stage = "serving"

-----------------------------------------------------------------------------
Open ==
    /\ stage = "serving"
    /\ open < MaxOpen /\ opened < MaxOpened
    /\ open' = open + 1
    /\ opened' = opened + 1
    /\ quiet' = 0
    /\ UNCHANGED <<timer, exitVars>>

(* Connection::drop: what the timer will compare is read under the lock the *)
(* count goes down under.  Mutant: no timer while another is armed.         *)
CloseArmingOne ==
    /\ open > 0
    /\ stage = "serving"
    /\ open' = open - 1
    /\ timer' = IF open' > 0 \/ (\E n \in DOMAIN timer : timer[n].state # "none") THEN timer
                ELSE [timer EXCEPT ![opened] = [state |-> "spawning", left |-> 0]]
    /\ UNCHANGED <<opened, quiet, exitVars>>

Close ==
    /\ open > 0
    /\ stage = "serving"
    /\ open' = open - 1
    /\ timer' = IF open' > 0 THEN timer
                ELSE [timer EXCEPT ![opened] = [state |-> "spawning", left |-> 0]]
    /\ UNCHANGED <<opened, quiet, exitVars>>

(* The timer's task begins to sleep.                                        *)
Arm(n) ==
    /\ timer[n].state = "spawning"
    /\ stage = "serving"
    /\ timer' = [timer EXCEPT ![n] = [state |-> "sleeping", left |-> Grace]]
    /\ UNCHANGED <<open, opened, quiet, exitVars>>

Tick ==
    /\ stage = "serving"
    /\ timer' = [n \in DOMAIN timer |->
                    IF timer[n].left = 0 THEN timer[n] ELSE [timer[n] EXCEPT !.left = @ - 1]]
    /\ quiet' = IF open > 0 THEN 0 ELSE IF quiet < Grace THEN quiet + 1 ELSE quiet
    /\ UNCHANGED <<open, opened, exitVars>>

(* It wakes, and looks whether anybody has connected since.  Mutant: whether*)
(* anybody is connected now.                                                *)
WakeCounting(n) ==
    /\ timer[n] = [state |-> "sleeping", left |-> 0]
    /\ stage = "serving"
    /\ timer' = [timer EXCEPT ![n].state = IF open = 0 THEN "firing" ELSE "none"]
    /\ UNCHANGED <<open, opened, quiet, exitVars>>

Wake(n) ==
    /\ timer[n] = [state |-> "sleeping", left |-> 0]
    /\ stage = "serving"
    /\ timer' = [timer EXCEPT ![n].state = IF opened = n THEN "firing" ELSE "none"]
    /\ UNCHANGED <<open, opened, quiet, exitVars>>

Fire(n) ==
    /\ timer[n].state = "firing"
    /\ stage = "serving"
    /\ timer' = [timer EXCEPT ![n].state = "none"]
    /\ shutdown' = TRUE
    /\ UNCHANGED <<open, opened, quiet, signalled, requests, stage>>

-----------------------------------------------------------------------------
(* shutdown_signal: Ctrl+C, SIGTERM or the watch.                           *)
ShutdownSignal ==
    /\ ~signalled
    /\ stage = "serving"
    /\ shutdown' = TRUE
    /\ signalled' = TRUE
    /\ UNCHANGED <<open, opened, timer, quiet, requests, stage>>

(* A request may be in flight, and stay so as long as a dead mount takes.   *)
Request ==
    /\ stage = "serving" /\ ~signalled
    /\ requests' = "in flight"
    /\ UNCHANGED <<open, opened, timer, quiet, shutdown, signalled, stage>>

Answer ==
    /\ stage = "serving"
    /\ requests' = "answered"
    /\ UNCHANGED <<open, opened, timer, quiet, shutdown, signalled, stage>>

(* serve_until_stopped: the server has finished, or DRAIN_GRACE has passed  *)
(* since `shutdown`.  Mutant: the deadline waits for the requests too.      *)
Stop ==
    /\ stage = "serving"
    /\ stage' = "draining"
    /\ UNCHANGED <<open, opened, timer, quiet, shutdown, signalled, requests>>

Finished == signalled /\ requests = "answered" /\ Stop

DeadlineWaiting == shutdown /\ requests = "answered" /\ Stop

Deadline == shutdown /\ Stop

(* Runtime::shutdown_timeout: the blocking tasks are waited for, but not    *)
(* for long.                                                                *)
Exit ==
    /\ stage = "draining"
    /\ stage' = "exited"
    /\ UNCHANGED <<open, opened, timer, quiet, shutdown, signalled, requests>>

Next ==
    \/ Open \/ Close \/ Tick
    \/ \E n \in 1 .. MaxOpened : Arm(n) \/ Wake(n) \/ Fire(n)
    \/ ShutdownSignal \/ Request \/ Answer \/ Finished \/ Deadline \/ Exit

(* Timers and the shutdown task run; nothing makes a page leave, a request  *)
(* be answered, or a signal come.                                           *)
Fairness ==
    /\ WF_vars(Tick)
    /\ \A n \in 1 .. MaxOpened : WF_vars(Arm(n)) /\ WF_vars(Wake(n)) /\ WF_vars(Fire(n))
    /\ WF_vars(shutdown /\ ShutdownSignal)
    /\ WF_vars(Finished) /\ WF_vars(Deadline) /\ WF_vars(Exit)

Spec == Init /\ [][Next]_vars /\ Fairness

-----------------------------------------------------------------------------
TypeOK ==
    /\ open \in 0 .. MaxOpen
    /\ opened \in 0 .. MaxOpened
    /\ open <= opened
    /\ timer \in [1 .. MaxOpened -> [state : {"none", "spawning", "sleeping", "firing"},
                                     left : 0 .. Grace]]
    /\ \A n \in 1 .. MaxOpened : timer[n].state # "none" => n <= opened
    /\ quiet \in 0 .. Grace
    /\ shutdown \in BOOLEAN /\ signalled \in BOOLEAN
    /\ signalled => shutdown
    /\ requests \in {"answered", "in flight"}
    /\ stage \in {"serving", "draining", "exited"}

(* A timer decides to shut the server down only after a whole grace period  *)
(* without a connection: not just when nobody is connected as it wakes, as  *)
(* between two quick reloads (Connection::drop).                            *)
ShutsDownOnlyIdle ==
    [][\A n \in DOMAIN timer :
         timer[n].state # "firing" /\ timer'[n].state = "firing" =>
             open = 0 /\ quiet = Grace]_vars

(* A server everybody has left, however often they came back before, shuts  *)
(* down (Connections).                                                      *)
ShutsDown == <>[](opened > 0 /\ open = 0) => <>shutdown

(* Once shutting down the process exits, whatever its requests and tasks    *)
(* are stuck in (serve_until_stopped, main).                                *)
Exits == shutdown ~> stage = "exited"
=============================================================================
