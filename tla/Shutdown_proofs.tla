-------------------------- MODULE Shutdown_proofs --------------------------
(***************************************************************************)
(* A timer decides to shut the server down only after a whole grace period  *)
(* without a connection, for every grace period and any number of           *)
(* connections.                                                             *)
(***************************************************************************)
EXTENDS Shutdown, TLAPS

Timer == 1 .. MaxOpened

(* TypeOK in parts.                                                         *)
CountsOK ==
    /\ open \in 0 .. MaxOpen
    /\ opened \in 0 .. MaxOpened
    /\ open <= opened
    /\ quiet \in 0 .. Grace
TimersOK == timer \in [Timer -> [state : {"none", "spawning", "sleeping", "firing"},
                                 left : 0 .. Grace]]
TimersPast == \A n \in Timer : timer[n].state # "none" => n <= opened
FlagsOK == shutdown \in BOOLEAN /\ signalled \in BOOLEAN /\ (signalled => shutdown)
StagesOK == requests \in {"answered", "in flight"} /\ stage \in {"serving", "draining", "exited"}
ExitOK == FlagsOK /\ StagesOK

(* A timer that will find `opened` as it was has had nobody connected since *)
(* it was armed, and has slept for as long as nobody has.                   *)
Unmoved(n) ==
    /\ timer[n].state = "spawning" /\ opened = n => open = 0
    /\ timer[n].state = "sleeping" /\ opened = n => open = 0 /\ quiet + timer[n].left >= Grace

IInv == CountsOK /\ TimersOK /\ TimersPast /\ ExitOK /\ \A n \in Timer : Unmoved(n)

LEMMA InitIInv == Init => IInv
<1> SUFFICES ASSUME Init PROVE IInv
  OBVIOUS
<1> USE BoundsAssumption DEF Init
<1>1. CountsOK BY DEF CountsOK
<1>2. TimersOK BY DEF TimersOK, Timer, NoTimer
<1>3. \A n \in Timer : timer[n].state = "none" BY DEF Timer, NoTimer
<1>4. TimersPast /\ \A n \in Timer : Unmoved(n) BY <1>3 DEF TimersPast, Unmoved
<1>5. ExitOK BY DEF ExitOK, FlagsOK, StagesOK
<1> QED BY <1>1, <1>2, <1>4, <1>5 DEF IInv

(* An exit's variables keep their ranges.                                   *)
LEMMA NextExitOK == ExitOK /\ [Next]_vars => ExitOK'
<1> SUFFICES ASSUME FlagsOK, StagesOK, [Next]_vars PROVE FlagsOK' /\ StagesOK'
  BY DEF ExitOK
<1>1. CASE UNCHANGED exitVars
  <2>1. FlagsOK' BY <1>1 DEF exitVars, FlagsOK
  <2>2. StagesOK' BY <1>1 DEF exitVars, StagesOK
  <2> QED BY <2>1, <2>2
<1>2. ASSUME shutdown' = TRUE, signalled' \in {TRUE, signalled}, UNCHANGED <<requests, stage>>
      PROVE  FlagsOK' /\ StagesOK'
  <2>1. FlagsOK' BY <1>2 DEF FlagsOK
  <2>2. StagesOK' BY <1>2 DEF StagesOK
  <2> QED BY <2>1, <2>2
<1>3. ASSUME UNCHANGED <<shutdown, signalled>>, StagesOK'
      PROVE  FlagsOK' /\ StagesOK'
  BY <1>3 DEF FlagsOK
<1>4. CASE Open \/ Close \/ Tick \/ UNCHANGED vars
  BY <1>1, <1>4 DEF Open, Close, Tick, vars, exitVars
<1>5. ASSUME NEW n \in Timer, Arm(n) \/ Wake(n) PROVE FlagsOK' /\ StagesOK'
  BY <1>1, <1>5 DEF Arm, Wake
<1>6. ASSUME NEW n \in Timer, Fire(n) PROVE FlagsOK' /\ StagesOK'
  BY <1>2, <1>6 DEF Fire
<1>7. CASE ShutdownSignal BY <1>2, <1>7 DEF ShutdownSignal
<1>8. CASE Request BY <1>3, <1>8 DEF Request, StagesOK
<1>9. CASE Answer BY <1>3, <1>9 DEF Answer, StagesOK
<1>10. CASE Finished \/ Deadline BY <1>3, <1>10 DEF Finished, Deadline, Stop, StagesOK
<1>11. CASE Exit BY <1>3, <1>11 DEF Exit, StagesOK
<1> QED BY <1>4, <1>5, <1>6, <1>7, <1>8, <1>9, <1>10, <1>11 DEF Next, Timer

(* The steps of an exit leave the counters and the timers alone.            *)
LEMMA ExitSteps ==
  ASSUME ShutdownSignal \/ Request \/ Answer \/ Finished \/ Deadline \/ Exit \/ UNCHANGED vars
  PROVE  UNCHANGED <<open, opened, timer, quiet>>
  BY DEF ShutdownSignal, Request, Answer, Finished, Deadline, Stop, Exit, vars

LEMMA NextCountsOK == CountsOK /\ TimersOK /\ [Next]_vars => CountsOK'
<1> SUFFICES ASSUME CountsOK, TimersOK, [Next]_vars PROVE CountsOK'
  OBVIOUS
<1> USE BoundsAssumption DEF CountsOK
<1>1. CASE Open BY <1>1 DEF Open
<1>2. CASE Close BY <1>2 DEF Close
<1>3. CASE Tick BY <1>3 DEF Tick
<1>4. ASSUME NEW n \in Timer, Arm(n) \/ Wake(n) \/ Fire(n) PROVE CountsOK'
  BY <1>4 DEF Arm, Wake, Fire
<1>5. CASE ShutdownSignal \/ Request \/ Answer \/ Finished \/ Deadline \/ Exit \/ UNCHANGED vars
  BY <1>5, ExitSteps
<1> QED BY <1>1, <1>2, <1>3, <1>4, <1>5 DEF Next, Timer

LEMMA NextTimersOK ==
  CountsOK /\ TimersOK /\ TimersPast /\ [Next]_vars => TimersOK' /\ TimersPast'
<1> SUFFICES ASSUME CountsOK, TimersOK, TimersPast, [Next]_vars PROVE TimersOK' /\ TimersPast'
  OBVIOUS
<1> USE BoundsAssumption DEF CountsOK, TimersOK, TimersPast, Timer
<1>1. CASE Open BY <1>1 DEF Open
<1>2. CASE Close BY <1>2 DEF Close
<1>3. CASE Tick BY <1>3 DEF Tick
<1>4. ASSUME NEW n \in Timer, Arm(n) PROVE TimersOK' /\ TimersPast'
  BY <1>4 DEF Arm
<1>5. ASSUME NEW n \in Timer, Wake(n) PROVE TimersOK' /\ TimersPast'
  BY <1>5 DEF Wake
<1>6. ASSUME NEW n \in Timer, Fire(n) PROVE TimersOK' /\ TimersPast'
  BY <1>6 DEF Fire
<1>7. CASE ShutdownSignal \/ Request \/ Answer \/ Finished \/ Deadline \/ Exit \/ UNCHANGED vars
  BY <1>7, ExitSteps
<1> QED BY <1>1, <1>2, <1>3, <1>4, <1>5, <1>6, <1>7 DEF Next

(* Every step leaves each timer's word good.                                *)
LEMMA NextUnmoved ==
  ASSUME CountsOK, TimersOK, TimersPast, \A n \in Timer : Unmoved(n), [Next]_vars, NEW m \in Timer
  PROVE  Unmoved(m)'
<1> USE BoundsAssumption DEF CountsOK, TimersOK, TimersPast, Unmoved, Timer
<1>1. CASE Open BY <1>1 DEF Open
<1>2. CASE Close BY <1>2 DEF Close
<1>3. CASE Tick BY <1>3 DEF Tick
<1>4. ASSUME NEW n \in Timer, Arm(n) PROVE Unmoved(m)'
  BY <1>4 DEF Arm
<1>5. ASSUME NEW n \in Timer, Wake(n) PROVE Unmoved(m)'
  BY <1>5 DEF Wake
<1>6. ASSUME NEW n \in Timer, Fire(n) PROVE Unmoved(m)'
  BY <1>6 DEF Fire
<1>7. CASE ShutdownSignal \/ Request \/ Answer \/ Finished \/ Deadline \/ Exit \/ UNCHANGED vars
  BY <1>7, ExitSteps
<1> QED BY <1>1, <1>2, <1>3, <1>4, <1>5, <1>6, <1>7 DEF Next

LEMMA NextIInv == IInv /\ [Next]_vars => IInv'
  BY NextExitOK, NextCountsOK, NextTimersOK, NextUnmoved DEF IInv, Timer

LEMMA Inductive == Spec => []IInv
  BY InitIInv, NextIInv, PTL DEF Spec

(* The counters, the timers and the stages of an exit keep their ranges.    *)
THEOREM ShutdownTypeOK == Spec => []TypeOK
<1>1. IInv => TypeOK
  BY DEF IInv, TypeOK, CountsOK, TimersOK, TimersPast, ExitOK, FlagsOK, StagesOK,
         Timer
<1> QED BY <1>1, Inductive, PTL

(* A timer decides to shut the server down only after a whole grace period  *)
(* without a connection (Connection::drop).                                 *)
THEOREM ShutdownOnlyIdle == Spec => ShutsDownOnlyIdle
<1> DEFINE Idle == \A n \in DOMAIN timer :
                     timer[n].state # "firing" /\ timer'[n].state = "firing" =>
                         open = 0 /\ quiet = Grace
<1>1. IInv /\ [Next]_vars => [Idle]_vars
  <2> SUFFICES ASSUME IInv, Next,
                      NEW n \in Timer, timer[n].state # "firing", timer'[n].state = "firing"
               PROVE  open = 0 /\ quiet = Grace
    BY DEF IInv, TimersOK
  <2> USE BoundsAssumption DEF TimersOK, Timer
  <2>1. TimersOK /\ CountsOK /\ Unmoved(n) BY DEF IInv
  <2>2. \E k \in Timer : Wake(k)
    <3>1. CASE Open \/ Close BY <3>1, <2>1 DEF Open, Close, CountsOK
    <3>2. CASE Tick BY <3>2, <2>1 DEF Tick
    <3>3. ASSUME NEW k \in Timer, Arm(k) \/ Fire(k) PROVE FALSE
      BY <3>3, <2>1 DEF Arm, Fire
    <3>4. CASE ShutdownSignal \/ Request \/ Answer \/ Finished \/ Deadline \/ Exit
      BY <3>4, ExitSteps
    <3> QED BY <3>1, <3>2, <3>3, <3>4 DEF Next
  <2>3. PICK k \in Timer : Wake(k) BY <2>2
  <2>4. k = n /\ opened = n /\ timer[n].state = "sleeping" /\ timer[n].left = 0
    BY <2>3, <2>1 DEF Wake
  <2> QED BY <2>4, <2>1 DEF Unmoved, CountsOK
<1> QED BY <1>1, Inductive, PTL DEF Spec, ShutsDownOnlyIdle
=============================================================================
