----------------------------- MODULE StepTimer -----------------------------
(***************************************************************************)
(* Core/StepTimer.hpp: Tick measures the time since the last one, clamps   *)
(* it, and runs the update callback once (variable step) or as often as    *)
(* the target step fits in what is left over (fixed step).                 *)
(*                                                                         *)
(* Tick and ResetElapsedTime hold m_mutex, so one variable, stage, says    *)
(* where the thread that holds it is.  The setters do not take it: they    *)
(* run at any stage, from the callback or from another thread, and the     *)
(* fixed step reads m_targetElapsed four times, each read a step here.     *)
(* Time is counted in whole ticks of the clock from the construction on.   *)
(***************************************************************************)
EXTENDS Integers

CONSTANTS
    MaxDelta,   \* m_maxDelta
    Second,     \* the interval of the frame counter
    Targets,    \* what SetTargetElapsed may be given: a signed duration
    MaxTarget,  \* a bound of the positive ones
    MaxLeft,    \* bound: what a loop with a negative target piles up
    MaxNow,     \* bound: the clock stops here
    MaxTicks,   \* bound: calls of Tick
    MaxChanges  \* bound: setters that change something, and resets

ASSUME TimeAssumption ==
    MaxDelta \in Nat /\ Second \in Nat /\ MaxNow \in Nat /\ MaxTicks \in Nat
    /\ MaxChanges \in Nat /\ MaxLeft \in Nat
ASSUME TargetsAssumption ==
    /\ MaxTarget \in Nat /\ Targets \subseteq Int /\ Targets # {}
    /\ \A t \in Targets : t <= MaxTarget

VARIABLES
    now,                \* Clock::now()
    stage,              \* where the holder of m_mutex is; "free": nobody
    delta,              \* the local of Tick
    m_lastTime, m_elapsed, m_total, m_leftOver,
    m_targetElapsed, m_fixedTimeStep,
    m_frameCount, m_framesThisSecond, m_framesPerSecond, m_fpsCounterStart,
    lost,               \* history: time that was clamped, reset or dropped
    seen,               \* history: sum of m_elapsed over the updates
    spent,              \* history: time simulated by the present Tick
    torn,               \* history: the target changed within a fixed step
    threw,              \* history: an update threw
    changes             \* setters and resets so far

frames == <<m_frameCount, m_framesThisSecond, m_framesPerSecond, m_fpsCounterStart>>
config == <<m_targetElapsed, m_fixedTimeStep, changes>>
account == <<m_elapsed, m_total, m_leftOver, lost, seen, spent>>
clock == <<now, delta, m_lastTime>>
vars == <<stage, torn, threw, clock, account, config, frames>>

Smaller(a, b) == IF a < b THEN a ELSE b

Updates == {"update", "once"}   \* in the callback, in the loop or not
Reads == {"elapsed", "total", "subtract"}
Stages == {"free", "variable", "test", "fps", "stuck"} \cup Reads \cup Updates

Init ==
    /\ now = 0 /\ delta = 0 /\ m_lastTime = 0
    /\ stage = "free"
    /\ m_elapsed = 0 /\ m_total = 0 /\ m_leftOver = 0
    /\ m_targetElapsed \in Targets
    /\ m_fixedTimeStep = FALSE
    /\ m_frameCount = 0 /\ m_framesThisSecond = 0 /\ m_framesPerSecond = 0
    /\ m_fpsCounterStart = 0
    /\ lost = 0 /\ seen = 0 /\ spent = 0
    /\ torn = FALSE /\ threw = FALSE
    /\ changes = 0

(* Time passes, at any moment. *)
Advance ==
    /\ now < MaxNow
    /\ now' = now + 1
    /\ UNCHANGED <<stage, torn, threw, delta, m_lastTime, account, config, frames>>

-----------------------------------------------------------------------------
(* Tick *)

(* Fault: the clamp is missing. *)
ClampNothing(d) == d

(* if(delta > m_maxDelta) delta = m_maxDelta; *)
Clamp(d) == Smaller(d, MaxDelta)

(* From the lock to the branch on m_fixedTimeStep. *)
BeginTick ==
    /\ stage = "free"
    /\ m_frameCount < MaxTicks
    /\ delta' = Clamp(now - m_lastTime)
    /\ m_lastTime' = now
    /\ lost' = lost + (now - m_lastTime) - delta'
    /\ spent' = 0
    /\ m_frameCount' = m_frameCount + 1
    /\ m_framesThisSecond' = m_framesThisSecond + 1
    /\ IF m_fixedTimeStep
       THEN stage' = "test" /\ m_leftOver' = m_leftOver + delta'
       ELSE stage' = "variable" /\ UNCHANGED m_leftOver
    /\ UNCHANGED <<now, m_elapsed, m_total, seen, config, torn, threw,
                   m_framesPerSecond, m_fpsCounterStart>>

VariableStep ==
    /\ stage = "variable"
    /\ stage' = "once"
    /\ m_elapsed' = delta
    /\ m_total' = m_total + delta
    /\ seen' = seen + delta
    /\ lost' = lost + m_leftOver
    /\ m_leftOver' = 0
    /\ UNCHANGED <<clock, spent, config, frames, torn, threw>>

(* while(m_leftOver >= m_targetElapsed).  Each pass with a negative target *)
(* adds to what is left over, until the 64 bits of the count are full: the *)
(* model stops that loop at MaxLeft, long before.                          *)
LoopTest ==
    /\ stage = "test"
    /\ m_targetElapsed < 0 => m_leftOver < MaxLeft
    /\ stage' = IF m_leftOver >= m_targetElapsed THEN "elapsed" ELSE "fps"
    /\ UNCHANGED <<clock, account, config, frames, torn, threw>>

StoreElapsed ==
    /\ stage = "elapsed"
    /\ stage' = "total"
    /\ m_elapsed' = m_targetElapsed
    /\ UNCHANGED <<clock, m_total, m_leftOver, lost, seen, spent, config, frames,
                   torn, threw>>

AddTotal ==
    /\ stage = "total"
    /\ stage' = "subtract"
    /\ m_total' = m_total + m_targetElapsed
    /\ UNCHANGED <<clock, m_elapsed, m_leftOver, lost, seen, spent, config, frames,
                   torn, threw>>

SubtractTo(rest) ==
    /\ stage = "subtract"
    /\ stage' = "update"
    /\ m_leftOver' = rest
    /\ spent' = spent + m_targetElapsed
    /\ seen' = seen + m_elapsed
    /\ UNCHANGED <<clock, m_elapsed, m_total, lost, config, frames, torn, threw>>

(* Fault: what does not fill a step is dropped. *)
SubtractAll == SubtractTo(0)

Subtract == SubtractTo(m_leftOver - m_targetElapsed)

(* update() returns, to the loop's test or behind the branch. *)
UpdateReturns ==
    /\ stage \in Updates
    /\ stage' = IF stage = "update" THEN "test" ELSE "fps"
    /\ UNCHANGED <<clock, account, config, frames, torn, threw>>

(* update() throws: the lock is released, the rest of Tick skipped. *)
UpdateThrows ==
    /\ stage \in Updates
    /\ stage' = "free"
    /\ threw' = TRUE
    /\ UNCHANGED <<clock, account, config, frames, torn>>

(* update() calls Tick or ResetElapsedTime, whose lock it holds already. *)
UpdateReenters ==
    /\ stage \in Updates
    /\ stage' = "stuck"
    /\ UNCHANGED <<clock, account, config, frames, torn, threw>>

(* The frame counter, once a second; ...                                   *)
CountGoing(to) ==
    /\ stage = "fps"
    /\ stage' = to
    /\ IF m_lastTime - m_fpsCounterStart >= Second
       THEN /\ m_framesPerSecond' = m_framesThisSecond
            /\ m_framesThisSecond' = 0
            /\ m_fpsCounterStart' = m_lastTime
       ELSE UNCHANGED <<m_framesPerSecond, m_framesThisSecond, m_fpsCounterStart>>
    /\ UNCHANGED <<clock, account, config, m_frameCount, torn, threw>>

(* Fault: a return within the second that skips an unlock by hand. *)
CountFramesLocked ==
    CountGoing(IF m_lastTime - m_fpsCounterStart >= Second THEN "free" ELSE "fps")

(* ... then the lock is released.                                          *)
CountFrames == CountGoing("free")

-----------------------------------------------------------------------------
(* The bound on what other threads and callbacks do to the timer. *)
Change(real) ==
    /\ real => changes < MaxChanges
    /\ changes' = IF real THEN changes + 1 ELSE changes

ResetTo == now

ResetElapsedTime ==
    /\ stage = "free"
    /\ Change(TRUE)
    /\ m_lastTime' = ResetTo
    /\ lost' = lost + (now - m_lastTime) + m_leftOver
    /\ m_leftOver' = 0
    /\ m_framesThisSecond' = 0
    /\ m_framesPerSecond' = 0
    /\ m_fpsCounterStart' = m_lastTime'
    /\ UNCHANGED <<stage, now, delta, m_elapsed, m_total, seen, spent, m_targetElapsed,
                   m_fixedTimeStep, m_frameCount, torn, threw>>

(* The setters, without the lock.  SetTargetElapsedSeconds converts. *)
SetFixedTimeStep(isFixed) ==
    /\ Change(isFixed # m_fixedTimeStep)
    /\ m_fixedTimeStep' = isFixed
    /\ UNCHANGED <<clock, stage, account, frames, torn, threw, m_targetElapsed>>

SetTargetElapsed(duration) ==
    /\ Change(duration # m_targetElapsed)
    /\ m_targetElapsed' = duration
    /\ torn' = (torn \/ (stage \in Reads /\ duration # m_targetElapsed))
    /\ UNCHANGED <<clock, stage, account, frames, threw, m_fixedTimeStep>>

Setters ==
    \/ \E isFixed \in BOOLEAN : SetFixedTimeStep(isFixed)
    \/ \E duration \in Targets : SetTargetElapsed(duration)

-----------------------------------------------------------------------------
(* The thread in Tick runs, and the callback ends in one way or another. *)
TickStep ==
    \/ VariableStep \/ LoopTest \/ StoreElapsed \/ AddTotal \/ Subtract
    \/ UpdateReturns \/ UpdateThrows \/ UpdateReenters \/ CountFrames

Next == Advance \/ BeginTick \/ TickStep \/ ResetElapsedTime \/ Setters

Spec == Init /\ [][Next]_vars /\ WF_vars(TickStep)

-----------------------------------------------------------------------------
(* As long as the target did not change between the loop's test and the    *)
(* subtraction, time is neither invented nor lost by the steps: what was   *)
(* simulated, what is left over and what the timer means to drop add up to *)
(* the clock, and a game that adds up the elapsed times it is shown by     *)
(* each update arrives at the total.                                       *)
TimeConserved ==
    ~torn =>
      /\ m_leftOver >= 0
      /\ stage # "subtract" =>
            /\ m_total + m_leftOver + lost + (IF stage = "variable" THEN delta ELSE 0)
                 = m_lastTime
            /\ m_total = seen

(* Without a race and without a throwing update, one Tick simulates at     *)
(* most the longest delta and one target: the clamp stops a slow update    *)
(* from making the next Tick longer and longer.                            *)
CatchUpBounded == ~torn /\ ~threw => spent <= MaxDelta + MaxTarget

(* A Tick returns, and with it whoever waits for the lock, unless the      *)
(* callback calls the timer again or the target is at some time not        *)
(* positive: the setters take 0 and negative durations, for which the      *)
(* loop's test never sees what is left over exhausted.                     *)
TickReturns ==
    stage # "free" ~> (stage \in {"free", "stuck"} \/ m_targetElapsed <= 0)
=============================================================================
