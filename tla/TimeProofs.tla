----------------------------- MODULE TimeProofs -----------------------------
(* Proofs about Core's two keepers of time: StepTimer, for any clamp, any  *)
(* targets and any bounds, and the functions of Time.                      *)
EXTENDS StepTimer, Time, TLAPS

-----------------------------------------------------------------------------
(* StepTimer *)

TimerTypeOK ==
    /\ now \in Nat /\ delta \in Nat /\ m_lastTime \in Nat
    /\ m_lastTime <= now
    /\ delta <= MaxDelta
    /\ stage \in Stages
    /\ m_elapsed \in Int /\ m_total \in Int /\ m_leftOver \in Int
    /\ m_targetElapsed \in Int /\ m_targetElapsed <= MaxTarget
    /\ m_fixedTimeStep \in BOOLEAN
    /\ lost \in Int /\ seen \in Int /\ spent \in Int
    /\ torn \in BOOLEAN /\ threw \in BOOLEAN

(* What a step has taken from m_leftOver and not yet given, or the reverse, *)
(* at each stage.                                                           *)
Balance ==
    /\ m_total + m_leftOver + lost + (IF stage = "variable" THEN delta ELSE 0)
         = m_lastTime + (IF stage = "subtract" THEN m_targetElapsed ELSE 0)
    /\ m_total = seen + (IF stage = "subtract" THEN m_targetElapsed ELSE 0)

(* The loop's test still holds where its value is used. *)
TestHolds ==
    /\ m_leftOver >= 0
    /\ stage \in Reads => m_targetElapsed <= m_leftOver
    /\ stage \in {"total", "subtract"} => m_elapsed = m_targetElapsed

(* Outside of the loop at most the largest target is left over; inside it,  *)
(* what is left and what was simulated come from there and from delta.      *)
LeftOverBounded ==
    /\ spent <= MaxDelta + MaxTarget
    /\ stage \in {"free", "fps", "variable", "once"} => m_leftOver <= MaxTarget
    /\ stage \in Reads \cup {"test", "update"} =>
         spent + m_leftOver <= MaxDelta + MaxTarget

TimerInv ==
    /\ TimerTypeOK
    /\ ~torn => Balance /\ TestHolds
    /\ ~torn /\ ~threw => LeftOverBounded

LEMMA InitTimer == Init => TimerInv
  <1> SUFFICES ASSUME Init PROVE TimerInv
      OBVIOUS
  <1> USE TimeAssumption, TargetsAssumption DEF Init
  <1>0. m_targetElapsed \in Int /\ m_targetElapsed <= MaxTarget
      OBVIOUS
  <1>1. stage \in Stages
      BY DEF Stages
  <1>2. TimerTypeOK
    <2>1. m_fixedTimeStep \in BOOLEAN /\ torn \in BOOLEAN /\ threw \in BOOLEAN
        BY Zenon
    <2> QED
        BY <1>0, <1>1, <2>1 DEF TimerTypeOK
  <1>3. Balance /\ TestHolds
      BY DEF Balance, TestHolds, Reads
  <1>4. LeftOverBounded
      BY DEF LeftOverBounded
  <1> QED
      BY <1>2, <1>3, <1>4 DEF TimerInv

LEMMA StepTimerInv == TimerInv /\ [Next]_vars => TimerInv'
  <1> SUFFICES ASSUME TimerInv, [Next]_vars PROVE TimerInv'
      OBVIOUS
  <1> USE TimeAssumption, TargetsAssumption
      DEF TimerInv, TimerTypeOK, Balance, TestHolds, LeftOverBounded, Stages, Reads,
          Updates, clock, account, config, frames
  <1>1. CASE Advance
      BY <1>1 DEF Advance
  <1>2. CASE BeginTick
      BY <1>2 DEF BeginTick, Clamp, Smaller
  <1>3. CASE VariableStep
      BY <1>3 DEF VariableStep
  <1>4. CASE LoopTest
      BY <1>4 DEF LoopTest
  <1>5. CASE StoreElapsed
      BY <1>5 DEF StoreElapsed
  <1>6. CASE AddTotal
      BY <1>6 DEF AddTotal
  <1>7. CASE Subtract
      BY <1>7 DEF Subtract, SubtractTo
  <1>8. CASE UpdateReturns
      BY <1>8 DEF UpdateReturns
  <1>9. CASE UpdateThrows
      BY <1>9 DEF UpdateThrows
  <1>10. CASE UpdateReenters
      BY <1>10 DEF UpdateReenters
  <1>11. CASE CountFrames
      BY <1>11 DEF CountFrames, CountGoing
  <1>12. CASE ResetElapsedTime
      BY <1>12 DEF ResetElapsedTime, ResetTo, Change
  <1>13. CASE Setters
      BY <1>13 DEF Setters, SetFixedTimeStep, SetTargetElapsed, Change
  <1>14. CASE UNCHANGED vars
      BY <1>14 DEF vars
  <1> QED
      BY <1>1, <1>2, <1>3, <1>4, <1>5, <1>6, <1>7, <1>8, <1>9, <1>10, <1>11, <1>12, <1>13, <1>14 DEF Next, TickStep

(* The inductive invariant holds in every reachable state. *)
THEOREM TimerInvariant == Spec => []TimerInv
  <1> QED
      BY InitTimer, StepTimerInv, PTL DEF Spec

(* Simulated, left over and dropped time add up to the clock, and the game *)
(* is shown all of what is simulated, for any clamp and targets, as long   *)
(* as nobody sets the target in the middle of a step.                      *)
THEOREM TimeIsConserved == Spec => []TimeConserved
  <1>1. TimerInv => TimeConserved
      BY DEF TimerInv, TimerTypeOK, Balance, TestHolds, TimeConserved
  <1> QED
      BY <1>1, TimerInvariant, PTL

(* One Tick simulates at most the longest delta and the largest target. *)
THEOREM TickIsBounded == Spec => []CatchUpBounded
  <1>1. TimerInv => CatchUpBounded
      BY DEF TimerInv, LeftOverBounded, CatchUpBounded
  <1> QED
      BY <1>1, TimerInvariant, PTL

(* The passes of the fixed step loop. *)
Passing == Reads \cup {"test", "update"}

(* The other side of TickReturns: in the fixed step loop with a target of  *)
(* 0 or less, which SetTargetElapsed and SetTargetElapsedSeconds accept,   *)
(* no pass is the last one, as what is left over is not negative and a     *)
(* pass takes nothing from it: only an update that throws ends the loop,   *)
(* or another call of a setter (or, long after the bound MaxLeft, the end  *)
(* of the 64 bits).  Who waits for m_mutex waits for it.                   *)
THEOREM SpinsWithoutTarget ==
    Spec => [][~torn /\ m_targetElapsed <= 0 /\ stage \in Passing
                 => stage' \in Passing \cup {"stuck"} \/ UpdateThrows]_vars
  <1>1. ASSUME TimerInv, Next, ~torn, m_targetElapsed <= 0, stage \in Passing
        PROVE  stage' \in Passing \cup {"stuck"} \/ UpdateThrows
    <2> USE <1>1 DEF Passing, Reads
    <2>1. CASE Advance \/ Setters
        BY <2>1 DEF Advance, Setters, SetFixedTimeStep, SetTargetElapsed
    <2>2. CASE BeginTick \/ ResetElapsedTime \/ VariableStep \/ CountFrames
        BY <2>2 DEF BeginTick, ResetElapsedTime, VariableStep, CountFrames, CountGoing
    <2>3. CASE LoopTest
      <3>1. m_leftOver >= m_targetElapsed
          BY DEF TimerInv, TimerTypeOK, TestHolds
      <3> QED
          BY <2>3, <3>1 DEF LoopTest
    <2>4. CASE StoreElapsed \/ AddTotal \/ Subtract
        BY <2>4 DEF StoreElapsed, AddTotal, Subtract, SubtractTo
    <2>5. CASE UpdateReturns \/ UpdateReenters
        BY <2>5 DEF UpdateReturns, UpdateReenters, Updates
    <2> QED
        BY <2>1, <2>2, <2>3, <2>4, <2>5 DEF Next, TickStep
  <1>2. TimerInv /\ [Next]_vars =>
          [~torn /\ m_targetElapsed <= 0 /\ stage \in Passing
             => stage' \in Passing \cup {"stuck"} \/ UpdateThrows]_vars
      BY <1>1
  <1> QED
      BY <1>2, TimerInvariant, PTL DEF Spec

-----------------------------------------------------------------------------
(* Time *)

(* FormatDurationHMS shows a duration that is not negative, and has less   *)
(* than 2^31 hours, as what it is: the parts add up, and no two durations  *)
(* look the same.                                                          *)
THEOREM DurationShown ==
    ASSUME NEW total \in Nat, total < 3600 * 2147483648
    PROVE  LET hms == FormatDurationHMS(total)
           IN  /\ total = 3600 * hms.hours + 60 * hms.minutes + hms.seconds
               /\ hms.minutes \in 0 .. 59 /\ hms.seconds \in 0 .. 59
  <1>1. Quot(total, 3600) = total \div 3600 /\ Quot(total, 60) = total \div 60
      BY SMT DEF Quot
  <1>2. total = 3600 * (total \div 3600) + (total % 3600)
      BY SMT
  <1>3. total = 60 * (total \div 60) + (total % 60)
      BY SMT
  <1>4. Rem(total, 3600) = total % 3600
      BY SMT, <1>1, <1>2 DEF Rem
  <1>5. Rem(total, 60) = total % 60
      BY SMT, <1>1, <1>3 DEF Rem
  <1>6. Quot(total % 3600, 60) = (total % 3600) \div 60
      BY SMT DEF Quot
  <1>7. /\ AsInt(total \div 3600) = total \div 3600
        /\ AsInt((total % 3600) \div 60) = (total % 3600) \div 60
        /\ AsInt(total % 60) = total % 60
      BY SMT DEF AsInt
  <1>8. /\ total = 3600 * (total \div 3600) + 60 * ((total % 3600) \div 60) + (total % 60)
        /\ (total % 3600) \div 60 \in 0 .. 59 /\ total % 60 \in 0 .. 59
      BY SMT
  <1>9. FormatDurationHMS(total) =
          [hours |-> total \div 3600, minutes |-> (total % 3600) \div 60,
           seconds |-> total % 60]
      BY SMT, <1>1, <1>4, <1>5, <1>6, <1>7 DEF FormatDurationHMS
  <1> QED
      BY SMT, <1>8, <1>9

(* Rounding to hours first changes no difference in days, and the order    *)
(* of the two times changes nothing but its sign.                          *)
THEOREM DaysAreWholeDays ==
    ASSUME NEW a \in Int, NEW b \in Int
    PROVE  /\ DateDifferenceDays(a, b) = Quot(a - b, 24 * TicksPerHour)
           /\ DateDifferenceDays(b, a) = -DateDifferenceDays(a, b)
  BY SMT DEF DateDifferenceDays, DateDifferenceHours, Quot, TicksPerHour

(* The hour, minute and second of a broken down time are its second of the *)
(* day.                                                                    *)
LEMMA SecondsRecomposed ==
    ASSUME NEW second \in Int, NEW yearStart \in Int
    PROVE  SecondOfDay(BrokenDown(second, yearStart)) = second % 86400
  BY SMT DEF SecondOfDay, BrokenDown

(* GetLocalUTCOffsetSeconds is right while the local year and that of UTC  *)
(* are the same, also when the days are not.                               *)
THEOREM OffsetWithinAYear ==
    ASSUME NEW now0 \in Int, NEW offset \in Int, NEW start \in Int,
           -86400 < offset, offset < 86400
    PROVE  GetLocalUTCOffsetSeconds(BrokenDown(now0 + offset, start),
                                    BrokenDown(now0, start)) = offset
  <1>1. /\ SecondOfDay(BrokenDown(now0 + offset, start)) = (now0 + offset) % 86400
        /\ SecondOfDay(BrokenDown(now0, start)) = now0 % 86400
      BY SMT, SecondsRecomposed
  <1>2. /\ BrokenDown(now0 + offset, start).tm_yday = (now0 + offset) \div 86400 - start
        /\ BrokenDown(now0, start).tm_yday = now0 \div 86400 - start
      BY SMT DEF BrokenDown
  <1> QED
      BY SMT, <1>1, <1>2 DEF GetLocalUTCOffsetSeconds

(* Between the two new years it is two days off: a zone ahead of UTC whose *)
(* year has begun is on day 0 and UTC on day 364 or 365, which the code    *)
(* takes for the day after.                                                *)
THEOREM OffsetAtNewYear ==
    ASSUME NEW now0 \in Int, NEW offset \in Int, NEW start \in Int, NEW before \in Int,
           0 < offset, offset < 86400,
           start = (now0 + offset) \div 86400, now0 \div 86400 < start,
           before < now0 \div 86400
    PROVE  GetLocalUTCOffsetSeconds(BrokenDown(now0 + offset, start),
                                    BrokenDown(now0, before)) = offset - 2 * 86400
  <1>1. /\ SecondOfDay(BrokenDown(now0 + offset, start)) = (now0 + offset) % 86400
        /\ SecondOfDay(BrokenDown(now0, before)) = now0 % 86400
      BY SMT, SecondsRecomposed
  <1>2. /\ BrokenDown(now0 + offset, start).tm_yday = 0
        /\ BrokenDown(now0, before).tm_yday = now0 \div 86400 - before
      BY SMT DEF BrokenDown
  <1> QED
      BY SMT, <1>1, <1>2 DEF GetLocalUTCOffsetSeconds
=============================================================================
