---------------------------- MODULE OverlayProofs ----------------------------
(***************************************************************************)
(* Theorems about Overlay, for every interval and every length of clock.   *)
(***************************************************************************)
EXTENDS Overlay, TLAPS

MainHolds == {"put up", "place", "blit", "write"}
OverHolds == {"again", "has now", "has beat", "draw", "drawn", "unlock"}

\* The lock is held exactly in the parts of the code between taking it and
\* giving it back.
LockHeld ==
  /\ main.pc \in MainHolds <=> lock = "main"
  /\ over.pc \in OverHolds <=> lock = "overlay"

\* The main thread waits for the lock for a use it has.
MainUse == main.pc = "lock" => main.use # "none"

\* The GPU reads the texture only where somebody has said so, or is about to
\* before giving the lock back; not once the main thread has waited for it.
ReadingIsKnown ==
  /\ gpu => gpuReading \/ over.pc = "drawn"
  /\ main.pc = "write" => ~gpu

ScreenInv == TypeOK /\ MainUse /\ LockHeld /\ ReadingIsKnown

\* The clock's next reading is one of its readings.
LEMMA LaterType == ASSUME NEW t \in 0..Wrap-1 PROVE Later(t) \in 0..Wrap-1
  BY OverlayAssumption DEF Later

\* What TypeOK says of the clock: no reading leaves 32 bits, and the bound on
\* how long the main thread is away is kept.
ClockOK == {now, beat} \subseteq 0..Wrap-1 /\ since \in Nat /\ away \in 0..MaxAway
FlagsOK == {script, dirty, dialog, hold, pad, gpu, gpuReading, shown, cancel, swallow,
            circle} \subseteq BOOLEAN
PressOK == press \in 0..MaxPress /\ request \in 0..MaxPress /\ stopped \subseteq 0..MaxPress

MainRec == [pc : {"run", "take", "present", "lock", "put up", "place", "blit", "write",
                  "resumed", "cover", "beat", "peek", "poll", "dequeue", "wait"},
            loop : BOOLEAN, use : {"none", "put up", "place", "blit"}]
OverRec == [pc : {"delay", "look", "peek", "cancel", "swallow", "try", "again",
                  "has now", "has beat", "draw", "drawn", "unlock"},
            read : 0..Wrap-1, circleWas : BOOLEAN, press : 0..MaxPress]

\* What the assumption says of the numbers that are not intervals.
LEMMA Bounds ==
  /\ Wrap \in Nat /\ MaxPress \in Nat /\ MaxAway \in Nat
  /\ 0 \in 0..Wrap-1 /\ 0 \in 0..MaxPress
  BY OverlayAssumption

\* One more press is one of those allowed.
LEMMA OneMore ==
  ASSUME NEW p \in 0..MaxPress, NEW q, q = p \/ (p < MaxPress /\ q = p + 1)
  PROVE  q \in 0..MaxPress
  BY Bounds

\* TypeOK by its parts.
LEMMA TypeParts ==
  TypeOK <=> /\ ClockOK /\ main \in MainRec /\ FlagsOK
             /\ lock \in {"free", "main", "overlay"} /\ over \in OverRec /\ PressOK
  BY DEF TypeOK, ClockOK, FlagsOK, PressOK, MainRec, OverRec

\* The clock keeps its bounds: it is read modulo Wrap, and never counted past the
\* longest the main thread is away.
LEMMA ClockStep ==
  ASSUME ClockOK, [Next]_vars
  PROVE  ClockOK'
<1> USE OverlayAssumption, LaterType DEF ClockOK, Beat, Goto, At, Free,
        OverAt, OverGoto, OverOnly, Then, vars, clockVars, screen, pads,
        modes, stops, player
<1>1. CASE Update
  BY <1>1 DEF Update
<1>2. CASE PresentOrNot
  BY <1>2 DEF PresentOrNot
<1>3. CASE PutUp
  BY <1>3 DEF PutUp
<1>4. CASE InLoop
  BY <1>4 DEF InLoop, Resumed, Cover, BeatInLoop, PollDialog, Peek, Poll,
     Wait
<1>5. CASE Tick
  BY <1>5 DEF Tick
<1>6. CASE StartScript \/ EndScript \/ Interrupt \/ TakeCancel \/ Place \/
           SetMode \/ Lock \/ Placed \/ ReleaseTexture \/ Write \/ GpuDone \/
           Input \/ Return \/ OverlayNext \/ Circle \/ UNCHANGED vars
  <2>1. UNCHANGED clockVars
    BY <1>6 DEF StartScript, EndScript, Interrupt, TakeCancel, Place, SetMode,
       Lock, Placed, ReleaseTexture, Write, GpuDone, Input, Return,
       OverlayNext, WakeUp, Look, OverPeek, Cancel, Swallow, TryLock,
       LookAgain, Draw, Drawn, Unlock, Circle
  <2> QED BY <2>1
<1> QED BY <1>1, <1>2, <1>3, <1>4, <1>5, <1>6 DEF Next

\* The main thread is at a place of its code, and waits for the lock with a use.
LEMMA MainStep ==
  ASSUME main \in MainRec, MainUse, [Next]_vars
  PROVE  main' \in MainRec /\ MainUse'
<1> USE DEF MainRec, MainUse, AfterPresent, Goto, At, Free, OverAt, OverGoto,
        OverOnly, Then, vars, clockVars, screen, pads, modes, stops, player
<1>1. CASE Interrupt
  BY <1>1 DEF Interrupt
<1>2. CASE TakeCancel
  BY <1>2 DEF TakeCancel
<1>3. CASE Update
  BY <1>3 DEF Update
<1>4. CASE Place
  BY <1>4 DEF Place
<1>5. CASE PresentOrNot
  BY <1>5 DEF PresentOrNot
<1>6. CASE Lock
  BY <1>6 DEF Lock
<1>7. CASE PutUp
  BY <1>7 DEF PutUp
<1>8. CASE Placed
  BY <1>8 DEF Placed
<1>9. CASE ReleaseTexture
  BY <1>9 DEF ReleaseTexture
<1>10. CASE Write
  BY <1>10 DEF Write
<1>11. CASE Input
  BY <1>11 DEF Input
<1>12. CASE InLoop
  BY <1>12 DEF InLoop, Resumed, Cover, BeatInLoop, PollDialog, Peek, Poll,
     Wait
<1>13. CASE Return
  BY <1>13 DEF Return
<1>14. CASE StartScript \/ EndScript \/ SetMode \/ GpuDone \/ OverlayNext \/
           Circle \/ Tick \/ UNCHANGED vars
  <2>1. UNCHANGED main
    BY <1>14 DEF StartScript, EndScript, SetMode, GpuDone, OverlayNext,
       WakeUp, Look, OverPeek, Cancel, Swallow, TryLock, LookAgain, Draw,
       Drawn, Unlock, Circle, Tick
  <2> QED BY <2>1
<1> QED BY <1>1, <1>2, <1>3, <1>4, <1>5, <1>6, <1>7, <1>8, <1>9, <1>10, <1>11,
        <1>12, <1>13, <1>14 DEF Next

\* The overlay is at a place of its code, with what it has read.
LEMMA OverStep ==
  ASSUME ClockOK, PressOK, FlagsOK, over \in OverRec, [Next]_vars
  PROVE  over' \in OverRec
<1> USE Bounds DEF ClockOK, PressOK, FlagsOK, OverRec, AsIfHeld, Goto, At,
        Free, OverAt, OverGoto, OverOnly, Then, vars, clockVars, screen, pads,
        modes, stops, player
<1>1. CASE OverlayNext
  <2>1. CASE WakeUp
    BY <2>1 DEF WakeUp
  <2>2. CASE Look
    BY <2>2 DEF Look
  <2>3. CASE OverPeek
    BY <2>3 DEF OverPeek
  <2>4. CASE Cancel
    BY <2>4 DEF Cancel
  <2>5. CASE Swallow
    BY <2>5 DEF Swallow
  <2>6. CASE TryLock
    BY <2>6 DEF TryLock
  <2>7. CASE LookAgain
    BY <2>7 DEF LookAgain
  <2>8. CASE Draw
    BY <2>8 DEF Draw
  <2>9. CASE Drawn
    BY <2>9 DEF Drawn
  <2>10. CASE Unlock
    BY <2>10 DEF Unlock
  <2> QED BY <1>1, <2>1, <2>2, <2>3, <2>4, <2>5, <2>6, <2>7, <2>8, <2>9, <2>10 DEF OverlayNext
<1>2. CASE StartScript \/ EndScript \/ Interrupt \/ TakeCancel \/ Update \/
           Place \/ SetMode \/ PresentOrNot \/ Lock \/ PutUp \/ Placed \/
           ReleaseTexture \/ Write \/ GpuDone \/ Input \/ InLoop \/ Return \/
           Circle \/ Tick \/ UNCHANGED vars
  <2>1. UNCHANGED over
    BY <1>2 DEF StartScript, EndScript, Interrupt, TakeCancel, Update, Place,
       SetMode, PresentOrNot, Lock, PutUp, Placed, ReleaseTexture, Write,
       GpuDone, Input, InLoop, Resumed, Cover, BeatInLoop, PollDialog, Peek,
       Poll, Wait, Return, Circle, Tick
  <2> QED BY <2>1
<1> QED BY <1>1, <1>2 DEF Next

\* Presses are those there were.
LEMMA PressStep ==
  ASSUME PressOK, over \in OverRec, [Next]_vars
  PROVE  PressOK'
<1> USE Bounds DEF PressOK, OverRec, Goto, At, Free, OverAt, OverGoto,
        OverOnly, Then, vars, clockVars, screen, pads, modes, stops, player
<1>1. CASE TakeCancel
  BY <1>1 DEF TakeCancel
<1>2. CASE InLoop
  <2>1. CASE Resumed
    BY <2>1 DEF Resumed
  <2>2. CASE Cover
    BY <2>2 DEF Cover
  <2>3. CASE BeatInLoop
    BY <2>3 DEF BeatInLoop
  <2>4. CASE PollDialog
    BY <2>4 DEF PollDialog
  <2>5. CASE Peek
    BY <2>5 DEF Peek
  <2>6. CASE Poll
    BY <2>6 DEF Poll
  <2>7. CASE Wait
    BY <2>7 DEF Wait
  <2> QED BY <1>2, <2>1, <2>2, <2>3, <2>4, <2>5, <2>6, <2>7 DEF InLoop
<1>3. CASE OverlayNext
  <2>1. CASE WakeUp
    BY <2>1 DEF WakeUp
  <2>2. CASE Look
    BY <2>2 DEF Look
  <2>3. CASE OverPeek
    BY <2>3 DEF OverPeek
  <2>4. CASE Cancel
    BY <2>4 DEF Cancel
  <2>5. CASE Swallow
    BY <2>5 DEF Swallow
  <2>6. CASE TryLock
    BY <2>6 DEF TryLock
  <2>7. CASE LookAgain
    BY <2>7 DEF LookAgain
  <2>8. CASE Draw
    BY <2>8 DEF Draw
  <2>9. CASE Drawn
    BY <2>9 DEF Drawn
  <2>10. CASE Unlock
    BY <2>10 DEF Unlock
  <2> QED BY <1>3, <2>1, <2>2, <2>3, <2>4, <2>5, <2>6, <2>7, <2>8, <2>9, <2>10 DEF OverlayNext
<1>4. CASE Circle
  <2>1. press' \in 0..MaxPress
    <3>1. press' = press \/ (press < MaxPress /\ press' = press + 1)
      BY <1>4, Zenon DEF Circle
    <3>2. press \in 0..MaxPress
      OBVIOUS
    <3> QED BY <3>1, <3>2, OneMore
  <2>2. UNCHANGED <<request, stopped>>
    BY <1>4 DEF Circle
  <2> QED BY <2>1, <2>2
<1>5. CASE StartScript \/ EndScript \/ Interrupt \/ Update \/ Place \/ SetMode
           \/ PresentOrNot \/ Lock \/ PutUp \/ Placed \/ ReleaseTexture \/
           Write \/ GpuDone \/ Input \/ Return \/ Tick \/ UNCHANGED vars
  <2>1. UNCHANGED <<press, request, stopped>>
    BY <1>5 DEF StartScript, EndScript, Interrupt, Update, Place, SetMode,
       PresentOrNot, Lock, PutUp, Placed, ReleaseTexture, Write, GpuDone,
       Input, Return, Tick
  <2> QED BY <2>1
<1> QED BY <1>1, <1>2, <1>3, <1>4, <1>5 DEF Next

\* Flags are Boolean.
LEMMA FlagStep ==
  ASSUME FlagsOK, [Next]_vars
  PROVE  FlagsOK'
<1> USE DEF FlagsOK, StillSwallowed, DrawnFlags, Goto, At, Free, OverAt,
        OverGoto, OverOnly, Then, vars, clockVars, screen, pads, modes, stops,
        player
<1>1. CASE StartScript
  BY <1>1 DEF StartScript
<1>2. CASE EndScript
  BY <1>2 DEF EndScript
<1>3. CASE Interrupt
  BY <1>3 DEF Interrupt
<1>4. CASE TakeCancel
  BY <1>4 DEF TakeCancel
<1>5. CASE Update
  BY <1>5 DEF Update
<1>6. CASE Place
  BY <1>6 DEF Place
<1>7. CASE SetMode
  BY <1>7 DEF SetMode
<1>8. CASE PresentOrNot
  BY <1>8 DEF PresentOrNot
<1>9. CASE Lock
  BY <1>9 DEF Lock
<1>10. CASE PutUp
  BY <1>10 DEF PutUp
<1>11. CASE Placed
  BY <1>11 DEF Placed
<1>12. CASE ReleaseTexture
  BY <1>12 DEF ReleaseTexture
<1>13. CASE Write
  BY <1>13 DEF Write
<1>14. CASE GpuDone
  BY <1>14 DEF GpuDone
<1>15. CASE InLoop
  BY <1>15 DEF InLoop, Resumed, Cover, BeatInLoop, PollDialog, Peek, Poll,
     Wait
<1>16. CASE OverlayNext
  BY <1>16 DEF OverlayNext, WakeUp, Look, OverPeek, Cancel, Swallow, TryLock,
     LookAgain, Draw, Drawn, Unlock
<1>17. CASE Circle
  BY <1>17 DEF Circle
<1>18. CASE Return \/ Tick \/ Input \/ UNCHANGED vars
  <2>1. UNCHANGED <<screen, pads, modes, cancel, script, circle>>
    BY <1>18 DEF Return, Tick, Input
  <2> QED BY <2>1
<1> QED BY <1>1, <1>2, <1>3, <1>4, <1>5, <1>6, <1>7, <1>8, <1>9, <1>10, <1>11,
        <1>12, <1>13, <1>14, <1>15, <1>16, <1>17, <1>18 DEF Next

\* The lock is nobody's or one of the two threads'.
LEMMA LockTypeStep ==
  ASSUME lock \in {"free", "main", "overlay"}, [Next]_vars
  PROVE  lock' \in {"free", "main", "overlay"}
<1> USE DEF At, Goto, At, Free, OverAt, OverGoto, OverOnly, Then, vars,
        clockVars, screen, pads, modes, stops, player
<1>1. CASE Lock
  BY <1>1 DEF Lock
<1>2. CASE PutUp
  BY <1>2 DEF PutUp
<1>3. CASE Placed
  BY <1>3 DEF Placed
<1>4. CASE Write
  BY <1>4 DEF Write
<1>5. CASE OverlayNext
  BY <1>5 DEF OverlayNext, WakeUp, Look, OverPeek, Cancel, Swallow, TryLock,
     LookAgain, Draw, Drawn, Unlock
<1>6. CASE StartScript \/ EndScript \/ Interrupt \/ TakeCancel \/ Update \/
           Place \/ SetMode \/ PresentOrNot \/ ReleaseTexture \/ GpuDone \/
           Input \/ InLoop \/ Return \/ Circle \/ Tick \/ UNCHANGED vars
  <2>1. UNCHANGED lock
    BY <1>6 DEF StartScript, EndScript, Interrupt, TakeCancel, Update, Place,
       SetMode, PresentOrNot, ReleaseTexture, GpuDone, Input, InLoop, Resumed,
       Cover, BeatInLoop, PollDialog, Peek, Poll, Wait, Return, Circle, Tick
  <2> QED BY <2>1
<1> QED BY <1>1, <1>2, <1>3, <1>4, <1>5, <1>6 DEF Next

\* The lock is taken and given back where it is held.
LEMMA LockStep ==
  ASSUME main \in MainRec, over \in OverRec, MainUse, LockHeld, [Next]_vars
  PROVE  LockHeld'
<1> USE DEF MainRec, OverRec, MainUse, LockHeld, MainHolds, OverHolds,
        AfterPresent, AsIfHeld, Goto, At, Free, OverAt, OverGoto, OverOnly,
        Then, vars, clockVars, screen, pads, modes, stops, player
<1>1. CASE Interrupt
  BY <1>1 DEF Interrupt
<1>2. CASE TakeCancel
  BY <1>2 DEF TakeCancel
<1>3. CASE Update
  BY <1>3 DEF Update
<1>4. CASE Place
  BY <1>4 DEF Place
<1>5. CASE PresentOrNot
  BY <1>5 DEF PresentOrNot
<1>6. CASE Lock
  BY <1>6 DEF Lock
<1>7. CASE PutUp
  BY <1>7 DEF PutUp
<1>8. CASE Placed
  BY <1>8 DEF Placed
<1>9. CASE ReleaseTexture
  BY <1>9 DEF ReleaseTexture
<1>10. CASE Write
  BY <1>10 DEF Write
<1>11. CASE Input
  BY <1>11 DEF Input
<1>12. CASE InLoop
  BY <1>12 DEF InLoop, Resumed, Cover, BeatInLoop, PollDialog, Peek, Poll,
     Wait
<1>13. CASE Return
  BY <1>13 DEF Return
<1>14. CASE OverlayNext
  <2>1. CASE WakeUp
    BY <2>1 DEF WakeUp
  <2>2. CASE Look
    BY <2>2 DEF Look
  <2>3. CASE OverPeek
    BY <2>3 DEF OverPeek
  <2>4. CASE Cancel
    BY <2>4 DEF Cancel
  <2>5. CASE Swallow
    BY <2>5 DEF Swallow
  <2>6. CASE TryLock
    BY <2>6 DEF TryLock
  <2>7. CASE LookAgain
    BY <2>7 DEF LookAgain
  <2>8. CASE Draw
    BY <2>8 DEF Draw
  <2>9. CASE Drawn
    BY <2>9 DEF Drawn
  <2>10. CASE Unlock
    BY <2>10 DEF Unlock
  <2> QED BY <1>14, <2>1, <2>2, <2>3, <2>4, <2>5, <2>6, <2>7, <2>8, <2>9, <2>10 DEF OverlayNext
<1>15. CASE StartScript \/ EndScript \/ SetMode \/ GpuDone \/ Circle \/ Tick
           \/ UNCHANGED vars
  <2>1. UNCHANGED <<main, over, lock>>
    BY <1>15 DEF StartScript, EndScript, SetMode, GpuDone, Circle, Tick
  <2> QED BY <2>1
<1> QED BY <1>1, <1>2, <1>3, <1>4, <1>5, <1>6, <1>7, <1>8, <1>9, <1>10, <1>11,
        <1>12, <1>13, <1>14, <1>15 DEF Next

\* Each use of the GPU is known, and waited for before the texture is written.
LEMMA ReadStep ==
  ASSUME main \in MainRec, over \in OverRec, MainUse, LockHeld, ReadingIsKnown, [Next]_vars
  PROVE  ReadingIsKnown'
<1> USE DEF MainRec, OverRec, MainUse, LockHeld, ReadingIsKnown, MainHolds,
        OverHolds, AfterPresent, AsIfHeld, DrawnFlags, Goto, At, Free, OverAt,
        OverGoto, OverOnly, Then, vars, clockVars, screen, pads, modes, stops,
        player
<1>1. CASE Interrupt
  BY <1>1 DEF Interrupt
<1>2. CASE TakeCancel
  BY <1>2 DEF TakeCancel
<1>3. CASE Update
  BY <1>3 DEF Update
<1>4. CASE Place
  BY <1>4 DEF Place
<1>5. CASE PresentOrNot
  BY <1>5 DEF PresentOrNot
<1>6. CASE Lock
  BY <1>6 DEF Lock
<1>7. CASE PutUp
  BY <1>7 DEF PutUp
<1>8. CASE Placed
  BY <1>8 DEF Placed
<1>9. CASE ReleaseTexture
  BY <1>9 DEF ReleaseTexture
<1>10. CASE Write
  BY <1>10 DEF Write
<1>11. CASE GpuDone
  BY <1>11 DEF GpuDone
<1>12. CASE Input
  BY <1>12 DEF Input
<1>13. CASE InLoop
  <2>1. CASE Resumed
    BY <2>1 DEF Resumed
  <2>2. CASE Cover
    BY <2>2 DEF Cover
  <2>3. CASE BeatInLoop
    BY <2>3 DEF BeatInLoop
  <2>4. CASE PollDialog
    BY <2>4 DEF PollDialog
  <2>5. CASE Peek
    BY <2>5 DEF Peek
  <2>6. CASE Poll
    BY <2>6 DEF Poll
  <2>7. CASE Wait
    BY <2>7 DEF Wait
  <2> QED BY <1>13, <2>1, <2>2, <2>3, <2>4, <2>5, <2>6, <2>7 DEF InLoop
<1>14. CASE Return
  BY <1>14 DEF Return
<1>15. CASE OverlayNext
  <2>1. CASE WakeUp
    BY <2>1 DEF WakeUp
  <2>2. CASE Look
    BY <2>2 DEF Look
  <2>3. CASE OverPeek
    BY <2>3 DEF OverPeek
  <2>4. CASE Cancel
    BY <2>4 DEF Cancel
  <2>5. CASE Swallow
    BY <2>5 DEF Swallow
  <2>6. CASE TryLock
    BY <2>6 DEF TryLock
  <2>7. CASE LookAgain
    BY <2>7 DEF LookAgain
  <2>8. CASE Draw
    BY <2>8 DEF Draw
  <2>9. CASE Drawn
    BY <2>9 DEF Drawn
  <2>10. CASE Unlock
    BY <2>10 DEF Unlock
  <2> QED BY <1>15, <2>1, <2>2, <2>3, <2>4, <2>5, <2>6, <2>7, <2>8, <2>9, <2>10 DEF OverlayNext
<1>16. CASE StartScript \/ EndScript \/ SetMode \/ Circle \/ Tick \/ UNCHANGED
           vars
  <2>1. UNCHANGED <<main, over, gpu, gpuReading>>
    BY <1>16 DEF StartScript, EndScript, SetMode, Circle, Tick
  <2> QED BY <2>1
<1> QED BY <1>1, <1>2, <1>3, <1>4, <1>5, <1>6, <1>7, <1>8, <1>9, <1>10, <1>11,
        <1>12, <1>13, <1>14, <1>15, <1>16 DEF Next

-----------------------------------------------------------------------------

\* The invariant holds at first, ...
LEMMA InvInit == ASSUME Init PROVE ScreenInv
<1> USE Bounds DEF Init
<1>1. ClockOK
  BY DEF ClockOK
<1>2. main \in MainRec /\ over \in OverRec
  BY DEF MainRec, OverRec
<1>3. FlagsOK /\ PressOK
  BY DEF FlagsOK, PressOK
<1>4. MainUse /\ LockHeld /\ ReadingIsKnown
  BY DEF MainUse, LockHeld, ReadingIsKnown, MainHolds, OverHolds
<1> QED BY <1>1, <1>2, <1>3, <1>4, TypeParts DEF ScreenInv

\* ... and is kept by every step.
LEMMA InvStep == ASSUME ScreenInv, [Next]_vars PROVE ScreenInv'
<1>1. /\ ClockOK /\ main \in MainRec /\ FlagsOK /\ over \in OverRec /\ PressOK
      /\ lock \in {"free", "main", "overlay"}
      /\ MainUse /\ LockHeld /\ ReadingIsKnown
  BY TypeParts DEF ScreenInv
<1>2. ClockOK' /\ main' \in MainRec /\ MainUse'
  BY <1>1, ClockStep, MainStep
<1>3. over' \in OverRec /\ PressOK'
  BY <1>1, OverStep, PressStep
<1>4. FlagsOK' /\ lock' \in {"free", "main", "overlay"}
  BY <1>1, FlagStep, LockTypeStep
<1>5. LockHeld' /\ ReadingIsKnown'
  BY <1>1, LockStep, ReadStep
<1>6. TypeOK'
  <2>1. (ClockOK /\ main \in MainRec /\ FlagsOK /\ lock \in {"free", "main", "overlay"}
           /\ over \in OverRec /\ PressOK)' => TypeOK'
    BY TypeParts, PTL
  <2> QED BY <1>2, <1>3, <1>4, <2>1
<1> QED BY <1>2, <1>5, <1>6 DEF ScreenInv

\* It holds in every state the two threads can reach.
THEOREM ScreenInvariant == Spec => []ScreenInv
  BY InvInit, InvStep, PTL DEF Spec

\* Every variable keeps its type, and every clock reading fits in 32 bits.
THEOREM TypeCorrect == Spec => []TypeOK
<1>1. ScreenInv => TypeOK
  BY DEF ScreenInv
<1> QED BY <1>1, ScreenInvariant, PTL

\* The texture is not written while the GPU reads it or the overlay is about to
\* have it read, however the two threads interleave.
THEOREM NeverTorn == Spec => []NoTear
<1>1. ScreenInv => NoTear
  BY DEF ScreenInv, LockHeld, ReadingIsKnown, MainHolds, OverHolds, NoTear, At
<1> QED BY <1>1, ScreenInvariant, PTL

-----------------------------------------------------------------------------
(* A press of Circle, from where the overlay sees it to the script it stops. *)

\* The presses that have been seen: the one seen last, the one a request was
\* made by, and those that have stopped a script.  One that is held and may
\* still be seen is later than all of them.
Seen == stopped \cup {request, over.press}
SeenBefore == \A p \in Seen : p <= press /\ (circle /\ ~over.circleWas => p < press)

\* A request is a press's, and a new one's; a script is stopped by a request.
RequestIsNew ==
  /\ cancel => request # 0
  /\ request # 0 => request \notin stopped
  /\ main.pc = "take" => cancel

\* And so is the one seen last, before a request is made by it.
PressIsNew ==
  over.pc = "cancel" => /\ over.circleWas /\ over.press # 0
                        /\ over.press # request /\ over.press \notin stopped

StopInv == (circle => press > 0) /\ SeenBefore /\ RequestIsNew /\ PressIsNew

\* What the steps of the main thread outside of its loop, of the screen and of
\* the clock leave alone.
LEMMA NoStop ==
  ASSUME StopInv,
         UNCHANGED <<circle, press, cancel, request, stopped, over>>,
         main'.pc = "take" => main.pc = "take" \/ cancel
  PROVE  StopInv'
BY DEF StopInv, SeenBefore, Seen, RequestIsNew, PressIsNew

LEMMA StopInit == ASSUME Init PROVE StopInv
BY Bounds DEF Init, StopInv, SeenBefore, Seen, RequestIsNew, PressIsNew

LEMMA StopStep == ASSUME TypeOK, StopInv, [Next]_vars PROVE StopInv'
<1>1. /\ main \in MainRec /\ over \in OverRec /\ FlagsOK
      /\ press \in Nat /\ request \in Nat /\ stopped \subseteq Nat /\ over.press \in Nat
  <2>1. main \in MainRec /\ over \in OverRec /\ FlagsOK /\ PressOK
    BY TypeParts
  <2>2. 0..MaxPress \subseteq Nat
    BY Bounds
  <2>3. over.press \in 0..MaxPress
    BY <2>1 DEF OverRec
  <2> QED BY <2>1, <2>2, <2>3 DEF PressOK
<1>2. CASE TakeCancel
  <2>1. /\ cancel' = FALSE /\ request' = 0 /\ stopped' = stopped \cup {request}
        /\ main'.pc = "run" /\ UNCHANGED <<circle, press, over>>
    BY <1>1, <1>2 DEF TakeCancel, Goto, player, MainRec
  <2> QED BY <1>1, <2>1 DEF StopInv, SeenBefore, Seen, RequestIsNew, PressIsNew
<1>3. CASE Resumed
  <2>1. /\ cancel' = FALSE /\ request' = 0 /\ UNCHANGED <<circle, press, over, stopped>>
        /\ main'.pc = "cover"
    BY <1>1, <1>3 DEF Resumed, Goto, player, MainRec
  <2> QED BY <1>1, <2>1 DEF StopInv, SeenBefore, Seen, RequestIsNew, PressIsNew
<1>4. CASE OverPeek
  <2>1. UNCHANGED <<main, circle, press, cancel, request, stopped>> /\ over.pc = "peek"
    BY <1>4 DEF OverPeek, OverAt, OverOnly, player, stops
  <2>2. CASE circle /\ ~over.circleWas
    <3>1. over'.pc = "cancel" /\ over'.circleWas /\ over'.press = press
      BY <1>1, <1>4, <2>2 DEF OverPeek, Held, OverRec
    <3> QED BY <1>1, <2>1, <2>2, <3>1 DEF StopInv, SeenBefore, Seen, RequestIsNew, PressIsNew
  <2>3. CASE ~(circle /\ ~over.circleWas)
    <3>1. over'.pc = "try" /\ over'.circleWas = circle /\ over'.press = over.press
      BY <1>1, <1>4, <2>3 DEF OverPeek, Held, OverRec
    <3>2. ~(circle /\ ~over'.circleWas)
      BY <3>1
    <3> QED BY <1>1, <2>1, <3>1, <3>2 DEF StopInv, SeenBefore, Seen, RequestIsNew, PressIsNew
  <2> QED BY <2>2, <2>3
<1>5. CASE Cancel
  <2>1. /\ UNCHANGED <<main, circle, press, stopped>> /\ over.pc = "cancel"
        /\ cancel' = TRUE /\ request' = over.press
        /\ over'.pc = "swallow" /\ over'.press = 0 /\ over'.circleWas = over.circleWas
    BY <1>1, <1>5 DEF Cancel, OverAt, OverOnly, player, OverRec
  <2> QED BY <1>1, <2>1 DEF StopInv, SeenBefore, Seen, RequestIsNew, PressIsNew
<1>6. CASE Look
  <2>1. /\ UNCHANGED <<main, circle, press, cancel, request, stopped>>
        /\ over'.pc # "cancel" /\ over'.press = over.press
        /\ over'.circleWas = TRUE \/ over'.circleWas = over.circleWas
    BY <1>1, <1>6 DEF Look, AsIfHeld, OverOnly, player, stops, OverRec
  <2> QED BY <1>1, <2>1 DEF StopInv, SeenBefore, Seen, RequestIsNew, PressIsNew
<1>7. CASE WakeUp \/ Swallow \/ TryLock \/ LookAgain \/ Draw \/ Drawn \/ Unlock
  <2>1. /\ UNCHANGED <<main, circle, press, cancel, request, stopped>>
        /\ over'.pc # "cancel" /\ over'.press = over.press
        /\ over'.circleWas = over.circleWas
    BY <1>1, <1>7 DEF WakeUp, Swallow, TryLock, LookAgain, Draw, Drawn, Unlock, Then,
       OverGoto, OverOnly, player, stops, OverRec
  <2> QED BY <1>1, <2>1 DEF StopInv, SeenBefore, Seen, RequestIsNew, PressIsNew
<1>8. CASE Circle
  <2>1. UNCHANGED <<main, cancel, request, stopped, over>>
    BY <1>8 DEF Circle, stops
  <2>2. CASE ~circle /\ circle' = TRUE /\ press' = press + 1
    BY <1>1, <2>1, <2>2 DEF StopInv, SeenBefore, Seen, RequestIsNew, PressIsNew
  <2>3. CASE circle' = FALSE /\ press' = press
    BY <1>1, <2>1, <2>3 DEF StopInv, SeenBefore, Seen, RequestIsNew, PressIsNew
  <2> QED BY <1>8, <2>2, <2>3 DEF Circle
<1>9. CASE Interrupt
  BY <1>9, <1>1, NoStop DEF Interrupt, player, stops
<1>10. CASE Cover \/ BeatInLoop \/ PollDialog \/ Peek \/ Poll \/ Wait
  BY <1>10, <1>1, NoStop DEF Cover, BeatInLoop, PollDialog, Peek, Poll, Wait, Goto, player,
     stops, MainRec
<1>11. CASE StartScript \/ EndScript \/ Update \/ Place \/ SetMode
  BY <1>11, <1>1, NoStop DEF StartScript, EndScript, Update, Place, SetMode, Free, Beat,
     player, stops, MainRec
<1>12. CASE PresentOrNot \/ Lock \/ PutUp \/ Placed \/ ReleaseTexture \/ Write \/ GpuDone
  <2>1. UNCHANGED <<circle, press, cancel, request, stopped, over>>
    BY <1>12 DEF PresentOrNot, Lock, PutUp, Placed, ReleaseTexture, Write, GpuDone, player, stops
  <2>2. main'.pc = "take" => main.pc = "take"
    BY <1>12, <1>1 DEF PresentOrNot, Lock, PutUp, Placed, ReleaseTexture, Write, GpuDone,
       AfterPresent, Goto, MainRec
  <2> QED BY <2>1, <2>2, NoStop
<1>13. CASE Input \/ Return \/ Tick
  BY <1>13, <1>1, NoStop DEF Input, Return, Tick, player, stops, MainRec
<1>14. CASE UNCHANGED vars
  BY <1>14, <1>1, NoStop DEF vars, player, stops
<1> QED BY <1>2, <1>3, <1>4, <1>5, <1>6, <1>7, <1>8, <1>9, <1>10, <1>11, <1>12, <1>13,
        <1>14 DEF Next, InLoop, OverlayNext

\* However long Circle is held and however the two threads interleave, a press
\* stops one script at most.
THEOREM OnePressStopsOne == Spec => OnePressOneStop
<1>1. TypeOK /\ StopInv /\ [Next]_vars => [TakeCancel => request \notin stopped]_vars
  BY DEF StopInv, RequestIsNew, TakeCancel, At
<1> QED BY <1>1, StopInit, StopStep, TypeCorrect, PTL DEF Spec, OnePressOneStop
=============================================================================
