------------------------------ MODULE Overlay -------------------------------
(***************************************************************************)
(* The busy overlay of surface/vita.c.  The main thread runs the browser   *)
(* and its scripts between two calls of vita_input; while it is away too   *)
(* long a second thread puts the last picture up with a panel over it, and *)
(* reads a press of Circle as a request to stop the script.  They share    *)
(* the GPU, under a lock the overlay only tries for, and flags they write  *)
(* with none.  Each read or write of those is a step of its own.           *)
(***************************************************************************)
EXTENDS Integers

CONSTANTS
  After,            \* BUSY_AFTER_US
  FrameInterval,    \* FRAME_INTERVAL_US
  PresentInterval,  \* PRESENT_INTERVAL_US
  Wrap,             \* beat_ms counts modulo Wrap (2^32)
  Modes,            \* which of "dialog" and "hold" the browser turns on
  MaxAway,          \* bound: how long the main thread is away
  MaxPress          \* bound: how often Circle is pressed

ASSUME OverlayAssumption ==
  /\ {After, FrameInterval, PresentInterval, Wrap, MaxPress} \subseteq Nat
  /\ MaxAway \in After..Wrap-1

VARIABLES
  now, since,          \* the clock; the time since the last present
  away,                \* history: the time since the last beat
  beat,                \* beat_ms
  main,                \* where the main thread is, and inside vita_input or not
  script,              \* whether a script runs there
  dirty, dialog, hold,
  pad,                 \* Circle as the input loop read it
  lock, gpu,           \* gpu_lock's holder; whether the GPU reads the texture
  gpuReading, shown,   \* gpu_reading, busy_shown
  cancel, swallow,     \* busy_cancel, swallow_circle
  over,                \* the overlay's thread and what it has read
  circle, press,       \* Circle is held; its presses so far
  request,             \* history: the press the request to stop was made by
  stopped              \* history: the presses that stopped a script

clockVars == <<now, since, away, beat>>
screen == <<dirty, lock, gpu, gpuReading, shown>>
pads == <<pad, swallow>>
modes == <<dialog, hold>>
stops == <<cancel, script, request, stopped>>
player == <<circle, press>>
vars == <<clockVars, main, screen, pads, modes, stops, over, player>>

Init ==
  /\ now = 0 /\ since = 0 /\ away = 0 /\ beat = 0
  /\ main = [pc |-> "run", loop |-> FALSE, use |-> "none"] /\ script = FALSE
  /\ dirty = FALSE /\ dialog = FALSE /\ hold = FALSE
  /\ pad = FALSE
  /\ lock = "free" /\ gpu = FALSE /\ gpuReading = FALSE /\ shown = FALSE
  /\ cancel = FALSE /\ swallow = FALSE
  /\ over = [pc |-> "delay", read |-> 0, circleWas |-> TRUE, press |-> 0]
  /\ circle = FALSE /\ press = 0
  /\ request = 0 /\ stopped = {}

\* now_ms32() - beat_ms
Gap(t, b) == (t - b) % Wrap

Beat == beat' = now /\ away' = 0 /\ UNCHANGED <<now, since>>

\* The main thread goes on at pc, for use of the screen.
Goto(pc) == main' = [main EXCEPT !.pc = pc]
At(pc) == main.pc = pc

-----------------------------------------------------------------------------
(* Between two calls of vita_input.                                        *)

StartScript ==
  /\ At("run") /\ ~main.loop /\ ~script /\ script' = TRUE
  /\ UNCHANGED <<clockVars, main, screen, pads, modes, cancel, request, stopped, over, player>>

EndScript ==
  /\ At("run") /\ script /\ script' = FALSE
  /\ UNCHANGED <<clockVars, main, screen, pads, modes, cancel, request, stopped, over, player>>

\* The script's interrupt finds a request, then takes it: the script is over.
Interrupt ==
  /\ At("run") /\ script /\ cancel
  /\ Goto("take")
  /\ UNCHANGED <<clockVars, screen, pads, modes, stops, over, player>>

TakeCancel ==
  /\ At("take")
  /\ cancel' = FALSE /\ script' = FALSE
  /\ stopped' = stopped \cup {request} /\ request' = 0
  /\ Goto("run")
  /\ UNCHANGED <<clockVars, screen, pads, modes, over, player>>

Free == At("run") /\ ~script /\ ~main.loop

\* vita_update; a scroll's own copy ends here, anything else is copied.
Update ==
  /\ Free /\ Beat
  /\ \/ main' = [main EXCEPT !.pc = "lock", !.use = "blit"]
     \/ UNCHANGED main
  /\ UNCHANGED <<screen, pads, modes, stops, over, player>>

\* The focus, the pointer, or a scroll changes how the page is drawn.
Place ==
  /\ Free
  /\ main' = [main EXCEPT !.pc = "lock", !.use = "place"]
  /\ UNCHANGED <<clockVars, screen, pads, modes, stops, over, player>>

\* vita_surface_set_dialog, and vita_surface_hold_progress.
SetMode ==
  /\ Free
  /\ \/ "dialog" \in Modes /\ dialog' = ~dialog /\ dirty' = TRUE /\ UNCHANGED hold
     \/ "hold" \in Modes /\ hold' = ~hold /\ UNCHANGED <<dialog, dirty>>
  /\ UNCHANGED <<clockVars, main, lock, gpu, gpuReading, shown, pads, stops, over, player>>

-----------------------------------------------------------------------------
(* The screen.                                                             *)

\* present: whether there is anything to put up.
WantsPresent == dirty \/ dialog \/ since >= FrameInterval
AfterPresent == IF main.loop THEN "dequeue" ELSE "run"

PresentOrNot ==
  /\ At("present") /\ Beat
  /\ main' = IF WantsPresent THEN [main EXCEPT !.pc = "lock", !.use = "put up"]
                             ELSE [main EXCEPT !.pc = AfterPresent]
  /\ UNCHANGED <<screen, pads, modes, stops, over, player>>

Lock ==
  /\ At("lock") /\ lock = "free"
  /\ lock' = "main"
  /\ Goto(main.use)
  /\ UNCHANGED <<clockVars, dirty, gpu, gpuReading, shown, pads, modes, stops, over, player>>

PutUp ==
  /\ At("put up")
  /\ gpu' = TRUE /\ gpuReading' = TRUE /\ dirty' = FALSE /\ shown' = FALSE
  /\ since' = 0 /\ UNCHANGED <<now, away, beat>>
  /\ lock' = "free"
  /\ main' = [main EXCEPT !.pc = AfterPresent, !.use = "none"]
  /\ UNCHANGED <<pads, modes, stops, over, player>>

Placed ==
  /\ At("place")
  /\ dirty' = TRUE /\ lock' = "free"
  /\ main' = [main EXCEPT !.pc = "run", !.use = "none"]
  /\ UNCHANGED <<clockVars, gpu, gpuReading, shown, pads, modes, stops, over, player>>

\* blit_box waits for the GPU when it is known to read the texture.
ReleaseTexture ==
  /\ At("blit")
  /\ gpu' = (gpu /\ ~gpuReading) /\ gpuReading' = FALSE
  /\ Goto("write")
  /\ UNCHANGED <<clockVars, dirty, lock, shown, pads, modes, stops, over, player>>

\* The texture is written, and a long redraw puts up its progress.
Write ==
  /\ At("write")
  /\ dirty' = TRUE /\ lock' = "free"
  /\ main' = [main EXCEPT !.use = "none",
       !.pc = IF ~dialog /\ ~hold /\ since > PresentInterval THEN "present" ELSE "run"]
  /\ UNCHANGED <<clockVars, gpu, gpuReading, shown, pads, modes, stops, over, player>>

\* The GPU has read the texture.
GpuDone ==
  /\ gpu /\ gpu' = FALSE
  /\ UNCHANGED <<clockVars, main, dirty, lock, gpuReading, shown, pads, modes, stops, over, player>>

-----------------------------------------------------------------------------
(* vita_input.                                                             *)

Input ==
  /\ Free
  /\ main' = [main EXCEPT !.pc = "resumed", !.loop = TRUE]
  /\ UNCHANGED <<clockVars, screen, pads, modes, stops, over, player>>

\* busy_resumed: the request is forgotten, the panel is to be covered.
Resumed ==
  /\ At("resumed")
  /\ cancel' = FALSE
  /\ request' = 0
  /\ Goto("cover")
  /\ UNCHANGED <<clockVars, screen, pads, modes, script, stopped, over, player>>

Cover ==
  /\ At("cover")
  /\ dirty' = (dirty \/ shown)
  /\ Goto("beat")
  /\ UNCHANGED <<clockVars, lock, gpu, gpuReading, shown, pads, modes, stops, over, player>>

BeatInLoop ==
  /\ At("beat") /\ Beat
  /\ Goto("peek")
  /\ UNCHANGED <<screen, pads, modes, stops, over, player>>

PollDialog ==
  /\ At("peek") /\ dialog
  /\ Goto("present")
  /\ UNCHANGED <<clockVars, screen, pads, modes, stops, over, player>>

Peek ==
  /\ At("peek") /\ ~dialog
  /\ pad' = circle
  /\ Goto("poll")
  /\ UNCHANGED <<clockVars, screen, swallow, modes, stops, over, player>>

\* Mutant: what is the overlay's stays the overlay's.
SwallowedForGood == swallow

StillSwallowed == swallow /\ pad

\* poll_buttons: a Circle that is the overlay's is not seen until released.
\* The events that are queued are left out, with the buttons they come from.
Poll ==
  /\ At("poll")
  /\ swallow' = StillSwallowed /\ pad' = FALSE
  /\ Goto("present")
  /\ UNCHANGED <<clockVars, screen, modes, stops, over, player>>

\* There is an event, or no time to wait; or the loop waits and polls again.
Return ==
  /\ \/ At("dequeue") \/ At("wait")
  /\ main' = [main EXCEPT !.pc = "run", !.loop = FALSE]
  /\ UNCHANGED <<clockVars, screen, pads, modes, stops, over, player>>

Wait ==
  /\ \/ At("dequeue") /\ Goto("wait")
     \/ At("wait") /\ Goto("beat")
  /\ UNCHANGED <<clockVars, screen, pads, modes, stops, over, player>>

InLoop == Resumed \/ Cover \/ BeatInLoop \/ PollDialog \/ Peek \/ Poll \/ Wait

-----------------------------------------------------------------------------
(* The overlay's thread.                                                   *)

OverAt(pc) == over.pc = pc
OverGoto(pc) == over' = [over EXCEPT !.pc = pc]
OverOnly == UNCHANGED <<clockVars, main, pads, modes, player>>

WakeUp ==
  /\ OverAt("delay")
  /\ over' = [over EXCEPT !.pc = "look", !.read = now]
  /\ OverOnly /\ UNCHANGED <<screen, stops>>

\* Mutant: a press need not start while the overlay watches.
NotWatching == [over EXCEPT !.pc = "delay", !.read = 0, !.circleWas = FALSE]

AsIfHeld == [over EXCEPT !.pc = "delay", !.read = 0, !.circleWas = TRUE]

Look ==
  /\ OverAt("look")
  /\ IF Gap(over.read, beat) < After \/ dialog \/ hold
       THEN over' = AsIfHeld ELSE over' = [over EXCEPT !.pc = "peek", !.read = 0]
  /\ OverOnly /\ UNCHANGED <<screen, stops>>

Held == over.circleWas

OverPeek ==
  /\ OverAt("peek")
  /\ over' = IF circle /\ ~Held
       THEN [over EXCEPT !.pc = "cancel", !.circleWas = TRUE, !.press = press]
       ELSE [over EXCEPT !.pc = "try", !.circleWas = circle]
  /\ OverOnly /\ UNCHANGED <<screen, stops>>

Cancel ==
  /\ OverAt("cancel")
  /\ cancel' = TRUE /\ request' = over.press
  /\ over' = [over EXCEPT !.pc = "swallow", !.press = 0]
  /\ OverOnly /\ UNCHANGED <<screen, script, stopped>>

Swallow ==
  /\ OverAt("swallow")
  /\ swallow' = TRUE
  /\ OverGoto("try")
  /\ UNCHANGED <<clockVars, main, screen, pad, modes, stops, player>>

TryLock ==
  /\ OverAt("try")
  /\ \/ lock = "free" /\ lock' = "overlay" /\ OverGoto("again")
     \/ lock # "free" /\ OverGoto("delay") /\ UNCHANGED lock
  /\ OverOnly /\ UNCHANGED <<dirty, gpu, gpuReading, shown, stops>>

\* now_ms32() - beat_ms again, whose operands are read in either order.
Then(pc) == over' = [over EXCEPT !.pc = pc, !.read = 0]
LookAgain ==
  /\ \/ OverAt("again") /\ over' = [over EXCEPT !.pc = "has now", !.read = now]
     \/ OverAt("again") /\ over' = [over EXCEPT !.pc = "has beat", !.read = beat]
     \/ OverAt("has now")
        /\ Then(IF Gap(over.read, beat) >= After THEN "draw" ELSE "unlock")
     \/ OverAt("has beat")
        /\ Then(IF Gap(now, over.read) >= After THEN "draw" ELSE "unlock")
  /\ OverOnly /\ UNCHANGED <<screen, stops>>

Draw ==
  /\ OverAt("draw")
  /\ gpu' = TRUE
  /\ OverGoto("drawn")
  /\ OverOnly /\ UNCHANGED <<dirty, lock, gpuReading, shown, stops>>

\* Mutant: the overlay does not say that the GPU reads the texture.
DrawnOnly == shown' = TRUE /\ UNCHANGED gpuReading

DrawnFlags == shown' = TRUE /\ gpuReading' = TRUE

Drawn ==
  /\ OverAt("drawn")
  /\ DrawnFlags
  /\ OverGoto("unlock")
  /\ OverOnly /\ UNCHANGED <<dirty, lock, gpu, stops>>

Unlock ==
  /\ OverAt("unlock")
  /\ lock' = "free"
  /\ OverGoto("delay")
  /\ OverOnly /\ UNCHANGED <<dirty, gpu, gpuReading, shown, stops>>

OverlayNext ==
  \/ WakeUp \/ Look \/ OverPeek \/ Cancel \/ Swallow
  \/ TryLock \/ LookAgain \/ Draw \/ Drawn \/ Unlock

-----------------------------------------------------------------------------

Circle ==
  /\ \/ ~circle /\ press < MaxPress /\ circle' = TRUE /\ press' = press + 1
     \/ circle /\ circle' = FALSE /\ UNCHANGED press
  /\ UNCHANGED <<clockVars, main, screen, pads, modes, stops, over>>

\* Mutant: the clock is not kept in 32 bits.
LaterUnwrapped(t) == t + 1

Later(t) == (t + 1) % Wrap

Tick ==
  /\ away < MaxAway
  /\ now' = Later(now) /\ away' = away + 1
  /\ since' = IF since > FrameInterval /\ since > PresentInterval THEN since ELSE since + 1
  /\ UNCHANGED <<beat, main, screen, pads, modes, stops, over, player>>

Next ==
  \/ StartScript \/ EndScript \/ Interrupt \/ TakeCancel \/ Update \/ Place \/ SetMode
  \/ PresentOrNot \/ Lock \/ PutUp \/ Placed \/ ReleaseTexture \/ Write \/ GpuDone
  \/ Input \/ InLoop \/ Return
  \/ OverlayNext \/ Circle \/ Tick

Spec == Init /\ [][Next]_vars

\* Both threads go on, a running script meets its interrupt, the lock is given
\* to who waits for it, and time passes.
Fairness ==
  /\ WF_vars(OverlayNext) /\ WF_vars(Tick) /\ SF_vars(Lock)
  /\ WF_vars(Interrupt) /\ WF_vars(TakeCancel)
  /\ WF_vars(PresentOrNot) /\ WF_vars(PutUp) /\ WF_vars(Placed)
  /\ WF_vars(ReleaseTexture) /\ WF_vars(Write) /\ WF_vars(InLoop)

FairSpec == Spec /\ Fairness

-----------------------------------------------------------------------------

TypeOK ==
  /\ {now, beat} \subseteq 0..Wrap-1
  /\ since \in Nat /\ away \in 0..MaxAway
  /\ main \in [pc : {"run", "take", "present", "lock", "put up", "place", "blit", "write",
                     "resumed", "cover", "beat", "peek", "poll", "dequeue", "wait"},
               loop : BOOLEAN, use : {"none", "put up", "place", "blit"}]
  /\ {script, dirty, dialog, hold, pad, gpu, gpuReading, shown, cancel, swallow,
      circle} \subseteq BOOLEAN
  /\ lock \in {"free", "main", "overlay"}
  /\ over \in [pc : {"delay", "look", "peek", "cancel", "swallow", "try", "again",
                     "has now", "has beat", "draw", "drawn", "unlock"},
               read : 0..Wrap-1, circleWas : BOOLEAN, press : 0..MaxPress]
  /\ press \in 0..MaxPress /\ request \in 0..MaxPress /\ stopped \subseteq 0..MaxPress

\* The texture is not written while the GPU reads it, or may come to: not for
\* the page's last picture, and not for the overlay's.
NoTear == At("write") => ~gpu /\ over.pc \notin {"draw", "drawn"}

\* One press stops one script: held, it does not stop the next ones too.
OnePressOneStop == [][TakeCancel => request \notin stopped]_vars

\* A main thread that stays in the input loop has the panel covered, though the
\* overlay may have drawn it after busy_resumed looked for it.
PanelLeaves == <>[](main.loop) => []<>(~shown)

\* A script that holds the screen is stopped by a press made while the overlay
\* watches, if it is held until it is seen.
CircleStops ==
  (script /\ away >= After /\ ~dialog /\ ~hold /\ OverAt("delay") /\ ~over.circleWas /\ circle)
    ~> (~script \/ ~circle)

\* Circle is the page's again once it was released, however late the overlay
\* says that a press was its own.
CircleComesBack == <>[](main.loop /\ ~dialog /\ ~circle) => <>[](~swallow)

\* So what the overlay takes it gives back, and a script gives back the screen.
ScreenIsGivenBack == PanelLeaves /\ CircleStops /\ CircleComesBack

\* "The main thread has not come back to the input loop for BUSY_AFTER_US"
\* when the overlay takes it to be away.
AwayIsAway == [][Look /\ over'.pc = "peek" => away >= After]_vars
=============================================================================
