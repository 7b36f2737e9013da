---------------------------- MODULE HspElements -----------------------------
(***************************************************************************)
(* What moves on a Hypnospace page: TextEl.tick and GifEl.tick of hsp.js.  *)
(* A text types itself out and back, or runs across the page, and changes  *)
(* between two colours; a gif advances by its clock, its pointer and its   *)
(* mode, and fades.  A frame of the display takes a whole number of units, *)
(* at least one; speeds are in those units.  The sines (bob, sway, swing)  *)
(* are left out: they keep no state but an angle.                          *)
(***************************************************************************)
EXTENDS Integers

CONSTANTS
  Length,       \* of the text
  TextWidth,    \* of the text on one line, for the marquee
  Delay, Hold,  \* between two letters: 100, and at either end: 800
  PageWidth,    \* 300
  Full,         \* the whole of a colour change or a fade: 100
  Speed,        \* of all of them
  Frames,       \* of the gif
  FrameTime,    \* units a frame of the gif lasts
  Step          \* units a frame of the display may take

ASSUME HspElementsAssumption ==
  /\ {Length, TextWidth, Delay, Hold, PageWidth, Full, Speed, FrameTime} \subseteq Nat \ {0}
  /\ Frames \in Nat /\ Step \subseteq Nat \ {0}

VARIABLES
  text,      \* [anim, phase, shown, timer, offset; coloured: has two colours; mix, dir]
  gif        \* [mode, frame, moving, hover, held, i, acc, fade]

elementVars == <<text, gif>>

Typing == 1
Marquee == 3

Clamp(x, low, high) == IF x < low THEN low ELSE IF x > high THEN high ELSE x

(* startFrame: a mode of 0 starts anywhere, the others within the frames.  *)
StartFrame(g) ==
  IF g.mode # 0 THEN Clamp(g.frame, 0, IF Frames = 0 THEN 0 ELSE Frames - 1)
  ELSE IF g.frame < 0 \/ Frames = 0 THEN 0 ELSE g.frame % Frames

SetFrame(g, i) == IF Frames = 0 THEN g ELSE [g EXCEPT !.i = Clamp(i, 0, Frames - 1)]

(* The gifs an author can have put on a page.                              *)
NewGifs ==
  [mode : {-2, -1, 0, 1}, frame : {-1, 1, Frames}, moving : BOOLEAN,
   hover : {FALSE}, held : {FALSE}, i : {0}, acc : {0}, fade : {0}]

ElementsInit ==
  /\ text \in {[anim |-> a, phase |-> IF a = Marquee THEN TextWidth ELSE 0,
                shown |-> IF a = Typing THEN 0 ELSE Length, timer |-> Delay,
                offset |-> IF a = Marquee THEN PageWidth ELSE 0, coloured |-> c,
                mix |-> 0, dir |-> Speed] :
                 a \in {0, Typing, Marquee}, c \in BOOLEAN}
  /\ gif \in {SetFrame(g, StartFrame(g)) : g \in NewGifs}

-----------------------------------------------------------------------------
Typewriter_NoRewind(t) ==              \* a bug: the phase is never set back
  LET next == t.phase + 1
      left == Length - (t.phase - Length)
  IN IF t.phase < Length THEN [t EXCEPT !.phase = next, !.shown = next, !.timer = Delay]
     ELSE IF t.phase = Length THEN [t EXCEPT !.phase = next, !.timer = Hold]
     ELSE IF next >= Length * 2 THEN [t EXCEPT !.shown = 0, !.timer = Hold]
     ELSE [t EXCEPT !.phase = next, !.shown = IF left > 0 THEN left ELSE 0, !.timer = Delay]

(* The typewriter, when its timer has run out: a letter more, the hold, a  *)
(* letter less, and from the beginning.                                    *)
Typewriter(t) ==
  LET next == t.phase + 1
      left == Length - (t.phase - Length)
  IN IF t.phase < Length THEN [t EXCEPT !.phase = next, !.shown = next, !.timer = Delay]
     ELSE IF t.phase = Length THEN [t EXCEPT !.phase = next, !.timer = Hold]
     ELSE IF next >= Length * 2 THEN [t EXCEPT !.phase = 0, !.shown = 0, !.timer = Hold]
     ELSE [t EXCEPT !.phase = next, !.shown = IF left > 0 THEN left ELSE 0, !.timer = Delay]

Moved(t, dt) ==
  CASE t.anim = Typing ->
         LET w == [t EXCEPT !.timer = @ - Speed * dt] IN IF w.timer <= 0 THEN Typewriter(w) ELSE w
    [] t.anim = Marquee ->
         LET x == t.offset - Speed * dt
         IN [t EXCEPT !.offset = IF x < -t.phase THEN PageWidth ELSE x]
    [] OTHER -> t

(* The colour waits while letters are painted.                             *)
Coloured(t, dt) ==
  LET m == Clamp(t.mix + t.dir * dt, 0, Full)
  IN IF ~t.coloured THEN t
     ELSE [t EXCEPT !.mix = m, !.dir = IF m >= Full \/ m <= 0 THEN -@ ELSE @]

TickText(dt) ==
  /\ text' = LET t == Moved(text, dt)
             IN IF t.shown # text.shown THEN t ELSE Coloured(t, dt)
  /\ UNCHANGED gif

-----------------------------------------------------------------------------
Advance(g, dt) ==
  LET a == g.acc + dt
      n == a \div FrameTime
  IN IF n >= 1 THEN SetFrame([g EXCEPT !.acc = a - n * FrameTime],
                             IF Frames = 0 THEN 0 ELSE (g.i + n) % Frames)
     ELSE [g EXCEPT !.acc = a]

Faded(g, dt) ==
  LET f == g.fade + Speed * dt IN [g EXCEPT !.fade = IF f >= 2 * Full THEN f - 2 * Full ELSE f]

(* The frames a pointer calls for stay on a still page.                    *)
Pointed(g) == StartFrame(g) + (IF g.held THEN 2 ELSE IF g.hover THEN 1 ELSE 0)

FrameOf(g, dt) ==
  CASE g.mode = -2 -> SetFrame(g, Pointed(g))
    [] g.mode > 0 -> IF g.hover THEN Advance(g, dt) ELSE SetFrame(g, StartFrame(g))
    [] g.mode = -1 \/ (g.mode = 0 /\ ~g.moving) -> SetFrame(g, StartFrame(g))
    [] OTHER -> IF Frames > 1 THEN Advance(g, dt) ELSE g

TickGif(dt) ==
  /\ gif' = FrameOf(IF gif.moving THEN Faded(gif, dt) ELSE gif, dt)
  /\ UNCHANGED text

(* render: how opaque the gif is.                                          *)
Opacity(g) == Clamp(IF g.fade >= Full THEN g.fade - Full ELSE Full - g.fade, 0, Full)

(* pointerenter, pointerleave, pointerdown, pointerup, focus and blur.     *)
Pointer(hover, held) ==
  /\ held => gif.hover
  /\ gif' = [gif EXCEPT !.hover = hover, !.held = held /\ hover]
  /\ UNCHANGED text

Ticks == \E dt \in Step : TickText(dt)

ElementsNext ==
  \/ Ticks
  \/ \E dt \in Step : TickGif(dt)
  \/ \E hover, held \in BOOLEAN : Pointer(hover, held)

ElementsSpec == ElementsInit /\ [][ElementsNext]_elementVars /\ WF_elementVars(Ticks)

-----------------------------------------------------------------------------
(* What is painted exists: never more letters than the text has, a frame   *)
(* of the gif for every mode, pointer and late frame of the display, and a *)
(* fade that is a fade.                                                    *)
PaintInBounds ==
  /\ text.shown \in 0..Length /\ text.mix \in 0..Full
  /\ text.offset <= PageWidth /\ (text.anim = Marquee => text.offset >= -TextWidth)
  /\ Frames > 0 => gif.i \in 0..Frames - 1
  /\ gif.acc < FrameTime /\ gif.fade < 2 * Full /\ Opacity(gif) \in 0..Full

(* And nothing gets stuck: a typewriter shows all of its text again and    *)
(* again, and starts again from none; a marquee enters again; a colour     *)
(* reaches either end, however the frames of the display fall (but see     *)
(* Step: two frames at the same instant turn the colour back at an end).   *)
AnimationsTurn ==
  /\ []PaintInBounds
  /\ text.anim = Typing => []<>(text.shown = Length) /\ []<>(text.shown = 0)
  /\ text.anim = Marquee => []<>(text.offset = PageWidth) /\ []<>(text.offset < PageWidth)
  /\ text.coloured => []<>(text.mix = 0) /\ []<>(text.mix = Full)
=============================================================================
