------------------------------ MODULE HspPage -------------------------------
(***************************************************************************)
(* A Hypnospace page in the browser (Page, boot and the controls of        *)
(* hsp.js): its elements are built while their images load, and built      *)
(* again when motion is switched; music, motion, zoom, the text view and   *)
(* the bar of controls each have a choice that is kept in the browser.     *)
(*                                                                         *)
(* An element is its place in the array it is drawn from.  An image is     *)
(* answered or has failed; a page has one font.  The storage may be denied *)
(* for good, and other pages of the export, in other tabs, write the same  *)
(* keys.  Labels and styles are left out.                                  *)
(***************************************************************************)
EXTENDS Integers, Sequences

CONSTANTS
  Type,         \* Type[n]: of the elements, as drawn: "text" or "gif"
  Order,        \* their reading order, HspText!ReadingOrder
  MaxScale,     \* 6
  Fits,         \* the scales the window may have room for
  MaxBuilds     \* bound: builds in flight when motion is switched

ASSUME HspPageAssumption ==
  /\ Type \in Seq({"text", "gif"}) /\ Order \in Seq(DOMAIN Type)
  /\ Len(Order) = Len(Type) /\ \A n \in DOMAIN Type : \E i \in DOMAIN Order : Order[i] = n
  /\ MaxScale \in Nat \ {0} /\ Fits \subseteq 1..MaxScale /\ MaxBuilds \in Nat \ {0}

VARIABLES
  motion,    \* page.motion
  builds,    \* builds in flight: [at: the gif it waits for, 0 the fonts; sheet; made:
             \*   the motion of each element that is there]
  els,       \* page.els, which is the order in the document: [n, moving]
  storage,   \* whether the browser grants it
  disk,      \* localStorage: [motion, read, bar: "", "0" or "1", scale: 0 or a scale]
  session,   \* sessionStorage: autoplay
  audio,     \* [playing, waiting: for a gesture, allowed: by the browser]
  view,      \* [scale, fit, reader, bar, focus]
  overlapped,\* history: motion was last switched while a build was in flight
  elsewhere, \* history: another tab has written since this page was opened
  keyed      \* history: the reader's state comes from its key or the address

hspVars == <<motion, builds, els, storage, disk, session, audio, view,
             overlapped, elsewhere, keyed>>

controls == <<storage, disk, session, audio, view, elsewhere, keyed>>

Got(k) == IF storage THEN disk[k] ELSE IF k = "scale" THEN 0 ELSE ""
Keep(k, v) == disk' = IF storage THEN [disk EXCEPT ![k] = v] ELSE disk
Bit(b) == IF b THEN "1" ELSE "0"
Wanted == ~storage \/ session # "0"

NewBuild == [at |-> 0, sheet |-> FALSE, made |-> [n \in {} |-> FALSE]]

(* setupMusic: it plays at once where the browser lets it, and otherwise   *)
(* waits for a gesture.                                                    *)
Music(allowed) == [playing |-> allowed /\ Wanted, waiting |-> TRUE, allowed |-> allowed]

(* boot and the constructor of Page.                                       *)
Opened ==
  /\ motion' \in IF Got("motion") # "" THEN {Got("motion") = "1"} ELSE BOOLEAN
  /\ builds' = <<NewBuild>> /\ els' = <<>>
  /\ \E allowed \in BOOLEAN : audio' = Music(allowed)
  /\ \E fit \in Fits, hash \in BOOLEAN :
       /\ view' = [scale |-> IF Got("scale") # 0 THEN Got("scale") ELSE fit, fit |-> fit,
                   reader |-> hash \/ Got("read") = "1", bar |-> Got("bar") = "1",
                   focus |-> "page"]
       /\ keyed' = hash
  /\ overlapped' = FALSE /\ elsewhere' = FALSE

Reload == Opened /\ UNCHANGED <<storage, disk, session>>

HspInit ==
  /\ motion \in BOOLEAN /\ builds = <<NewBuild>> /\ els = <<>> /\ storage \in BOOLEAN
  /\ disk = [motion |-> "", read |-> "", bar |-> "", scale |-> 0] /\ session = ""
  /\ \E allowed \in BOOLEAN : audio = Music(allowed)
  /\ view \in {[scale |-> f, fit |-> f, reader |-> FALSE, bar |-> FALSE, focus |-> "page"] :
                 f \in Fits}
  /\ overlapped = FALSE /\ elsewhere = FALSE /\ keyed = FALSE

-----------------------------------------------------------------------------
(* Page.build, an answer at a time: the texts up to the next gif are made  *)
(* as the page's motion is at that moment, and the last answer puts all of *)
(* them into the document.                                                 *)
Gifs == {n \in DOMAIN Type : Type[n] = "gif"}

NextGif(n) ==
  LET after == {i \in Gifs : i >= n}
  IN IF after = {} THEN Len(Type) + 1 ELSE CHOOSE i \in after : \A j \in after : i <= j

(* Those of a set of elements, in reading order.                           *)
InOrder(S) ==
  LET kept[i \in 0..Len(Order)] ==
        IF i = 0 THEN <<>>
        ELSE IF Order[i] \in S THEN Append(kept[i - 1], Order[i]) ELSE kept[i - 1]
  IN kept[Len(Order)]

Placed(made) ==
  LET q == InOrder(DOMAIN made) IN [i \in DOMAIN q |-> [n |-> q[i], moving |-> made[q[i]]]]

Answer(k, ok) ==
  LET b     == builds[k]
      sheet == IF b.at = 0 THEN ok ELSE b.sheet
      stop  == NextGif(b.at + 1)
      texts == IF sheet THEN b.at + 1..stop - 1 ELSE {}
      made  == [n \in DOMAIN b.made \cup ({b.at} \ {0}) \cup texts |->
                  IF n \in DOMAIN b.made THEN b.made[n] ELSE motion]
  IN /\ IF stop > Len(Type)
        THEN /\ builds' = SubSeq(builds, 1, k - 1) \o SubSeq(builds, k + 1, Len(builds))
             /\ els' = els \o Placed(made)
        ELSE /\ builds' = [builds EXCEPT ![k] = [at |-> stop, sheet |-> sheet, made |-> made]]
             /\ els' = els
     /\ UNCHANGED <<motion, controls, overlapped>>

SetMotion_Adds ==                 \* a bug: what stands is not taken away
  /\ Len(builds) <= MaxBuilds
  /\ motion' = ~motion /\ els' = els /\ builds' = Append(builds, NewBuild)
  /\ overlapped' = (builds # <<>>)

(* setMotion: what stands is taken away and everything is built again.     *)
SetMotion ==
  /\ Len(builds) <= MaxBuilds
  /\ motion' = ~motion /\ els' = <<>> /\ builds' = Append(builds, NewBuild)
  /\ overlapped' = (builds # <<>>)

-----------------------------------------------------------------------------
Woken_Always(a) ==                \* a bug: music that was stopped starts again
  [playing |-> a.playing \/ a.waiting, waiting |-> FALSE, allowed |-> TRUE]

(* The first deliberate gesture starts the music; every gesture tells the  *)
(* browser that it may play.                                               *)
Woken(a) ==
  [playing |-> a.playing \/ (a.waiting /\ Wanted), waiting |-> FALSE, allowed |-> TRUE]

(* audio.toggle, on the state the gesture before it has left.              *)
ToggleMusic(a) ==
  /\ audio' = [a EXCEPT !.playing = ~a.playing /\ a.allowed]
  /\ session' = IF storage THEN Bit(~a.playing) ELSE session

PointerDown ==
  /\ audio' = Woken(audio)
  /\ UNCHANGED <<motion, builds, els, storage, disk, session, view, overlapped, elsewhere, keyed>>

(* Tab and its like move the focus and do not start the music.             *)
Navigate ==
  /\ audio' = [audio EXCEPT !.allowed = TRUE]
  /\ \E f \in {"page", "control"} : view' = [view EXCEPT !.focus = f]
  /\ UNCHANGED <<motion, builds, els, storage, disk, session, overlapped, elsewhere, keyed>>

Clamped(n) == IF n < 1 THEN 1 ELSE IF n > MaxScale THEN MaxScale ELSE n

Zoomed(v, n) == [v EXCEPT !.scale = Clamped(n)]

Bump(v, d) == view' = Zoomed(v, v.scale + d) /\ Keep("scale", Clamped(v.scale + d))

FitAgain(v) == view' = Zoomed(v, v.fit) /\ Keep("scale", 0)

SetBar(v, open) == view' = [v EXCEPT !.bar = open] /\ Keep("bar", Bit(open))

ToggleMotion == SetMotion /\ Keep("motion", Bit(~motion))

still == <<motion, builds, els, overlapped>>

(* The buttons.                                                            *)
Click ==
  LET v == [view EXCEPT !.focus = "control"]
  IN /\ \/ ToggleMusic(audio) /\ view' = v /\ UNCHANGED <<still, disk, keyed>>
        \/ /\ ToggleMotion /\ view' = v
           /\ UNCHANGED <<session, audio, keyed>>
        \/ \E d \in {-1, 1} : Bump(v, d) /\ UNCHANGED <<still, session, audio, keyed>>
        \/ SetBar(v, ~v.bar) /\ UNCHANGED <<still, session, audio, keyed>>
        \/ /\ view' = [view EXCEPT !.reader = ~@, !.focus = "page"]
           /\ Keep("read", Bit(~view.reader)) /\ keyed' = FALSE
           /\ UNCHANGED <<still, session, audio>>
     /\ UNCHANGED <<storage, elsewhere>>

(* setupKeys: no key belongs to the page while a control has the focus.    *)
Key ==
  LET a == Woken(audio)
      mine == view.focus = "page"
  IN /\ \/ ~mine /\ audio' = a /\ UNCHANGED <<still, disk, session, view, keyed>>
        \/ mine /\ ToggleMusic(a) /\ UNCHANGED <<still, disk, view, keyed>>
        \/ /\ mine /\ audio' = a
           /\ \/ ToggleMotion /\ UNCHANGED <<session, view, keyed>>
              \/ \E d \in {-1, 1} : Bump(view, d) /\ UNCHANGED <<still, session, keyed>>
              \/ FitAgain(view) /\ UNCHANGED <<still, session, keyed>>
              \/ SetBar(view, ~view.bar) /\ UNCHANGED <<still, session, keyed>>
              \/ /\ view' = [view EXCEPT !.reader = ~@] /\ keyed' = TRUE
                 /\ UNCHANGED <<still, disk, session>>
     /\ UNCHANGED <<storage, elsewhere>>

Escape ==
  /\ view.bar
  /\ SetBar([view EXCEPT !.focus = "control"], FALSE)
  /\ UNCHANGED <<still, storage, session, audio, elsewhere, keyed>>

Resize ==
  /\ \E fit \in Fits :
       LET v == [view EXCEPT !.fit = fit]
       IN view' = IF Got("scale") = 0 THEN Zoomed(v, fit) ELSE v
  /\ UNCHANGED <<still, storage, disk, session, audio, elsewhere, keyed>>

(* Another page of the export, in another tab, keeps a choice.             *)
Elsewhere ==
  /\ storage
  /\ disk' \in [motion : {disk.motion, "0", "1"}, read : {disk.read, "1"}, bar : {disk.bar},
                scale : {disk.scale, 0, MaxScale}]
  /\ elsewhere' = TRUE
  /\ UNCHANGED <<still, storage, session, audio, view, keyed>>

Building == \E k \in DOMAIN builds, ok \in BOOLEAN : Answer(k, ok)

HspNext ==
  \/ Building
  \/ PointerDown \/ Navigate \/ Click \/ Key \/ Escape \/ Resize \/ Reload \/ Elsewhere

HspSpec == HspInit /\ [][HspNext]_hspVars

-----------------------------------------------------------------------------
(* When nothing is being built, every element of the page stands once, in  *)
(* reading order and moving as the motion button says (the texts only if   *)
(* their font has come), and nothing stands before.  The exception is the  *)
(* code's: setMotion does not stop a build, and a build that was in flight *)
(* when motion was switched adds its elements to those of the next one.    *)
Whole(S) ==
  LET q == InOrder(S) IN [i \in DOMAIN q |-> [n |-> q[i], moving |-> motion]]

EachOnce ==
  /\ ~overlapped => els \in IF builds = <<>> THEN {Whole(Gifs), Whole(DOMAIN Type)} ELSE {<<>>}
  /\ builds = <<>> => Gifs \subseteq {els[i].n : i \in DOMAIN els}

(* "The choice then rides along": what the browser keeps is what the page  *)
(* does, over reloads, resizes and every order of buttons and keys; music  *)
(* that was stopped stays silent, and a zoom that was chosen stays.  Not   *)
(* when another tab writes, for the t key, which keeps nothing, and with   *)
(* no storage, where the next resize undoes a zoom.                        *)
ChoicesKept ==
  /\ storage =>
       /\ audio.playing => session # "0"
       /\ audio.allowed /\ ~audio.waiting /\ session # "0" => audio.playing
  /\ storage /\ ~elsewhere =>
       /\ view.scale = IF disk.scale # 0 THEN disk.scale ELSE view.fit
       /\ disk.motion # "" => motion = (disk.motion = "1")
       /\ view.bar = (disk.bar = "1")
       /\ ~keyed => view.reader = (disk.read = "1")
=============================================================================
