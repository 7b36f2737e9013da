------------------------------- MODULE MCPages -------------------------------
(***************************************************************************)
(* The two programs that run in a visitor's browser beside the interpreter *)
(* (MCAth): the race and the Hypnospace pages.  Their parts share no       *)
(* state: a run looks at one of them, the others stay where they began.    *)
(*                                                                         *)
(* alone     games of one's own: two clicks, two requests in flight        *)
(* room      the same page in a room, with another person and a bot; one   *)
(*           click, by a link; at most one request in flight when something *)
(*           new happens, but the last tick of a countdown is never held   *)
(*           up by that                                                    *)
(* hunt      the random challenge: two tries, two attempts                 *)
(* text, gif what moves, by one or two units in a frame                    *)
(* build     a page of two gifs and two texts, motion switched while it is *)
(*           built, over reloads                                           *)
(* controls  the same page once its controls are all there is to look at   *)
(* law       WordPage and HspText on bounded inputs                        *)
(***************************************************************************)
EXTENDS RacePage, RaceWords, PageLaws, HspPage, HspElements

MCWord  == {"cat", "dog", "Dog", "emu"}
MCEntry == [cat |-> "cat", dog |-> "dog", Dog |-> "dog", emu |-> "emu"]
MCLinks == [cat |-> {"emu"}, emu |-> {"Dog"}, dog |-> {"cat"}, Dog |-> {"cat"}]
MCDaily == <<"cat", "dog">>
MCChoice == {<<"emu", "dog">>}

MCTitle    == {"ant", "Ant", "bee", "Talk", "gone"}     \* Talk: of a namespace
MCSpelling == [ant |-> "ant", Ant |-> "ant", bee |-> "bee", Talk |-> "talk", gone |-> "gone"]

MCElements ==
  <<[type |-> "gif", x |-> 5, y |-> 9, n |-> 1], [type |-> "text", x |-> 0, y |-> 15, n |-> 2],
    [type |-> "gif", x |-> 1, y |-> 2, n |-> 3], [type |-> "text", x |-> 1, y |-> 2, n |-> 4]>>
MCType  == <<"gif", "text", "gif", "text">>    \* of MCElements, the types,
MCOrder ==                                     \* and the order they are read in
  LET read == ReadingOrder(MCElements) IN <<read[1].n, read[2].n, read[3].n, read[4].n>>
MCPlaces == [x : {0, 1}, y : {0, 7, 8}]
MCHosts  == {Home, "en.wikipedia.org", "example.org"}

VARIABLE lane
MCVars == <<lane, pageVars, huntVars, hspVars, elementVars, law>>

MCInit ==
  /\ lane \in {"alone", "room", "hunt", "text", "gif", "build", "controls", "law"}
  /\ PageInit /\ (lane \notin {"alone", "room"} => ~debug)
  /\ HuntInit
  /\ ElementsInit
  /\ lane # "text" => text.anim = 0 /\ ~text.coloured
  /\ lane # "gif" => gif.mode = -1 /\ gif.frame = 1 /\ ~gif.moving
  /\ HspInit
  /\ lane \notin {"build", "controls"} => storage /\ motion /\ ~audio.allowed /\ view.fit = 1
  /\ IF lane = "law" THEN LawInit ELSE law = [kind |-> "none"]

Room ==
  /\ PageNext /\ debug' = debug
  /\ game'.clicks <= IF game'.nav THEN 0 ELSE 1
  /\ Len(loads') <= 1 \/ CountdownTick

(* Motion, with what else is kept left alone; and the rest, with motion so. *)
Build ==
  \/ Building
  \/ /\ HspNext /\ disk'.read = disk.read /\ disk'.scale = disk.scale
     /\ motion' # motion \/ disk'.motion # disk.motion \/ Reload
Controls == HspNext /\ builds' = builds /\ disk'.motion = disk.motion

MCNext ==
  /\ UNCHANGED <<lane, law>>
  /\ \/ lane = "alone" /\ Alone /\ UNCHANGED <<huntVars, hspVars, elementVars>>
     \/ lane = "room" /\ Room /\ UNCHANGED <<huntVars, hspVars, elementVars>>
     \/ lane = "hunt" /\ HuntNext /\ UNCHANGED <<pageVars, hspVars, elementVars>>
     \/ lane \in {"text", "gif"} /\ ElementsNext /\ UNCHANGED <<pageVars, huntVars, hspVars>>
        /\ (lane = "text" => gif' = gif) /\ (lane = "gif" => text' = text)
     \/ lane = "build" /\ Build /\ UNCHANGED <<pageVars, huntVars, elementVars>>
     \/ lane = "controls" /\ Controls /\ UNCHANGED <<pageVars, huntVars, elementVars>>

MCSpec ==
  /\ MCInit /\ [][MCNext]_MCVars
  /\ WF_pageVars(lane = "room" /\ CountdownTick)
  /\ WF_huntVars(lane = "hunt" /\ HuntStep)
  /\ WF_elementVars(lane = "text" /\ Ticks)
=============================================================================
