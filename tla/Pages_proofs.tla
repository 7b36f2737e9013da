----------------------------- MODULE Pages_proofs ------------------------------
(***************************************************************************)
(* What the pages of the race and of the Hypnospace export keep, for any   *)
(* dictionary, any number of clicks, requests, players and elements, and   *)
(* any order of answers, buttons, keys and frames.                         *)
(***************************************************************************)
EXTENDS RacePage, RaceWords, PageLaws, HspPage, HspElements, FiniteSetTheorems, WellFoundedInduction, TLAPS

-----------------------------------------------------------------------------
(* The page of the race.                                                   *)

Titled == Word \cup Typed \cup {None}
Modes  == {None, "daily", "practice", "multiplayer"}
Person == {"me", "other", "bot"}
Record == [mode : Modes, start : Titled, target : Titled, path : Seq(Titled), clicks : Int]

GameOK(g) ==
  g \in [mode : Modes, start : Titled, target : Titled, current : Titled,
         path : Seq(Titled), clicks : Int, multi : BOOLEAN, nav : BOOLEAN]
RoomOK(r) ==
  r \in [players : SUBSET Person, ready : BOOLEAN, words : Titled \X Titled,
         started : BOOLEAN, count : Int, done : SUBSET Person]

PageTypeOK ==
  /\ GameOK(game) /\ RoomOK(room)
  /\ modals \subseteq {"victory", "results"} /\ shown \in Titled /\ loads \in Seq(Titled)
  /\ history \in Seq(Record) /\ debug \in BOOLEAN /\ checking \in Titled \X Titled
  /\ ticks \in Int /\ overlay \in BOOLEAN /\ crossed \in BOOLEAN

(* The path of a game begins at its start and has a click for each step.   *)
Counted(g) == g.path # <<>> => g.path[1] = g.start /\ g.clicks = Len(g.path) - 1

(* On the page of a game there is one, and when nothing covers the page it *)
(* is a game that may be recorded, or a race.                              *)
OnScreen(s, g, ms) ==
  s = "game" =>
    /\ g.path # <<>>
    /\ g.multi \/ g.mode \in {"daily", "practice"} \/ "results" \in ms

(* Only games played alone are steered by typing.                          *)
Steered(g) == ~(g.nav /\ g.multi)

GoodRecord(e) ==
  /\ e.mode \in {"daily", "practice"}
  /\ e.path[1] = e.start /\ Same(e.path[Len(e.path)], e.target)
  /\ e.clicks = Len(e.path) - 1

GoodHistory(hs) == Len(hs) <= HistoryCap /\ \A i \in 1..Len(hs) : GoodRecord(hs[i])

(* The target has not been reached after the start.                        *)
Seeking(g) == \A j \in 2..Len(g.path) : ~Same(g.path[j], g.target)

RouteOf(g) ==
  \A i \in 1..Len(g.path) - 1 :
    (\A j \in 2..i : ~Same(g.path[j], g.target)) => g.path[i + 1] \in Links[g.path[i]]

(* What is displayed, or will be: the word the game is at.                 *)
Facing(g, s, ls) ==
  /\ ls = <<>> \/ (Len(ls) = 1 /\ s = None)
  /\ ~g.nav /\ g.path # <<>> /\ Seeking(g) =>
       /\ s # None => s = Last(g.path)
       /\ ls # <<>> => ls[1] = Last(g.path)

PageInv ==
  /\ PageTypeOK
  /\ Counted(game) /\ OnScreen(screen, game, modals) /\ Steered(game)
  /\ GoodHistory(history)
  /\ ~crossed => Facing(game, shown, loads)
  /\ ~crossed /\ ~game.nav => RouteOf(game)

LEMMA TitlesAre ==
  /\ Word \subseteq Titled /\ Typed \subseteq Titled /\ None \in Titled
  /\ NoWords \in Titled \X Titled /\ Daily \in Titled \X Titled
  /\ Choice \subseteq Titled \X Titled
BY RacePageAssumption DEF Titled, NoWords

(* A game that has just begun with a pair of words.                        *)
Fresh(g, w) == GameOK(g) /\ g.path = <<w>> /\ g.start = w /\ g.clicks = 0

LEMMA FreshGame ==
  ASSUME NEW g, NEW w, Fresh(g, w)
  PROVE  g.path # <<>> /\ Counted(g) /\ RouteOf(g)
BY DEF Fresh, GameOK, Counted, RouteOf

LEMMA FreshLoad ==
  ASSUME PageInv, NEW g, NEW w \in Titled, Fresh(g, w), LoadFirst(w)
  PROVE  /\ shown' \in Titled /\ loads' \in Seq(Titled) /\ crossed' \in BOOLEAN
         /\ ~crossed' => Facing(g, shown', loads')
<1>1. shown' \in Titled /\ loads' \in Seq(Titled) /\ crossed' \in BOOLEAN
  BY TitlesAre DEF PageInv, PageTypeOK, LoadFirst
<1>2. ASSUME ~crossed' PROVE Facing(g, shown', loads')
  <2>0. loads = <<>>
    BY <1>2 DEF LoadFirst
  <2>1. loads' = <<w>> /\ shown' = None
    BY <2>0 DEF LoadFirst
  <2>2. Last(g.path) = w
    BY DEF Fresh, Last
  <2> QED BY <2>1, <2>2 DEF Facing
<1> QED BY <1>1, <1>2

(* The end of a race changes nothing of where the game is.                 *)
LEMMA Unraced ==
  ASSUME NEW g, GameOK(g)
  PROVE  LET h == [g EXCEPT !.multi = FALSE]
         IN /\ GameOK(h) /\ ~h.multi /\ h.mode = g.mode
            /\ h.path = g.path /\ h.start = g.start /\ h.target = g.target
            /\ h.clicks = g.clicks /\ h.nav = g.nav
BY DEF GameOK

(* One step on from where the game is.                                     *)
LEMMA PushedGame ==
  ASSUME PageInv, NEW w \in Titled, game.path # <<>>
  PROVE  LET g == Pushed(w)
             h == [g EXCEPT !.current = w]
         IN /\ \A k \in {g, h} :
                 /\ GameOK(k) /\ Counted(k) /\ k.path = Append(game.path, w) /\ k.path # <<>>
                 /\ k.mode = game.mode /\ k.multi = game.multi /\ k.nav = game.nav
                 /\ k.target = game.target /\ k.start = game.start
<1> DEFINE g == Pushed(w)
<1> DEFINE h == [g EXCEPT !.current = w]
<1>a. game.path \in Seq(Titled) /\ game.clicks \in Int
  BY DEF PageInv, PageTypeOK, GameOK
<1>b. game.path[1] = game.start /\ game.clicks = Len(game.path) - 1
  BY DEF PageInv, Counted
<1>0. /\ game.path \in Seq(Titled) /\ game.clicks \in Int /\ Len(game.path) \in Nat \ {0}
      /\ game.path[1] = game.start /\ game.clicks = Len(game.path) - 1
  BY <1>a, <1>b
<1>1. /\ g.path = Append(game.path, w) /\ g.clicks = game.clicks + 1
      /\ g.mode = game.mode /\ g.multi = game.multi /\ g.nav = game.nav
      /\ g.target = game.target /\ g.start = game.start
      /\ GameOK(g)
  <2>1. GameOK(game)
    BY DEF PageInv, PageTypeOK
  <2>2. Append(game.path, w) \in Seq(Titled) /\ game.clicks + 1 \in Int
    BY <1>0
  <2>3. g = [game EXCEPT !.path = Append(game.path, w), !.clicks = game.clicks + 1]
    BY DEF Pushed
  <2> HIDE DEF g
  <2> QED BY <2>1, <2>2, <2>3 DEF GameOK
<1>2. /\ h.path = Append(game.path, w) /\ h.clicks = game.clicks + 1
      /\ h.mode = game.mode /\ h.multi = game.multi /\ h.nav = game.nav
      /\ h.target = game.target /\ h.start = game.start
      /\ GameOK(h)
  BY <1>1 DEF GameOK
<1>3. /\ Append(game.path, w)[1] = game.start /\ Append(game.path, w) # <<>>
      /\ Len(Append(game.path, w)) = Len(game.path) + 1
  BY <1>0
<1>4. Counted(g) /\ Counted(h)
  BY <1>0, <1>1, <1>2, <1>3 DEF Counted
<1> QED BY <1>1, <1>2, <1>3, <1>4

-----------------------------------------------------------------------------
(* What the page makes of its room.                                        *)

(* The game a page has when it is told of a room: its own or a new race,   *)
(* and when the race is over the results are up.                           *)
LEMMA ToldGame ==
  ASSUME PageTypeOK, NEW g, GameOK(g), Steered(g), Counted(g), NEW r, RoomOK(r), Told(g, r)
  PROVE  LET plays == IF Begins(g, r) THEN Raced(r) ELSE g
         IN /\ RoomOK(room') /\ overlay' \in BOOLEAN
            /\ modals \subseteq modals' /\ modals' \subseteq {"victory", "results"}
            /\ GameOK(game') /\ Steered(game') /\ Counted(game')
            /\ \/ game' = plays
               \/ "results" \in modals' /\ game' = [plays EXCEPT !.multi = FALSE]
<1> DEFINE plays == IF Begins(g, r) THEN Raced(r) ELSE g
<1>1. RoomOK(room') /\ overlay' \in BOOLEAN
  BY DEF Told, RoomOK, PageTypeOK
<1>2. modals \subseteq modals' /\ modals' \subseteq {"victory", "results"}
  BY DEF Told, PageTypeOK
<1>3. \/ game' = plays
      \/ "results" \in modals' /\ game' = [plays EXCEPT !.multi = FALSE]
  BY DEF Told
<1>4. GameOK(plays) /\ Steered(plays) /\ Counted(plays)
  <2>1. CASE Begins(g, r)
    <3>1. plays = Raced(r)
      BY <2>1
    <3>2. r.words[1] \in Titled /\ r.words[2] \in Titled
      BY DEF RoomOK
    <3>3. <<r.words[1]>> \in Seq(Titled)
      BY <3>2
    <3>4. GameOK(Raced(r))
      BY <3>2, <3>3 DEF Raced, GameOK, Modes
    <3>5. Steered(Raced(r)) /\ Counted(Raced(r))
      BY DEF Raced, Steered, Counted
    <3> QED BY <3>1, <3>4, <3>5
  <2>2. CASE ~Begins(g, r)
    BY <2>2
  <2> QED BY <2>1, <2>2
<1> HIDE DEF plays
<1>5. GameOK(game') /\ Steered(game') /\ Counted(game')
  <2>1. CASE game' = plays
    BY <2>1, <1>4
  <2>2. CASE game' = [plays EXCEPT !.multi = FALSE]
    BY <2>2, <1>4, Unraced DEF Steered, Counted
  <2> QED BY <1>3, <2>1, <2>2
<1> QED BY <1>1, <1>2, <1>3, <1>5 DEF plays

(* A change of the room alone keeps everything.                            *)
LEMMA ChangedKept ==
  ASSUME PageInv, NEW r, RoomOK(r), Changed(r), ticks' \in Int,
         history' = history, debug' = debug, checking' = checking
  PROVE  PageInv'
<1> DEFINE plays == IF Begins(game, r) THEN Raced(r) ELSE game
<1>1. /\ RoomOK(room') /\ overlay' \in BOOLEAN
      /\ modals \subseteq modals' /\ modals' \subseteq {"victory", "results"}
      /\ GameOK(game') /\ Steered(game') /\ Counted(game')
      /\ \/ game' = plays
         \/ "results" \in modals' /\ game' = [plays EXCEPT !.multi = FALSE]
  BY ToldGame DEF PageInv, PageTypeOK, Changed
<1>2. GoodHistory(history')
  BY DEF PageInv
<1>3. ASSUME Begins(game, r)
      PROVE  /\ shown' \in Titled /\ loads' \in Seq(Titled) /\ crossed' \in BOOLEAN
             /\ OnScreen(screen', game', modals')
             /\ ~crossed' => Facing(game', shown', loads')
             /\ ~crossed' /\ ~game'.nav => RouteOf(game')
  <2>1. screen' = "game" /\ LoadFirst(r.words[1])
    BY <1>3 DEF Changed
  <2>2. r.words[1] \in Titled
    BY DEF RoomOK
  <2>3. plays = Raced(r)
    BY <1>3
  <2>4. game'.path = <<r.words[1]>> /\ game'.start = r.words[1] /\ game'.clicks = 0
    <3>1. CASE game' = plays
      BY <3>1, <2>3 DEF Raced
    <3>2. CASE game' = [plays EXCEPT !.multi = FALSE]
      BY <3>2, <2>3 DEF Raced
    <3> QED BY <1>1, <3>1, <3>2
  <2>5. game'.multi \/ "results" \in modals'
    BY <1>1, <2>3 DEF Raced
  <2>6. Fresh(game', r.words[1])
    BY <1>1, <2>4 DEF Fresh
  <2>7. OnScreen(screen', game', modals')
    BY <2>4, <2>5 DEF OnScreen
  <2> QED BY <2>1, <2>2, <2>6, <2>7, FreshGame, FreshLoad
<1>4. ASSUME ~Begins(game, r)
      PROVE  /\ shown' \in Titled /\ loads' \in Seq(Titled) /\ crossed' \in BOOLEAN
             /\ OnScreen(screen', game', modals')
             /\ ~crossed' => Facing(game', shown', loads')
             /\ ~crossed' /\ ~game'.nav => RouteOf(game')
  <2>1. screen' = screen /\ shown' = shown /\ loads' = loads /\ crossed' = crossed
    BY <1>4 DEF Changed
  <2>2. plays = game
    BY <1>4
  <2>3. /\ game'.path = game.path /\ game'.target = game.target /\ game'.nav = game.nav
        /\ game'.mode = game.mode /\ (game'.multi = game.multi \/ "results" \in modals')
    <3>1. CASE game' = plays
      BY <3>1, <2>2
    <3>2. CASE "results" \in modals' /\ game' = [plays EXCEPT !.multi = FALSE]
      BY <3>2, <2>2, Unraced DEF PageInv, PageTypeOK
    <3> QED BY <1>1, <3>1, <3>2
  <2>4. OnScreen(screen', game', modals')
    BY <1>1, <2>1, <2>3 DEF PageInv, OnScreen
  <2>5. ~crossed' => Facing(game', shown', loads')
    BY <2>1, <2>3 DEF PageInv, Facing, Seeking
  <2>6. ~crossed' /\ ~game'.nav => RouteOf(game')
    BY <2>1, <2>3 DEF PageInv, RouteOf
  <2> QED BY <2>1, <2>4, <2>5, <2>6 DEF PageInv, PageTypeOK
<1>5. PageTypeOK'
  BY <1>1, <1>3, <1>4 DEF PageInv, PageTypeOK
<1> QED BY <1>1, <1>2, <1>3, <1>4, <1>5 DEF PageInv

-----------------------------------------------------------------------------
(* The steps of one's own games.                                           *)

LEMMA LoadKept ==
  ASSUME PageInv, NEW w \in Titled, Load(w), NEW g, g.path # <<>>, Last(g.path) = w
  PROVE  /\ shown' \in Titled /\ loads' \in Seq(Titled) /\ crossed' \in BOOLEAN
         /\ ~crossed' => ~crossed /\ Facing(g, shown', loads')
<1>1. shown' \in Titled /\ loads' \in Seq(Titled) /\ crossed' \in BOOLEAN
  BY TitlesAre DEF PageInv, PageTypeOK, Load
<1>2. ASSUME ~crossed' PROVE ~crossed /\ Facing(g, shown', loads')
  <2>0. ~crossed /\ loads = <<>>
    BY <1>2 DEF Load
  <2>1. loads' = <<w>> /\ shown' = None
    BY <2>0 DEF Load
  <2> QED BY <2>0, <2>1 DEF Facing
<1> QED BY <1>1, <1>2

(* What leaves the games, the records and the requests alone.              *)
LEMMA AsideKept ==
  ASSUME PageInv, UNCHANGED <<game, history, loads, shown, crossed>>,
         RoomOK(room'), modals' \subseteq {"victory", "results"}, debug' \in BOOLEAN,
         checking' \in Titled \X Titled, ticks' \in Int, overlay' \in BOOLEAN,
         OnScreen(screen', game, modals')
  PROVE  PageInv'
<1>1. PageTypeOK'
  BY DEF PageInv, PageTypeOK
<1>2. /\ Counted(game') /\ OnScreen(screen', game', modals') /\ Steered(game')
      /\ GoodHistory(history')
      /\ ~crossed' => Facing(game', shown', loads')
      /\ ~crossed' /\ ~game'.nav => RouteOf(game')
  BY DEF PageInv
<1> QED BY <1>1, <1>2 DEF PageInv

LEMMA SavedGood ==
  ASSUME PageInv, NEW g, GameOK(g), Counted(g), g.path # <<>>,
         g.mode \in {"daily", "practice"}, Same(Last(g.path), g.target)
  PROVE  Saved(g) \in Seq(Record) /\ GoodHistory(Saved(g))
<1>0. history \in Seq(Record) /\ GoodHistory(history) /\ debug \in BOOLEAN
  BY DEF PageInv, PageTypeOK
<1>1. CASE debug
  BY <1>0, <1>1 DEF Saved
<1>2. CASE ~debug
  <2> DEFINE entry == [mode |-> g.mode, start |-> g.start, target |-> g.target,
                       path |-> g.path, clicks |-> g.clicks]
  <2> DEFINE all == <<entry>> \o history
  <2> DEFINE n == IF Len(all) > HistoryCap THEN HistoryCap ELSE Len(all)
  <2>1. entry \in Record
    BY DEF GameOK, Record
  <2>2. GoodRecord(entry)
    BY DEF GoodRecord, Counted, Last
  <2>3. Saved(g) = SubSeq(all, 1, n)
    BY <1>2 DEF Saved
  <2> HIDE DEF entry
  <2>4. all \in Seq(Record) /\ Len(all) = Len(history) + 1 /\ Len(history) \in Nat
    BY <1>0, <2>1
  <2>5. \A i \in 1..Len(all) : GoodRecord(all[i])
    <3>1. all[1] = entry
      BY <1>0, <2>1
    <3>2. \A i \in 2..Len(all) : all[i] = history[i - 1] /\ i - 1 \in 1..Len(history)
      BY <1>0, <2>1, <2>4
    <3>3. \A i \in 2..Len(all) : GoodRecord(all[i])
      BY <1>0, <3>2 DEF GoodHistory
    <3> QED BY <2>2, <2>4, <3>1, <3>3
  <2> HIDE DEF all
  <2>6. n \in Nat /\ n <= Len(all) /\ n <= HistoryCap
    BY <2>4, RacePageAssumption
  <2> HIDE DEF n
  <2>7. SubSeq(all, 1, n) \in Seq(Record) /\ Len(SubSeq(all, 1, n)) = n
    BY <2>4, <2>6
  <2>8. \A i \in 1..n : SubSeq(all, 1, n)[i] = all[i] /\ i \in 1..Len(all)
    BY <2>4, <2>6
  <2>9. GoodHistory(SubSeq(all, 1, n))
    BY <2>5, <2>6, <2>7, <2>8 DEF GoodHistory
  <2> QED BY <2>3, <2>7, <2>9
<1> QED BY <1>0, <1>1, <1>2

(* A game that begins alone.                                               *)
LEMMA StartKept ==
  ASSUME PageInv, NEW mode \in {"daily", "practice"}, NEW words \in Titled \X Titled,
         StartGame(mode, words), checking' \in Titled \X Titled,
         UNCHANGED <<modals, history, debug, hall>>
  PROVE  PageInv'
<1>1. words[1] \in Titled /\ words[2] \in Titled /\ <<words[1]>> \in Seq(Titled)
  BY DEF Titled
<1>2. /\ game' = [mode |-> mode, start |-> words[1], target |-> words[2], current |-> words[1],
                  path |-> <<words[1]>>, clicks |-> 0, multi |-> FALSE, nav |-> debug]
      /\ screen' = "game" /\ LoadFirst(words[1])
  BY DEF StartGame
<1>3. GameOK(game')
  BY <1>1, <1>2 DEF GameOK, Modes, PageInv, PageTypeOK
<1>4. Fresh(game', words[1])
  BY <1>2, <1>3 DEF Fresh
<1>5. Steered(game') /\ OnScreen(screen', game', modals')
  BY <1>2 DEF Steered, OnScreen
<1>6. PageTypeOK'
  BY <1>1, <1>2, <1>3, <1>4, FreshLoad DEF PageInv, PageTypeOK, hall
<1> QED BY <1>1, <1>2, <1>4, <1>5, <1>6, FreshGame, FreshLoad DEF PageInv

(* The target is reached: the game goes where it was going, and is kept.   *)
LEMMA VictoryKept ==
  ASSUME PageInv, NEW w \in Titled, NEW g \in {Pushed(w), [Pushed(w) EXCEPT !.current = w]},
         game.path # <<>>, ~game.multi, game.mode \in {"daily", "practice"},
         Same(w, game.target), Victory(g), game.nav \/ (~crossed => RouteOf(g)),
         UNCHANGED <<room, overlay, debug, checking, ticks>>
  PROVE  PageInv'
<1>1. /\ GameOK(g) /\ Counted(g) /\ g.path = Append(game.path, w) /\ g.path # <<>>
      /\ g.mode = game.mode /\ g.multi = game.multi /\ g.nav = game.nav
      /\ g.target = game.target /\ g.start = game.start
  BY PushedGame
<1>2. game.path \in Seq(Titled) /\ Len(game.path) \in Nat \ {0}
  <2>1. game.path \in Seq(Titled)
    BY DEF PageInv, PageTypeOK, GameOK
  <2> QED BY <2>1
<1>3. Len(g.path) = Len(game.path) + 1 /\ Last(g.path) = w
  BY <1>1, <1>2 DEF Last
<1>4. Saved(g) \in Seq(Record) /\ GoodHistory(Saved(g))
  BY <1>1, <1>3, SavedGood
<1>5. /\ game' = g /\ history' = Saved(g) /\ modals' = modals \cup {"victory"}
      /\ UNCHANGED <<screen, shown, loads, crossed>>
  BY DEF Victory
<1>6. ~Seeking(g)
  <2>1. Len(g.path) \in 2..Len(g.path) /\ Same(g.path[Len(g.path)], g.target)
    BY <1>1, <1>2, <1>3 DEF Last
  <2> QED BY <2>1 DEF Seeking
<1>7. PageTypeOK'
  BY <1>1, <1>4, <1>5 DEF PageInv, PageTypeOK
<1>8. OnScreen(screen', game', modals') /\ Steered(game') /\ Counted(game')
  BY <1>1, <1>5 DEF OnScreen, Steered
<1>9. ~crossed' => Facing(game', shown', loads')
  BY <1>5, <1>6 DEF PageInv, Facing
<1>10. ~crossed' /\ ~game'.nav => RouteOf(game')
  BY <1>1, <1>5
<1> QED BY <1>4, <1>5, <1>7, <1>8, <1>9, <1>10 DEF PageInv

(* A step along a link of what is displayed keeps to the route.            *)
LEMMA StepOnRoute ==
  ASSUME PageInv, ~crossed, ~game.nav, game.path # <<>>,
         NEW w \in Word, shown # None, w \in Links[shown],
         NEW g, g.path = Append(game.path, w), g.target = game.target
  PROVE  RouteOf(g)
<1>1. game.path \in Seq(Titled) /\ Len(game.path) \in Nat \ {0}
  <2>1. game.path \in Seq(Titled)
    BY DEF PageInv, PageTypeOK, GameOK
  <2> QED BY <2>1
<1>2. RouteOf(game) /\ Facing(game, shown, loads)
  BY DEF PageInv
<1>3. Len(g.path) = Len(game.path) + 1 /\ g.path[Len(game.path) + 1] = w
  BY <1>1
<1>4. \A j \in 1..Len(game.path) : g.path[j] = game.path[j]
  BY <1>1
<1> SUFFICES ASSUME NEW i \in 1..Len(g.path) - 1, \A j \in 2..i : ~Same(g.path[j], g.target)
             PROVE  g.path[i + 1] \in Links[g.path[i]]
  BY DEF RouteOf
<1>5. \A j \in 2..i : ~Same(game.path[j], game.target)
  <2>1. \A j \in 2..i : j \in 1..Len(game.path)
    BY <1>1, <1>3
  <2> QED BY <1>4, <2>1
<1>6. CASE i < Len(game.path)
  <2>1. i \in 1..Len(game.path) - 1 /\ i \in 1..Len(game.path) /\ i + 1 \in 1..Len(game.path)
    BY <1>1, <1>6
  <2>2. game.path[i + 1] \in Links[game.path[i]]
    BY <1>2, <1>5, <2>1 DEF RouteOf
  <2> QED BY <1>4, <2>1, <2>2
<1>7. CASE i = Len(game.path)
  <2>1. Seeking(game)
    BY <1>5, <1>7 DEF Seeking
  <2>2. shown = Last(game.path)
    BY <1>2, <2>1 DEF Facing
  <2>3. g.path[i] = shown /\ g.path[i + 1] = w
    BY <1>1, <1>3, <1>4, <1>7, <2>2 DEF Last
  <2> QED BY <2>3
<1> QED BY <1>1, <1>3, <1>6, <1>7

LEMMA ClickLinkKept ==
  ASSUME PageInv, NEW w \in Word, ClickLink(w)
  PROVE  PageInv'
<1> DEFINE g == Pushed(w)
<1> DEFINE h == [g EXCEPT !.current = w]
<1> DEFINE r == [room EXCEPT !.done = @ \cup ({"me"} \cap room.players)]
<1>1. /\ screen = "game" /\ Free /\ shown # None /\ w \in Links[shown] /\ w \in Titled
      /\ UNCHANGED <<debug, checking, joining, role, ticks, bot>>
  BY TitlesAre DEF ClickLink
<1>2. game.path # <<>> /\ (game.multi \/ game.mode \in {"daily", "practice"})
  BY <1>1 DEF PageInv, OnScreen, Free
<1>3. \A k \in {g, h} :
        /\ GameOK(k) /\ Counted(k) /\ k.path = Append(game.path, w) /\ k.path # <<>>
        /\ k.mode = game.mode /\ k.multi = game.multi /\ k.nav = game.nav
        /\ k.target = game.target /\ k.start = game.start
  BY <1>1, <1>2, PushedGame
<1>4. \A k \in {g, h} : Steered(k) /\ OnScreen("game", k, modals)
  BY <1>1, <1>2, <1>3 DEF PageInv, Steered, OnScreen
<1>5. \A k \in {g, h} : ~crossed /\ ~game.nav => RouteOf(k)
  BY <1>1, <1>2, <1>3, StepOnRoute
<1>6. game.path \in Seq(Titled)
  BY DEF PageInv, PageTypeOK, GameOK
<1>7. \A k \in {g, h} : Last(k.path) = w
  <2>1. Append(game.path, w)[Len(Append(game.path, w))] = w
    BY <1>6
  <2> QED BY <1>3, <2>1 DEF Last
<1>8. RoomOK(r)
  BY DEF RoomOK, Person, PageInv, PageTypeOK
<1>9. \A k \in {g, h} : Same(w, game.target) => ~Seeking(k)
  <2>1. Len(game.path) \in Nat \ {0} /\ Len(Append(game.path, w)) = Len(game.path) + 1
    BY <1>2, <1>6
  <2>2. Len(Append(game.path, w)) \in 2..Len(Append(game.path, w))
    BY <2>1
  <2> QED BY <1>3, <1>7, <2>2 DEF Seeking, Last
<1>10. CASE Same(w, game.target) /\ ~game.multi
  <2>1. Victory(g) /\ UNCHANGED <<room, overlay>>
    BY <1>10 DEF ClickLink
  <2> QED BY <1>1, <1>2, <1>5, <1>10, <2>1, VictoryKept
<1>11. CASE Same(w, game.target) /\ game.multi
  <2>1. Told(g, r) /\ UNCHANGED <<screen, history, shown, loads, crossed>>
    BY <1>11 DEF ClickLink
  <2>2. ~Begins(g, r)
    BY <1>3, <1>11 DEF Begins
  <2> HIDE DEF g, h, r
  <2>3. /\ RoomOK(room') /\ overlay' \in BOOLEAN
        /\ modals \subseteq modals' /\ modals' \subseteq {"victory", "results"}
        /\ GameOK(game') /\ Steered(game') /\ Counted(game')
        /\ \/ game' = g
           \/ "results" \in modals' /\ game' = [g EXCEPT !.multi = FALSE]
    BY <1>3, <1>4, <1>8, <2>1, <2>2, ToldGame DEF PageInv
  <2>4. /\ game'.path = g.path /\ game'.target = g.target /\ game'.nav = g.nav
        /\ game'.mode = g.mode /\ (game'.multi = g.multi \/ "results" \in modals')
    BY <1>3, <2>3, Unraced
  <2>5. OnScreen(screen', game', modals')
    BY <1>4, <2>1, <2>3, <2>4 DEF OnScreen
  <2>6. ~crossed' => Facing(game', shown', loads')
    <3>1. ~Seeking(g)
      BY <1>9, <1>11
    <3>2. ~Seeking(game')
      BY <3>1, <2>4 DEF Seeking
    <3> QED BY <2>1, <3>2 DEF PageInv, Facing
  <2>7. ~crossed' /\ ~game'.nav => RouteOf(game')
    BY <1>3, <1>5, <2>1, <2>4 DEF RouteOf
  <2>8. PageTypeOK'
    BY <1>1, <2>1, <2>3 DEF PageInv, PageTypeOK
  <2> QED BY <2>1, <2>3, <2>5, <2>6, <2>7, <2>8 DEF PageInv
<1>12. CASE ~Same(w, game.target)
  <2>1. /\ IF game.multi THEN Told(h, room)
           ELSE game' = h /\ UNCHANGED <<modals, room, overlay>>
        /\ Load(w) /\ UNCHANGED <<screen, history>>
    BY <1>12 DEF ClickLink
  <2> HIDE DEF g, h, r
  <2>2. /\ RoomOK(room') /\ overlay' \in BOOLEAN
        /\ modals \subseteq modals' /\ modals' \subseteq {"victory", "results"}
        /\ GameOK(game') /\ Steered(game') /\ Counted(game')
        /\ \/ game' = h
           \/ "results" \in modals' /\ game' = [h EXCEPT !.multi = FALSE]
    <3>1. CASE game.multi
      <4>1. ~Begins(h, room) /\ Told(h, room)
        BY <1>3, <2>1, <3>1 DEF Begins
      <4> QED BY <1>3, <1>4, <4>1, ToldGame DEF PageInv, PageTypeOK
    <3>2. CASE ~game.multi
      BY <1>3, <1>4, <2>1, <3>2 DEF PageInv, PageTypeOK
    <3> QED BY <3>1, <3>2
  <2>3. /\ game'.path = h.path /\ game'.target = h.target /\ game'.nav = h.nav
        /\ game'.mode = h.mode /\ (game'.multi = h.multi \/ "results" \in modals')
    BY <1>3, <2>2, Unraced
  <2>4. OnScreen(screen', game', modals')
    BY <1>4, <1>1, <2>1, <2>2, <2>3 DEF OnScreen
  <2>5. /\ shown' \in Titled /\ loads' \in Seq(Titled) /\ crossed' \in BOOLEAN
        /\ ~crossed' => ~crossed /\ Facing(h, shown', loads')
    BY <1>1, <1>3, <1>7, <2>1, LoadKept
  <2>6. ~crossed' => Facing(game', shown', loads')
    BY <2>3, <2>5 DEF Facing, Seeking
  <2>7. ~crossed' /\ ~game'.nav => RouteOf(game')
    BY <1>3, <1>5, <2>3, <2>5 DEF RouteOf
  <2>8. PageTypeOK'
    BY <1>1, <2>1, <2>2, <2>5 DEF PageInv, PageTypeOK
  <2>9. GoodHistory(history')
    BY <2>1 DEF PageInv
  <2> QED BY <2>2, <2>4, <2>6, <2>7, <2>8, <2>9 DEF PageInv
<1> QED BY <1>10, <1>11, <1>12

(* A word that was typed.                                                  *)
LEMMA NavigateKept ==
  ASSUME PageInv, NEW w \in Typed, DebugNavigate(w)
  PROVE  PageInv'
<1> DEFINE g == [Pushed(w) EXCEPT !.current = w]
<1>1. /\ screen = "game" /\ Free /\ game.nav /\ w \in Titled
      /\ UNCHANGED <<debug, checking, joining, hall>>
  BY TitlesAre DEF DebugNavigate
<1>2. game.path # <<>> /\ ~game.multi /\ game.mode \in {"daily", "practice"}
  BY <1>1 DEF PageInv, OnScreen, Steered, Free
<1>3. /\ GameOK(g) /\ Counted(g) /\ g.path = Append(game.path, w) /\ g.path # <<>>
      /\ g.mode = game.mode /\ g.multi = game.multi /\ g.nav = game.nav
      /\ g.target = game.target /\ g.start = game.start
  BY <1>1, <1>2, PushedGame
<1>4. CASE Same(w, game.target)
  <2>1. Victory(g)
    BY <1>4 DEF DebugNavigate
  <2> QED BY <1>1, <1>2, <1>4, <2>1, VictoryKept DEF hall
<1>5. CASE ~Same(w, game.target)
  <2>1. game' = g /\ Load(w) /\ UNCHANGED <<screen, modals, history>>
    BY <1>5 DEF DebugNavigate
  <2>2. Last(g.path) = w
    <3>1. game.path \in Seq(Titled)
      BY DEF PageInv, PageTypeOK, GameOK
    <3> QED BY <1>3, <3>1 DEF Last
  <2> HIDE DEF g
  <2>3. /\ shown' \in Titled /\ loads' \in Seq(Titled) /\ crossed' \in BOOLEAN
        /\ ~crossed' => ~crossed /\ Facing(g, shown', loads')
    BY <1>1, <1>3, <2>1, <2>2, LoadKept
  <2>4. PageTypeOK'
    BY <1>1, <1>3, <2>1, <2>3 DEF PageInv, PageTypeOK, hall
  <2>5. OnScreen(screen', game', modals') /\ Steered(game') /\ game'.nav
    BY <1>1, <1>2, <1>3, <2>1 DEF OnScreen, Steered
  <2> QED BY <1>3, <2>1, <2>3, <2>4, <2>5 DEF PageInv
<1> QED BY <1>4, <1>5

(* Back along the trail.                                                   *)
LEMMA BackToKept ==
  ASSUME PageInv, NEW i \in 1..Len(game.path), BackTo(i)
  PROVE  PageInv'
<1> DEFINE p == SubSeq(game.path, 1, i)
<1> DEFINE w == game.path[i]
<1> DEFINE g == [game EXCEPT !.path = p, !.current = w, !.clicks = i - 1]
<1>1. /\ screen = "game" /\ Free /\ i < Len(game.path) /\ game' = g /\ Load(w)
      /\ UNCHANGED <<screen, modals, solo, hall>>
  BY DEF BackTo
<1>2. GameOK(game) /\ game.path \in Seq(Titled) /\ Len(game.path) \in Nat /\ i \in Nat \ {0}
  <2>1. GameOK(game) /\ game.path \in Seq(Titled)
    BY DEF PageInv, PageTypeOK, GameOK
  <2> QED BY <1>1, <2>1
<1>3. /\ p \in Seq(Titled) /\ Len(p) = i /\ p # <<>> /\ w \in Titled
      /\ \A j \in 1..i : p[j] = game.path[j]
  BY <1>1, <1>2
<1>4. i - 1 \in Int
  BY <1>2
<1> HIDE DEF p, w
<1>5. /\ GameOK(g) /\ g.path = p /\ g.clicks = i - 1 /\ g.mode = game.mode
      /\ g.multi = game.multi /\ g.nav = game.nav /\ g.target = game.target
      /\ g.start = game.start
  BY <1>2, <1>3, <1>4 DEF GameOK
<1> HIDE DEF g
<1>6. Last(g.path) = w
  BY <1>2, <1>3, <1>5 DEF Last, w
<1>7. Counted(g)
  <2>1. game.path[1] = game.start
    BY <1>1, <1>2 DEF PageInv, Counted
  <2>2. p[1] = game.path[1]
    BY <1>2, <1>3
  <2> QED BY <1>3, <1>5, <2>1, <2>2 DEF Counted
<1>8. OnScreen(screen', game', modals') /\ Steered(game')
  BY <1>1, <1>3, <1>5 DEF PageInv, OnScreen, Steered
<1>9. /\ shown' \in Titled /\ loads' \in Seq(Titled) /\ crossed' \in BOOLEAN
      /\ ~crossed' => ~crossed /\ Facing(g, shown', loads')
  BY <1>1, <1>3, <1>5, <1>6, LoadKept
<1>10. ASSUME ~crossed, ~game.nav PROVE RouteOf(g)
  <2>1. RouteOf(game)
    BY <1>10 DEF PageInv
  <2> SUFFICES ASSUME NEW k \in 1..i - 1, \A j \in 2..k : ~Same(p[j], game.target)
               PROVE  p[k + 1] \in Links[p[k]]
    BY <1>3, <1>5 DEF RouteOf
  <2>2. k \in 1..Len(game.path) - 1 /\ k \in 1..i /\ k + 1 \in 1..i /\ \A j \in 2..k : j \in 1..i
    BY <1>1, <1>2
  <2>3. \A j \in 2..k : ~Same(game.path[j], game.target)
    BY <1>3, <2>2
  <2>4. game.path[k + 1] \in Links[game.path[k]]
    BY <2>1, <2>2, <2>3 DEF RouteOf
  <2> QED BY <1>3, <2>2, <2>4
<1>11. PageTypeOK'
  BY <1>1, <1>5, <1>9 DEF PageInv, PageTypeOK, solo, hall
<1> QED BY <1>1, <1>5, <1>7, <1>8, <1>9, <1>10, <1>11 DEF PageInv, solo

(* An answer: it shows the word that was asked for, or nothing more.       *)
LEMMA LoadAnswerKept ==
  ASSUME PageInv, NEW i \in 1..Len(loads), NEW ok \in BOOLEAN, LoadAnswer(i, ok)
  PROVE  PageInv'
<1>1. /\ loads' = SubSeq(loads, 1, i - 1) \o SubSeq(loads, i + 1, Len(loads))
      /\ shown' = IF ok THEN loads[i] ELSE shown
      /\ UNCHANGED <<game, screen, modals, solo, hall, crossed>>
  BY DEF LoadAnswer
<1>2. loads \in Seq(Titled) /\ Len(loads) \in Nat /\ shown \in Titled
  BY DEF PageInv, PageTypeOK
<1>3. shown' \in Titled /\ loads' \in Seq(Titled)
  <2>1. SubSeq(loads, 1, i - 1) \in Seq(Titled) /\ SubSeq(loads, i + 1, Len(loads)) \in Seq(Titled)
    BY <1>2
  <2> QED BY <1>1, <1>2, <2>1
<1>4. ASSUME ~crossed' PROVE Facing(game', shown', loads')
  <2>1. Facing(game, shown, loads)
    BY <1>1, <1>4 DEF PageInv
  <2>2. Len(loads) = 1 /\ i = 1 /\ shown = None
    BY <1>2, <2>1 DEF Facing
  <2>3. loads' = <<>>
    <3>1. SubSeq(loads, 1, 0) = <<>> /\ SubSeq(loads, 2, 1) = <<>>
      BY <1>2
    <3> QED BY <1>1, <2>2, <3>1
  <2>4. shown' = loads[1] \/ shown' = None
    BY <1>1, <2>2
  <2>5. loads # <<>>
    BY <1>2, <2>2
  <2> QED BY <1>1, <2>1, <2>3, <2>4, <2>5 DEF Facing
<1>5. PageTypeOK'
  BY <1>1, <1>3 DEF PageInv, PageTypeOK, solo, hall
<1> QED BY <1>1, <1>4, <1>5 DEF PageInv, solo

LEMMA PracticeAnswerKept ==
  ASSUME PageInv, NEW exist \in BOOLEAN, PracticeAnswer(exist)
  PROVE  PageInv'
<1>1. checking' \in Titled \X Titled /\ checking \in Titled \X Titled
  BY TitlesAre DEF PracticeAnswer, PageInv, PageTypeOK
<1>2. CASE exist
  <2>1. StartGame("practice", checking) /\ UNCHANGED <<modals, history, debug, hall>>
    BY <1>2 DEF PracticeAnswer
  <2> QED BY <1>1, <2>1, StartKept
<1>3. CASE ~exist
  <2>1. /\ UNCHANGED <<game, screen, shown, loads, crossed>>
        /\ UNCHANGED <<modals, history, debug, joining, hall>>
    BY <1>3 DEF PracticeAnswer
  <2> QED BY <1>1, <2>1, AsideKept DEF PageInv, PageTypeOK, hall
<1> QED BY <1>2, <1>3

LEMMA EmptyRoom == RoomOK(NoRoom) /\ Off \in Int
<1>1. Off \in Int
  BY DEF Off
<1> HIDE DEF Off
<1> QED BY <1>1, TitlesAre DEF RoomOK, NoRoom

LEMMA GoHomeKept == ASSUME PageInv, GoHome PROVE PageInv'
<1>1. /\ game' = Reset(game) /\ shown' = None /\ screen' = "home" /\ overlay' = overlay
      /\ UNCHANGED <<modals, loads, solo, ticks, crossed>> /\ (room' = room \/ room' = NoRoom)
  BY DEF GoHome, Left
<1>2. GameOK(game') /\ game'.path = <<>> /\ ~game'.multi /\ game'.nav = game.nav
  <2>1. GameOK(game) /\ None \in Titled
    BY DEF PageInv, PageTypeOK, Titled
  <2>2. <<>> \in Seq(Titled) /\ 0 \in Int
    OBVIOUS
  <2> QED BY <1>1, <2>1, <2>2 DEF GameOK, Reset
<1>3. RoomOK(room')
  BY <1>1, EmptyRoom DEF PageInv, PageTypeOK
<1>4. PageTypeOK'
  BY <1>1, <1>2, <1>3, TitlesAre DEF PageInv, PageTypeOK, solo
<1>5. Counted(game') /\ OnScreen(screen', game', modals') /\ Steered(game') /\ RouteOf(game')
  BY <1>1, <1>2 DEF Counted, OnScreen, Steered, RouteOf
<1>6. ~crossed' => Facing(game', shown', loads')
  BY <1>1, <1>2 DEF PageInv, Facing
<1> QED BY <1>1, <1>4, <1>5, <1>6 DEF PageInv, solo

-----------------------------------------------------------------------------
(* The steps in a room.                                                    *)

LEMMA CompleteJoinKept ==
  ASSUME PageInv, NEW words \in Choice, NEW phase \in {"lobby", "countdown", "race"},
         CompleteJoin(words, phase)
  PROVE  PageInv'
<1> DEFINE r == [NoRoom EXCEPT !.players = {"me", "other"}, !.words = words,
                               !.started = phase # "lobby",
                               !.count = IF phase = "countdown" THEN Count ELSE Off]
<1> DEFINE plays == IF Begins(game, r) THEN Raced(r) ELSE game
<1>1. /\ Told(game, r)
      /\ IF Begins(game, r) THEN LoadFirst(words[1]) ELSE UNCHANGED <<shown, loads, crossed>>
      /\ screen' = "multiplayerLobby"
      /\ UNCHANGED <<history, debug, checking, ticks, bot>>
  BY DEF CompleteJoin
<1>2. RoomOK(r) /\ r.words = words /\ words[1] \in Titled
  <2>1. words \in Titled \X Titled /\ words[1] \in Titled
    BY TitlesAre
  <2>2. Count \in Int
    BY RacePageAssumption
  <2>3. (IF phase = "countdown" THEN Count ELSE Off) \in Int
    BY <2>2, EmptyRoom
  <2>4. (phase # "lobby") \in BOOLEAN
    OBVIOUS
  <2> DEFINE c == IF phase = "countdown" THEN Count ELSE Off
  <2> DEFINE b == phase # "lobby"
  <2>5. r = [NoRoom EXCEPT !.players = {"me", "other"}, !.words = words,
                           !.started = b, !.count = c]
    OBVIOUS
  <2> HIDE DEF c, b, r
  <2>6. c \in Int /\ b \in BOOLEAN
    BY <2>3, <2>4 DEF c, b
  <2> QED BY <2>1, <2>5, <2>6 DEF RoomOK, NoRoom, Person
<1> HIDE DEF r
<1>3. /\ RoomOK(room') /\ overlay' \in BOOLEAN
      /\ modals \subseteq modals' /\ modals' \subseteq {"victory", "results"}
      /\ GameOK(game') /\ Steered(game') /\ Counted(game')
      /\ \/ game' = plays
         \/ "results" \in modals' /\ game' = [plays EXCEPT !.multi = FALSE]
  BY <1>1, <1>2, ToldGame DEF PageInv, PageTypeOK
<1>4. CASE Begins(game, r)
  <2>1. game'.path = <<words[1]>> /\ game'.start = words[1] /\ game'.clicks = 0
    BY <1>2, <1>3, <1>4 DEF Raced
  <2>2. Fresh(game', words[1])
    BY <1>3, <2>1 DEF Fresh
  <2>3. /\ shown' \in Titled /\ loads' \in Seq(Titled) /\ crossed' \in BOOLEAN
        /\ ~crossed' => Facing(game', shown', loads')
    BY <1>1, <1>2, <1>4, <2>2, FreshLoad
  <2>4. PageTypeOK'
    BY <1>1, <1>3, <2>3 DEF PageInv, PageTypeOK
  <2> QED BY <1>1, <1>3, <2>2, <2>3, <2>4, FreshGame DEF PageInv, OnScreen
<1>5. CASE ~Begins(game, r)
  <2>1. game'.path = game.path /\ game'.target = game.target /\ game'.nav = game.nav
    BY <1>3, <1>5, Unraced DEF PageInv, PageTypeOK
  <2>2. PageTypeOK'
    BY <1>1, <1>3, <1>5 DEF PageInv, PageTypeOK
  <2>3. ~crossed' => Facing(game', shown', loads')
    BY <1>1, <1>5, <2>1 DEF PageInv, Facing, Seeking
  <2>4. ~crossed' /\ ~game'.nav => RouteOf(game')
    BY <1>1, <1>5, <2>1 DEF PageInv, RouteOf
  <2> QED BY <1>1, <1>3, <2>2, <2>3, <2>4 DEF PageInv, OnScreen
<1> QED BY <1>4, <1>5

LEMMA OtherReportsKept ==
  ASSUME PageInv, NEW r, OtherReports(r),
         r \in {room, [room EXCEPT !.ready = ~@], [room EXCEPT !.done = @ \cup {"other"}],
                [room EXCEPT !.players = @ \ {"other"}, !.done = @ \ {"other"}]}
  PROVE  PageInv'
<1>1. RoomOK(r)
  <2>1. RoomOK(room)
    BY DEF PageInv, PageTypeOK
  <2>2. RoomOK([room EXCEPT !.ready = ~@])
    <3>1. (~room.ready) \in BOOLEAN
      OBVIOUS
    <3> DEFINE b == ~room.ready
    <3> HIDE DEF b
    <3>2. RoomOK([room EXCEPT !.ready = b])
      BY <2>1, <3>1 DEF RoomOK, b
    <3> QED BY <3>2 DEF b
  <2>3. RoomOK([room EXCEPT !.done = @ \cup {"other"}])
    BY <2>1 DEF RoomOK, Person
  <2>4. RoomOK([room EXCEPT !.players = @ \ {"other"}, !.done = @ \ {"other"}])
    BY <2>1 DEF RoomOK, Person
  <2> QED BY <2>1, <2>2, <2>3, <2>4
<1>2. Changed(r) /\ UNCHANGED <<solo, role, ticks, bot>>
  BY DEF OtherReports
<1> QED BY <1>1, <1>2, ChangedKept DEF solo, PageInv, PageTypeOK

LEMMA HostStartsKept == ASSUME PageInv, HostStarts PROVE PageInv'
<1> DEFINE r == [room EXCEPT !.started = TRUE, !.count = Count]
<1>1. RoomOK(r)
  <2>1. RoomOK(room) /\ Count \in Int
    BY RacePageAssumption DEF PageInv, PageTypeOK
  <2> QED BY <2>1 DEF RoomOK
<1>2. Changed(r) /\ UNCHANGED solo /\ ticks' \in {Count, ticks}
  BY DEF HostStarts
<1>3. ticks' \in Int
  BY <1>2, RacePageAssumption DEF PageInv, PageTypeOK
<1> QED BY <1>1, <1>2, <1>3, ChangedKept DEF solo

LEMMA CountdownTickKept == ASSUME PageInv, CountdownTick PROVE PageInv'
<1> DEFINE left == (IF role = "guest" THEN room.count ELSE ticks) - 1
<1> DEFINE r == [room EXCEPT !.count = left]
<1>1. RoomOK(room) /\ room.count \in Int /\ ticks \in Int
  BY DEF RoomOK, PageInv, PageTypeOK
<1>2. left \in Int
  BY <1>1
<1>3. ticks' \in Int
  BY <1>1 DEF CountdownTick
<1>4. Changed(IF left = 0 THEN Begun(r) ELSE r) /\ UNCHANGED solo
  BY DEF CountdownTick
<1> HIDE DEF left
<1>5. RoomOK(r)
  BY <1>1, <1>2 DEF RoomOK
<1>6. RoomOK(Begun(r))
  <2> HIDE DEF r
  <2> QED BY <1>5, EmptyRoom DEF RoomOK, Begun
<1> QED BY <1>3, <1>4, <1>5, <1>6, ChangedKept DEF solo

LEMMA SimulateMoveKept == ASSUME PageInv, NEW finish \in BOOLEAN, SimulateMove(finish) PROVE PageInv'
<1>1. UNCHANGED <<solo, role, ticks>>
  BY DEF SimulateMove
<1>2. CASE "bot" \in room.done \/ ~room.started
  <2>1. UNCHANGED <<game, screen, modals, overlay, shown, loads, room, crossed>>
    BY <1>2 DEF SimulateMove
  <2> QED BY <1>1, <2>1, AsideKept DEF PageInv, PageTypeOK, solo
<1>3. CASE ~("bot" \in room.done \/ ~room.started)
  <2> DEFINE r == [room EXCEPT !.done = IF finish THEN @ \cup {"bot"} ELSE @]
  <2>1. Changed(r)
    BY <1>3 DEF SimulateMove
  <2>2. RoomOK(r)
    BY DEF RoomOK, Person, PageInv, PageTypeOK
  <2> QED BY <1>1, <2>1, <2>2, ChangedKept DEF solo, PageInv, PageTypeOK
<1> QED BY <1>2, <1>3

LEMMA JoinStepKept ==
  ASSUME PageInv, GenerateJoinCode \/ JoinCodeMade
  PROVE  PageInv'
<1>1. UNCHANGED <<game, screen, modals, shown, loads, history, debug, checking, hall, crossed>>
  BY DEF GenerateJoinCode, JoinCodeMade, Joined
<1> QED BY <1>1, AsideKept DEF hall, PageInv, PageTypeOK

LEMMA ToggleMultiplayerKept == ASSUME PageInv, ToggleMultiplayer PROVE PageInv'
<1>1. /\ UNCHANGED <<game, modals, shown, loads, history, debug, checking, hall, crossed>>
      /\ screen' # "game"
  BY DEF ToggleMultiplayer
<1>2. OnScreen(screen', game, modals')
  BY <1>1 DEF OnScreen
<1> QED BY <1>1, <1>2, AsideKept DEF hall, PageInv, PageTypeOK

LEMMA RoomEntryKept ==
  ASSUME PageInv, CreateRoom \/ LeaveLobby
  PROVE  PageInv'
<1>1. /\ UNCHANGED <<game, modals, overlay, shown, loads, solo, ticks, crossed>>
      /\ room' \in {NoRoom, [NoRoom EXCEPT !.players = {"me"}]} /\ screen' # "game"
  BY DEF CreateRoom, LeaveLobby, Left
<1>2. RoomOK(room')
  <2>1. RoomOK([NoRoom EXCEPT !.players = {"me"}])
    BY EmptyRoom DEF RoomOK, Person
  <2> QED BY <1>1, <2>1, EmptyRoom
<1>3. OnScreen(screen', game, modals')
  BY <1>1 DEF OnScreen
<1> QED BY <1>1, <1>2, <1>3, AsideKept DEF solo, PageInv, PageTypeOK

(* A dialog is closed: what was under it was a game one can go on with, or *)
(* the page leaves it.                                                     *)
LEMMA CloseVictoryKept ==
  ASSUME PageInv, NEW next \in {screen, "practiceSetup"}, CloseVictory(next)
  PROVE  PageInv'
<1>1. /\ modals' = modals \ {"victory"} /\ screen' = next
      /\ UNCHANGED <<game, shown, loads, solo, hall, crossed>>
  BY DEF CloseVictory
<1>2. OnScreen(screen', game, modals')
  BY <1>1 DEF PageInv, OnScreen
<1> QED BY <1>1, <1>2, AsideKept DEF solo, hall, PageInv, PageTypeOK

LEMMA CloseResultsKept ==
  ASSUME PageInv, NEW stay \in BOOLEAN, CloseResults(stay)
  PROVE  PageInv'
<1>1. /\ modals' = modals \ {"results"} /\ screen' # "game" /\ (room' = room \/ room' = NoRoom)
      /\ UNCHANGED <<game, overlay, shown, loads, solo, ticks, crossed>>
  BY DEF CloseResults, Left
<1>2. OnScreen(screen', game, modals') /\ RoomOK(room')
  BY <1>1, EmptyRoom DEF OnScreen, PageInv, PageTypeOK
<1> QED BY <1>1, <1>2, AsideKept DEF solo, PageInv, PageTypeOK

(* What the host or the other person does with the room.                   *)
LEMMA SetChallengeKept == ASSUME PageInv, NEW words \in Choice, SetChallengeWords(words) PROVE PageInv'
<1>1. RoomOK([room EXCEPT !.words = words])
  <2>1. RoomOK(room) /\ words \in Titled \X Titled
    BY TitlesAre DEF PageInv, PageTypeOK
  <2> QED BY <2>1 DEF RoomOK
<1>2. Changed([room EXCEPT !.words = words]) /\ UNCHANGED <<solo, ticks>>
  BY DEF SetChallengeWords
<1> QED BY <1>1, <1>2, ChangedKept DEF solo, PageInv, PageTypeOK

LEMMA NewPlayerKept == ASSUME PageInv, AcceptPlayer \/ AddFakePlayer PROVE PageInv'
<1>1. RoomOK(room)
  BY DEF PageInv, PageTypeOK
<1>2. /\ RoomOK([room EXCEPT !.players = @ \cup {"other"}, !.ready = FALSE])
      /\ RoomOK([room EXCEPT !.players = @ \cup {"bot"}])
  BY <1>1 DEF RoomOK, Person
<1>3. CASE AcceptPlayer
  <2>1. /\ Changed([room EXCEPT !.players = @ \cup {"other"}, !.ready = FALSE])
        /\ UNCHANGED <<solo, ticks>>
    BY <1>3 DEF AcceptPlayer
  <2> QED BY <1>2, <2>1, ChangedKept DEF solo, PageInv, PageTypeOK
<1>4. CASE AddFakePlayer
  <2>1. Changed([room EXCEPT !.players = @ \cup {"bot"}]) /\ UNCHANGED <<solo, ticks>>
    BY <1>4 DEF AddFakePlayer
  <2> QED BY <1>2, <2>1, ChangedKept DEF solo, PageInv, PageTypeOK
<1> QED BY <1>3, <1>4

LEMMA StartFakePlayersKept == ASSUME PageInv, StartFakePlayers PROVE PageInv'
<1>1. /\ UNCHANGED <<game, screen, modals, overlay, shown, loads, solo, role, ticks, crossed>>
      /\ room' \in {room, [room EXCEPT !.done = @ \ {"bot"}]}
  BY DEF StartFakePlayers
<1>2. RoomOK(room')
  <2>1. RoomOK(room)
    BY DEF PageInv, PageTypeOK
  <2>2. RoomOK([room EXCEPT !.done = @ \ {"bot"}])
    BY <2>1 DEF RoomOK
  <2> QED BY <1>1, <2>1, <2>2
<1> QED BY <1>1, <1>2, AsideKept DEF solo, PageInv, PageTypeOK

-----------------------------------------------------------------------------
LEMMA PageInitial == PageInit => PageInv
<1> SUFFICES ASSUME PageInit PROVE PageInv
  OBVIOUS
<1>1. game = NoGame /\ screen = "home" /\ history = <<>> /\ loads = <<>> /\ shown = None
  BY DEF PageInit
<1>2. GameOK(NoGame)
  <2>1. <<>> \in Seq(Titled) /\ 0 \in Int
    OBVIOUS
  <2> QED BY TitlesAre, <2>1 DEF GameOK, NoGame, Modes
<1>3. PageTypeOK
  <2>1. <<>> \in Seq(Titled) /\ <<>> \in Seq(Record)
    OBVIOUS
  <2>2. /\ modals = {} /\ debug \in BOOLEAN /\ checking = NoWords /\ ticks = 0
        /\ overlay = FALSE /\ crossed = FALSE /\ room = NoRoom
    BY DEF PageInit
  <2>3. GameOK(game) /\ RoomOK(room) /\ loads \in Seq(Titled) /\ history \in Seq(Record)
    BY <1>1, <1>2, <2>1, <2>2, EmptyRoom
  <2>4. checking \in Titled \X Titled /\ shown \in Titled
    BY <1>1, <2>2, TitlesAre
  <2>5. ticks \in Int
    BY <2>2
  <2>6. overlay \in BOOLEAN /\ crossed \in BOOLEAN
    BY <2>2, Zenon
  <2> QED BY <2>2, <2>3, <2>4, <2>5, <2>6 DEF PageTypeOK
<1>4. Counted(game) /\ OnScreen(screen, game, modals) /\ Steered(game) /\ RouteOf(game)
  BY <1>1 DEF NoGame, Counted, OnScreen, Steered, RouteOf
<1>5. Facing(game, shown, loads)
  BY <1>1 DEF Facing
<1>6. GoodHistory(history)
  BY <1>1, RacePageAssumption DEF GoodHistory
<1> QED BY <1>3, <1>4, <1>5, <1>6 DEF PageInv

LEMMA AloneKept == ASSUME PageInv, Alone PROVE PageInv'
<1>1. CASE StartDailyChallenge
  <2>1. StartGame("daily", Daily) /\ UNCHANGED <<modals, solo, hall>>
    BY <1>1 DEF StartDailyChallenge
  <2> QED BY <2>1, StartKept, TitlesAre DEF solo, PageInv, PageTypeOK
<1>2. CASE ToggleDebug
  <2>1. /\ UNCHANGED <<game, screen, modals, shown, loads, history, checking, hall, crossed>>
        /\ debug' \in BOOLEAN
    BY <1>2 DEF ToggleDebug
  <2> QED BY <2>1, AsideKept DEF hall, PageInv, PageTypeOK
<1>3. ASSUME NEW words \in Choice, StartPracticeMode(words) PROVE PageInv'
  <2>1. /\ UNCHANGED <<game, screen, modals, shown, loads, history, debug, hall, crossed>>
        /\ checking' = words
    BY <1>3 DEF StartPracticeMode
  <2> QED BY <2>1, AsideKept, TitlesAre DEF hall, PageInv, PageTypeOK
<1>4. ASSUME NEW s, ShowScreen(s) PROVE PageInv'
  <2>1. /\ UNCHANGED <<game, modals, shown, loads, solo, hall, crossed>> /\ screen' # "game"
    BY <1>4 DEF ShowScreen
  <2>2. OnScreen(screen', game, modals')
    BY <2>1 DEF OnScreen
  <2> QED BY <2>1, <2>2, AsideKept DEF solo, hall, PageInv, PageTypeOK
<1> QED BY <1>1, <1>2, <1>3, <1>4, GoHomeKept, PracticeAnswerKept, NavigateKept, BackToKept,
           ClickLinkKept, LoadAnswerKept, CloseVictoryKept
    DEF Alone

LEMMA TogetherKept == ASSUME PageInv, Together PROVE PageInv'
BY ToggleMultiplayerKept, RoomEntryKept, JoinStepKept, CompleteJoinKept, SetChallengeKept,
   NewPlayerKept, HostStartsKept, CountdownTickKept, StartFakePlayersKept, OtherReportsKept,
   SimulateMoveKept, CloseResultsKept
DEF Together

(* The page keeps one account of its game: on the page of a game there is  *)
(* one, its clicks are the steps of its path, what is displayed or in      *)
(* flight is the word it is at unless two requests crossed, and a race is  *)
(* never steered by typing.  Every button, answer, report and tick of      *)
(* game.js and multiplayer.js leaves it so: the inductive invariant.       *)
THEOREM PageInvariant == PageSpec => []PageInv
<1>1. ASSUME PageInv, UNCHANGED pageVars PROVE PageInv'
  BY <1>1 DEF PageInv, PageTypeOK, pageVars
<1>2. PageInv /\ [PageNext]_pageVars => PageInv'
  BY <1>1, AloneKept, TogetherKept DEF PageNext
<1> QED BY PageInitial, <1>2, PTL DEF PageSpec

(* Every record is of a game of one's own, from its start word to its      *)
(* target with a click for every step, and their number keeps to the cap   *)
(* (saveCompletion): however answers, races, dialogs and debug mode are    *)
(* mixed.                                                                  *)
THEOREM RecordsAreTrue == PageSpec => []RecordsTrue
<1>1. PageInv => RecordsTrue
  BY DEF PageInv, GoodHistory, GoodRecord, RecordsTrue
<1> QED BY <1>1, PageInvariant, PTL

(* A path follows links as long as no two requests were in flight together *)
(* (handleLinkClick on what loadWiktionaryPage has displayed).             *)
THEOREM PathsAreRoutes == PageSpec => []PathIsRoute
<1>1. PageInv => PathIsRoute
  BY DEF PageInv, RouteOf, PathIsRoute
<1> QED BY <1>1, PageInvariant, PTL

-----------------------------------------------------------------------------
(* The overlay of the countdown.  It is up exactly while the room counts;  *)
(* a host's room counts what is left of its interval, and nobody else has  *)
(* one: a room is left only where nothing covers the page.                 *)
OverlayInv ==
  /\ overlay <=> room.count # Off
  /\ room.count # Off => room.started
  /\ ticks \in Nat
  /\ role = "host"  => room.count = IF ticks > 0 THEN ticks ELSE Off
  /\ role = "guest" => room.count = Off \/ room.count > 0
  /\ role \notin {"host", "guest"} => room.count = Off
  /\ ticks > 0 => role = "host"

LEMMA OverlayInitial == PageInit => OverlayInv
BY DEF PageInit, NoRoom, OverlayInv

(* A change of the room that lets its countdown be.                        *)
LEMMA StillCounting ==
  ASSUME PageTypeOK, OverlayInv, NEW g, NEW r, Told(g, r),
         r.started = room.started, r.count = room.count, UNCHANGED <<role, ticks>>
  PROVE  OverlayInv' /\ room'.count = room.count
<1>1. room'.count = room.count /\ room'.started = room.started
  BY DEF Told
<1>2. overlay' = overlay
  BY DEF Told, OverlayInv, PageTypeOK
<1> QED BY <1>1, <1>2 DEF OverlayInv

LEMMA HallKept ==
  ASSUME OverlayInv, UNCHANGED <<role, room, ticks, overlay>>
  PROVE  OverlayInv' /\ room'.count = room.count
BY DEF OverlayInv

(* Leaving, which only a page that is not covered can.                     *)
LEMMA LeavingKept ==
  ASSUME OverlayInv, ~overlay, Left, UNCHANGED <<ticks, overlay>>
  PROVE  OverlayInv'
BY DEF OverlayInv, Left, NoRoom, Off

LEMMA TickCounts ==
  ASSUME PageTypeOK, OverlayInv, CountdownTick
  PROVE  OverlayInv' /\ room'.count < room.count /\ room'.count \in Int
<1> DEFINE left == (IF role = "guest" THEN room.count ELSE ticks) - 1
           r == IF left = 0 THEN Begun([room EXCEPT !.count = left]) ELSE [room EXCEPT !.count = left]
<1>1. room.count > 0 /\ room.started /\ left = room.count - 1 /\ room.count \in Int /\ UNCHANGED role
  <2>1. room.count \in Int /\ ticks \in Nat /\ UNCHANGED role
    BY DEF CountdownTick, OverlayInv, PageTypeOK, RoomOK
  <2>2. room.count > 0
    BY <2>1 DEF CountdownTick, OverlayInv
  <2>3. room.started
    BY <2>2 DEF OverlayInv, Off
  <2>4. CASE role = "guest"
    BY <2>1, <2>2, <2>3, <2>4
  <2>5. CASE role # "guest"
    <3>1. ticks > 0 /\ room.count = ticks
      BY <2>5 DEF CountdownTick, OverlayInv
    <3> QED BY <2>1, <2>2, <2>3, <2>5, <3>1
  <2> QED BY <2>4, <2>5
<1>2. r.started = room.started /\ r.count = IF left = 0 THEN Off ELSE left
  BY DEF Begun, PageTypeOK, RoomOK
<1>3. Told(game, r)
  BY DEF CountdownTick, Changed
<1>4. room' = r /\ overlay' = (r.count # Off)
  BY <1>1, <1>2, <1>3 DEF Told
<1>5. room'.started /\ room'.count = IF left = 0 THEN Off ELSE left
  BY <1>1, <1>2, <1>4
<1>6. \/ role = "host" /\ ticks > 0 /\ ticks' = ticks - 1 /\ left = ticks - 1
      \/ role = "guest" /\ ticks = 0 /\ ticks' = ticks
  BY <1>1 DEF CountdownTick, OverlayInv
<1> HIDE DEF left, r
<1>7. room'.count < room.count /\ room'.count \in Int
  BY <1>1, <1>5 DEF Off
<1>8. overlay' <=> room'.count # Off
  BY <1>4
<1>9. OverlayInv'
  <2>1. CASE role = "host" /\ ticks > 0 /\ ticks' = ticks - 1 /\ left = ticks - 1
    BY <2>1, <1>1, <1>5, <1>8 DEF OverlayInv, Off
  <2>2. CASE role = "guest" /\ ticks = 0 /\ ticks' = ticks
    BY <2>2, <1>1, <1>5, <1>8 DEF OverlayInv, Off
  <2> QED BY <1>6, <2>1, <2>2
<1> QED BY <1>7, <1>9

LEMMA OverlayStep ==
  ASSUME PageTypeOK, OverlayInv, PageNext
  PROVE  OverlayInv' /\ (overlay => room'.count <= room.count)
<1> DEFINE Fine == OverlayInv' /\ (overlay => room'.count <= room.count)
<1> SUFFICES Fine
  OBVIOUS
<1>1. room.count \in Int
  BY DEF PageTypeOK, RoomOK
<1>2. ASSUME UNCHANGED <<role, room, ticks, overlay>> PROVE Fine
  BY <1>1, <1>2, HallKept
<1>3. ASSUME NEW g, NEW r, Told(g, r), r.started = room.started, r.count = room.count,
             UNCHANGED <<role, ticks>>
      PROVE  Fine
  BY <1>1, <1>3, StillCounting
<1>4. ASSUME NEW r, Changed(r), r.started = room.started, r.count = room.count,
             UNCHANGED <<role, ticks>>
      PROVE  Fine
  BY <1>3, <1>4 DEF Changed
<1>5. ASSUME ~overlay, Left, UNCHANGED <<ticks, overlay>> PROVE Fine
  BY <1>5, LeavingKept
<1>6. ASSUME ~overlay, UNCHANGED <<ticks>>, OverlayInv' PROVE Fine
  BY <1>6
<1> HIDE DEF Fine
<1>7. ASSUME NEW w \in Word, ClickLink(w) PROVE Fine
  <2> DEFINE r == [room EXCEPT !.done = @ \cup ({"me"} \cap room.players)]
  <2>1. r.started = room.started /\ r.count = room.count
    BY DEF PageTypeOK, RoomOK
  <2>2. UNCHANGED <<role, ticks>>
    BY <1>7 DEF ClickLink
  <2>3. \/ Told(Pushed(w), r)
        \/ UNCHANGED <<room, overlay>>
        \/ Told([Pushed(w) EXCEPT !.current = w], room)
    BY <1>7 DEF ClickLink
  <2> HIDE DEF r
  <2> QED BY <2>1, <2>2, <2>3, <1>2, <1>3
<1>8. CASE Alone
  <2>1. CASE GoHome
    <3>1. ~overlay /\ UNCHANGED <<ticks, overlay>> /\ (Left \/ UNCHANGED <<role, room>>)
      BY <2>1 DEF GoHome, Free
    <3> QED BY <3>1, <1>2, <1>5
  <2>2. ASSUME UNCHANGED hall PROVE Fine
    BY <2>2, <1>2 DEF hall
  <2>3. /\ StartDailyChallenge => UNCHANGED hall
        /\ ToggleDebug => UNCHANGED hall
        /\ \A w : StartPracticeMode(w) => UNCHANGED hall
        /\ \A b : PracticeAnswer(b) => UNCHANGED hall
        /\ \A w : DebugNavigate(w) => UNCHANGED hall
        /\ \A i : BackTo(i) => UNCHANGED hall
        /\ \A i, ok : LoadAnswer(i, ok) => UNCHANGED hall
        /\ \A s : ShowScreen(s) => UNCHANGED hall
        /\ \A s : CloseVictory(s) => UNCHANGED hall
    BY Zenon
    DEF StartDailyChallenge, ToggleDebug, StartPracticeMode, PracticeAnswer, DebugNavigate,
        BackTo, LoadAnswer, ShowScreen, CloseVictory
  <2>4. GoHome \/ UNCHANGED hall \/ \E w \in Word : ClickLink(w)
    BY <1>8, <2>3 DEF Alone
  <2> QED BY <1>7, <2>1, <2>2, <2>4
<1>9. ASSUME ToggleMultiplayer \/ GenerateJoinCode \/ JoinCodeMade PROVE Fine
  BY <1>9, <1>2 DEF ToggleMultiplayer, GenerateJoinCode, JoinCodeMade, Joined, hall
<1>10. CASE CreateRoom
  <2>1. /\ ~overlay /\ role = "none" /\ UNCHANGED <<ticks, overlay>>
        /\ role' = "host" /\ room' = [NoRoom EXCEPT !.players = {"me"}]
    BY <1>10 DEF CreateRoom, Free
  <2>2. room'.count = Off
    BY <2>1 DEF NoRoom
  <2>3. OverlayInv'
    BY <2>1, <2>2 DEF OverlayInv
  <2> QED BY <2>1, <2>3, <1>6
<1>11. CASE LeaveLobby
  <2>1. ~overlay /\ UNCHANGED <<ticks, overlay>> /\ Left
    BY <1>11 DEF LeaveLobby, Free
  <2> QED BY <2>1, <1>5
<1>12. ASSUME NEW words \in Choice, NEW phase \in {"lobby", "countdown", "race"}, CompleteJoin(words, phase)
       PROVE  Fine
  <2> DEFINE r == [NoRoom EXCEPT !.players = {"me", "other"}, !.words = words,
                                 !.started = phase # "lobby",
                                 !.count = IF phase = "countdown" THEN Count ELSE Off]
  <2>1. ~overlay /\ role = "none" /\ UNCHANGED ticks /\ role' = "guest" /\ Told(game, r)
    BY <1>12 DEF CompleteJoin, Free
  <2>2. r.started = (phase # "lobby") /\ r.count = IF phase = "countdown" THEN Count ELSE Off
    BY DEF NoRoom
  <2>3. room' = r /\ overlay' = IF r.started THEN r.count # Off ELSE overlay
    BY <2>1 DEF Told
  <2> HIDE DEF r
  <2>4. Count > 0 /\ Count # Off
    BY RacePageAssumption DEF Off
  <2>5. OverlayInv'
    BY <2>1, <2>2, <2>3, <2>4 DEF OverlayInv
  <2> QED BY <2>1, <2>5, <1>6
<1>13. ASSUME NEW words \in Choice, SetChallengeWords(words) PROVE Fine
  <2> DEFINE r == [room EXCEPT !.words = words]
  <2>1. r.started = room.started /\ r.count = room.count
    BY DEF PageTypeOK, RoomOK
  <2>2. Changed(r) /\ UNCHANGED <<role, ticks>>
    BY <1>13 DEF SetChallengeWords
  <2> QED BY <2>1, <2>2, <1>4
<1>14. CASE AcceptPlayer
  <2> DEFINE r == [room EXCEPT !.players = @ \cup {"other"}, !.ready = FALSE]
  <2>1. r.started = room.started /\ r.count = room.count
    BY DEF PageTypeOK, RoomOK
  <2>2. Changed(r) /\ UNCHANGED <<role, ticks>>
    BY <1>14 DEF AcceptPlayer
  <2> HIDE DEF r
  <2> QED BY <2>1, <2>2, <1>4
<1>15. CASE AddFakePlayer
  <2> DEFINE r == [room EXCEPT !.players = @ \cup {"bot"}]
  <2>1. r.started = room.started /\ r.count = room.count
    BY DEF PageTypeOK, RoomOK
  <2>2. Changed(r) /\ UNCHANGED <<role, ticks>>
    BY <1>15 DEF AddFakePlayer
  <2> HIDE DEF r
  <2> QED BY <2>1, <2>2, <1>4
<1>16. CASE HostStarts
  <2> DEFINE r == [room EXCEPT !.started = TRUE, !.count = Count]
  <2>1. ~overlay /\ UNCHANGED role /\ Told(game, r)
    BY <1>16 DEF HostStarts, Changed, OverlayInv
  <2>2. r.started /\ r.count = Count
    BY DEF PageTypeOK, RoomOK
  <2>3. room' = r /\ overlay' = (r.count # Off)
    BY <2>1, <2>2 DEF Told
  <2> HIDE DEF r
  <2>4. \/ ticks' = Count /\ role = "host"
        \/ ticks' = ticks /\ role = "guest"
    BY <1>16 DEF HostStarts, Sections
  <2>5. Count \in Nat /\ Count > 0 /\ Count # Off
    BY RacePageAssumption DEF Off
  <2>6. OverlayInv'
    BY <2>1, <2>2, <2>3, <2>4, <2>5 DEF OverlayInv
  <2> QED BY <2>1, <2>6 DEF Fine
<1>17. CASE CountdownTick
  <2>1. OverlayInv' /\ room'.count < room.count /\ room'.count \in Int
    BY <1>17, TickCounts
  <2> QED BY <1>1, <2>1 DEF Fine
<1>18. CASE StartFakePlayers
  <2>1. UNCHANGED <<overlay, role, ticks>>
    BY <1>18 DEF StartFakePlayers
  <2>2. room' = room \/ room' = [room EXCEPT !.done = @ \ {"bot"}]
    BY <1>18 DEF StartFakePlayers
  <2>3. room'.started = room.started /\ room'.count = room.count
    BY <2>2 DEF PageTypeOK, RoomOK
  <2>4. OverlayInv'
    BY <2>1, <2>3 DEF OverlayInv
  <2> QED BY <1>1, <2>3, <2>4 DEF Fine
<1>19. ASSUME NEW r, OtherReports(r) PROVE Fine
  <2>1. r.started = room.started /\ r.count = room.count
    BY <1>19 DEF OtherReports, PageTypeOK, RoomOK
  <2>2. Changed(r) /\ UNCHANGED <<role, ticks>>
    BY <1>19 DEF OtherReports
  <2> QED BY <2>1, <2>2, <1>4
<1>20. ASSUME NEW finish \in BOOLEAN, SimulateMove(finish) PROVE Fine
  <2> DEFINE r == [room EXCEPT !.done = IF finish THEN @ \cup {"bot"} ELSE @]
  <2>1. r.started = room.started /\ r.count = room.count
    BY DEF PageTypeOK, RoomOK
  <2>2. UNCHANGED <<role, ticks>> /\ (Changed(r) \/ UNCHANGED <<overlay, room>>)
    BY <1>20 DEF SimulateMove
  <2> HIDE DEF r
  <2> QED BY <2>1, <2>2, <1>2, <1>4
<1>21. ASSUME NEW stay \in BOOLEAN, CloseResults(stay) PROVE Fine
  BY <1>21, <1>2, <1>5 DEF CloseResults
<1>22. CASE Together
  <2>1. CASE ToggleMultiplayer \/ CreateRoom \/ GenerateJoinCode \/ JoinCodeMade \/ LeaveLobby
    BY <2>1, <1>9, <1>10, <1>11
  <2>2. CASE AcceptPlayer \/ AddFakePlayer \/ HostStarts \/ CountdownTick \/ StartFakePlayers
    BY <2>2, <1>14, <1>15, <1>16, <1>17, <1>18
  <2>3. CASE \E r : OtherReports(r)
    BY <2>3, <1>19
  <2> QED BY <2>1, <2>2, <2>3, <1>12, <1>13, <1>20, <1>21, <1>22 DEF Together
<1> QED BY <1>8, <1>22 DEF PageNext, Fine

(* The countdown (handleMultiplayerStateChange, startGame, leave): as long *)
(* as its overlay covers the page a tick is to come, each tick brings the  *)
(* end nearer, nothing puts it off, and no interval outlives its countdown.*)
THEOREM CountdownComesToItsEnd == PageSpec => []Covered /\ CountsDown
<1>1. OverlayInv => Covered
  BY DEF OverlayInv, Covered, Off
<1>2. PageTypeOK /\ OverlayInv /\ [PageNext]_pageVars => OverlayInv'
  <2>1. ASSUME OverlayInv, UNCHANGED pageVars PROVE OverlayInv'
    BY <2>1 DEF OverlayInv, pageVars
  <2> QED BY <2>1, OverlayStep
<1>3. PageTypeOK /\ OverlayInv /\ [PageNext]_pageVars =>
        [/\ Covered'
         /\ overlay => room'.count <= room.count /\ (CountdownTick => room'.count < room.count)]_pageVars
  <2>1. OverlayInv' => Covered'
    BY <1>1, PTL
  <2> QED BY <1>2, <2>1, OverlayStep, TickCounts
<1>4. PageInv => PageTypeOK
  BY DEF PageInv
<1> QED BY <1>1, <1>2, <1>3, <1>4, OverlayInitial, PageInvariant, PTL DEF PageSpec, CountsDown

-----------------------------------------------------------------------------
(* The random challenge.                                                   *)

Drawable == Ordinary \cap Existing
Draft    == Drawable \cup {Null}
HuntOK(h) ==
  h \in [on : BOOLEAN, mp : BOOLEAN, english : BOOLEAN, attempts : Int,
         start : Draft, target : Draft, blind : BOOLEAN]
Fetch    == [tries : Int, done : BOOLEAN, word : Draft]

InEnglish(h, fs) ==
  h.on /\ h.english /\ ~h.blind =>
    {h.start, h.target, fs[1].word, fs[2].word} \ {Null} \subseteq English

FilledOK(f) ==
  f # <<Null, Null>> =>
    /\ {f[1], f[2]} \subseteq Drawable
    /\ Spelling[f[1]] # Spelling[f[2]]

HuntInv ==
  /\ HuntOK(hunt) /\ fetches \in [{1, 2} -> Fetch] /\ FilledOK(filled)
  /\ InEnglish(hunt, fetches)

LEMMA BothAsking == <<Asking, Asking>> \in [{1, 2} -> Fetch] /\ HuntOK(Idle)
<1>1. Asking \in Fetch
  BY DEF Asking, Fetch, Draft
<1> HIDE DEF Asking
<1>2. <<Asking, Asking>> \in [{1, 2} -> Fetch]
  BY <1>1
<1>3. HuntOK(Idle)
  BY DEF HuntOK, Idle, Draft
<1> QED BY <1>2, <1>3

LEMMA TryKept ==
  ASSUME HuntInv, NEW i \in {1, 2}, NEW t, NEW down, Try(i, t, down)
  PROVE  HuntInv'
<1> DEFINE b == hunt.blind \/ (hunt.english /\ Valid(t, down) /\ "english" \in down)
<1> DEFINE f == Tried(fetches[i], t, down)
<1>1. /\ hunt.on /\ fetches' = [fetches EXCEPT ![i] = f] /\ hunt' = [hunt EXCEPT !.blind = b]
      /\ filled' = filled
  <2>1. hunt.on /\ filled' = filled
    BY DEF Try
  <2>2. fetches' = [fetches EXCEPT ![i] = f]
    BY DEF Try
  <2>3. hunt' = [hunt EXCEPT !.blind = b]
    BY Zenon DEF Try
  <2> QED BY <2>1, <2>2, <2>3
<1>2. Valid(t, down) => t \in Drawable
  BY DEF Valid, WordExists, Drawable
<1>3. fetches[i] \in Fetch /\ fetches \in [{1, 2} -> Fetch] /\ HuntOK(hunt)
  BY DEF HuntInv
<1>4. f \in Fetch
  <2>1. /\ fetches[i].tries \in Int /\ fetches[i].done \in BOOLEAN /\ fetches[i].word \in Draft
        /\ fetches[i].tries + 1 \in Int /\ (Valid(t, down) => t \in Draft)
    BY <1>2, <1>3 DEF Fetch, Draft
  <2>2. [fetches[i] EXCEPT !.done = TRUE] \in Fetch /\ [fetches[i] EXCEPT !.tries = @ + 1] \in Fetch
    BY <1>3, <2>1 DEF Fetch
  <2>3. Valid(t, down) => [fetches[i] EXCEPT !.done = TRUE, !.word = t] \in Fetch
    BY <1>3, <2>1 DEF Fetch
  <2> QED BY <2>2, <2>3 DEF Tried
<1>5. f.word = fetches[i].word \/ (f.word = t /\ Valid(t, down))
  BY <1>3 DEF Fetch, Tried
<1>6. b \in BOOLEAN
  BY <1>3 DEF HuntOK
<1>7. hunt.english /\ ~b /\ Valid(t, down) => t \in English
  BY DEF Valid, EnglishSection
<1>8. ~b => ~hunt.blind
  OBVIOUS
<1> HIDE DEF f, b
<1>9. HuntOK(hunt') /\ fetches' \in [{1, 2} -> Fetch] /\ FilledOK(filled')
  BY <1>1, <1>3, <1>4, <1>6 DEF HuntOK, HuntInv
<1>10. InEnglish(hunt', fetches')
  <2>1. /\ hunt'.on = hunt.on /\ hunt'.english = hunt.english /\ hunt'.blind = b
        /\ hunt'.start = hunt.start /\ hunt'.target = hunt.target
    BY <1>1, <1>3 DEF HuntOK
  <2>2. \A j \in {1, 2} : fetches'[j].word = fetches[j].word
                          \/ (fetches'[j].word = t /\ Valid(t, down))
    BY <1>1, <1>3, <1>5
  <2> SUFFICES ASSUME hunt.english, ~b
               PROVE  {hunt.start, hunt.target, fetches'[1].word, fetches'[2].word} \ {Null}
                        \subseteq English
    BY <2>1 DEF InEnglish
  <2>3. {hunt.start, hunt.target, fetches[1].word, fetches[2].word} \ {Null} \subseteq English
    BY <1>1, <1>8 DEF HuntInv, InEnglish
  <2>4. \A j \in {1, 2} : fetches'[j].word = Null \/ fetches'[j].word \in English
    BY <1>7, <2>2, <2>3
  <2> QED BY <2>3, <2>4
<1> QED BY <1>9, <1>10 DEF HuntInv

(* What is held on to has been drawn.                                      *)
LEMMA KeptDrawn ==
  ASSUME HuntInv, NEW h, h = Kept(fetches[1].word, fetches[2].word)
  PROVE  /\ HuntOK(h) /\ InEnglish(h, <<Asking, Asking>>)
         /\ h.mp = hunt.mp
<1> DEFINE v == fetches[1].word
<1> DEFINE w == fetches[2].word
<1>1. HuntOK(hunt) /\ v \in Draft /\ w \in Draft
  BY DEF HuntInv, Fetch
<1>2. h \in {hunt, [hunt EXCEPT !.start = v, !.target = w],
             [hunt EXCEPT !.start = v], [hunt EXCEPT !.target = w]}
  BY DEF Kept
<1>3. InEnglish(hunt, fetches)
  BY DEF HuntInv
<1> HIDE DEF v, w
<1>4. HuntOK(h) /\ h.mp = hunt.mp
  BY <1>1, <1>2 DEF HuntOK
<1>5. /\ h.on = hunt.on /\ h.english = hunt.english /\ h.blind = hunt.blind
      /\ h.start \in {hunt.start, v} /\ h.target \in {hunt.target, w}
  BY <1>1, <1>2 DEF HuntOK
<1>6. InEnglish(h, <<Asking, Asking>>)
  BY <1>3, <1>5 DEF InEnglish, Asking, v, w
<1> QED BY <1>4, <1>6

LEMMA DrawnKept == ASSUME HuntInv, Drawn PROVE HuntInv'
<1> DEFINE h == Kept(fetches[1].word, fetches[2].word)
<1> DEFINE good == Differ(h.start, h.target)
<1>1. HuntOK(h) /\ InEnglish(h, <<Asking, Asking>>)
  BY KeptDrawn
<1>2. CASE ~good /\ ~h.mp /\ h.attempts < MaxAttempts
  <2>1. /\ hunt' = [h EXCEPT !.attempts = @ + 1] /\ fetches' = <<Asking, Asking>>
        /\ filled' = filled
    BY <1>2 DEF Drawn
  <2> HIDE DEF h
  <2>2. /\ HuntOK(hunt') /\ hunt'.on = h.on /\ hunt'.english = h.english /\ hunt'.blind = h.blind
        /\ hunt'.start = h.start /\ hunt'.target = h.target
    BY <1>1, <2>1 DEF HuntOK
  <2>3. InEnglish(hunt', fetches')
    BY <1>1, <2>1, <2>2 DEF InEnglish
  <2> QED BY <2>1, <2>2, <2>3, BothAsking DEF HuntInv
<1>3. CASE ~(~good /\ ~h.mp /\ h.attempts < MaxAttempts)
  <2>1. /\ hunt' = Idle /\ fetches' = <<Asking, Asking>>
        /\ filled' = IF good THEN <<h.start, h.target>> ELSE filled
    BY <1>3 DEF Drawn
  <2> HIDE DEF h
  <2>2. good => {h.start, h.target} \subseteq Drawable /\ Spelling[h.start] # Spelling[h.target]
    BY <1>1 DEF Differ, HuntOK, Draft
  <2>3. FilledOK(filled')
    BY <2>1, <2>2 DEF FilledOK, HuntInv
  <2>4. InEnglish(hunt', fetches')
    BY <2>1 DEF InEnglish, Idle
  <2> QED BY <2>1, <2>3, <2>4, BothAsking DEF HuntInv
<1> QED BY <1>2, <1>3

LEMMA HuntKept ==
  ASSUME HuntInv, NEW mp \in BOOLEAN, NEW english \in BOOLEAN, Hunt(mp, english)
  PROVE  HuntInv'
<1>1. /\ hunt' = [Idle EXCEPT !.on = TRUE, !.mp = mp, !.english = english, !.attempts = 1]
      /\ fetches' = <<Asking, Asking>> /\ filled' = filled
  BY DEF Hunt
<1>2. HuntOK(hunt') /\ hunt'.start = Null /\ hunt'.target = Null
  <2>1. hunt' = [on |-> TRUE, mp |-> mp, english |-> english, attempts |-> 1,
                 start |-> Null, target |-> Null, blind |-> FALSE]
    BY <1>1 DEF Idle
  <2>2. Null \in Draft
    BY DEF Draft
  <2> QED BY <2>1, <2>2 DEF HuntOK
<1>3. InEnglish(hunt', fetches')
  BY <1>1, <1>2 DEF InEnglish, Asking
<1> QED BY <1>1, <1>2, <1>3, BothAsking DEF HuntInv

LEMMA HuntInvariant == HuntSpec => []HuntInv
<1>1. HuntInit => HuntInv
  <2> SUFFICES ASSUME HuntInit PROVE HuntInv
    OBVIOUS
  <2>1. hunt = Idle /\ fetches = <<Asking, Asking>> /\ filled = <<Null, Null>>
    BY DEF HuntInit
  <2>2. FilledOK(filled) /\ InEnglish(hunt, fetches)
    BY <2>1 DEF FilledOK, InEnglish, Idle
  <2> QED BY <2>1, <2>2, BothAsking DEF HuntInv
<1>2. HuntInv /\ [HuntNext]_huntVars => HuntInv'
  <2>1. ASSUME HuntInv, UNCHANGED huntVars PROVE HuntInv'
    BY <2>1 DEF HuntInv, huntVars
  <2> QED BY <2>1, TryKept, DrawnKept, HuntKept DEF HuntNext, HuntStep
<1> QED BY <1>1, <1>2, PTL DEF HuntSpec

(* "Keep trying until we get two different valid words": what is put in    *)
(* for the user has been drawn and differs, whatever attempts and failures *)
(* came before, and with English asked for nothing else is held on to      *)
(* (getRandomChallenge, fetchRandomWord).  This is the safety that         *)
(* HuntSettles asks for.                                                   *)
THEOREM ChallengeIsSound == HuntSpec => []HuntSound
<1>1. HuntInv => HuntSound
  BY DEF HuntInv, FilledOK, InEnglish, Drawable, Drafts, HuntSound
<1> QED BY <1>1, HuntInvariant, PTL

(* How far the handler is from its end.                                    *)
EffortInv ==
  /\ \A i \in {1, 2} : fetches[i].tries \in 0..MaxTries
  /\ hunt.on => hunt.attempts \in 1..MaxAttempts

LEMMA Product == ASSUME NEW a \in Int, NEW b \in Int PROVE a * b \in Int
OBVIOUS

LEMMA AskedAgain ==
  ASSUME HuntInv, EffortInv, hunt.on
  PROVE  LeftToAsk \in Nat
<1>1. MaxTries \in Nat /\ MaxAttempts - hunt.attempts \in Nat /\ AskedPerAttempt + 1 \in Nat
  BY RaceWordsAssumption DEF EffortInv, AskedPerAttempt
<1>2. \A i \in {1, 2} : TriesLeft(fetches[i]) \in Nat
  BY <1>1 DEF EffortInv, HuntInv, Fetch, TriesLeft
<1>3. (MaxAttempts - hunt.attempts) * (AskedPerAttempt + 1) \in Nat
  BY <1>1
<1> QED BY <1>2, <1>3 DEF LeftToAsk

LEMMA LessIsLeft ==
  ASSUME HuntInv, EffortInv, HuntStep
  PROVE  EffortInv' /\ (~hunt'.on \/ LeftToAsk' < LeftToAsk)
<1>1. /\ MaxTries \in Nat /\ MaxAttempts \in Nat \ {0} /\ HuntOK(hunt)
      /\ fetches \in [{1, 2} -> Fetch]
      /\ \A i \in {1, 2} : fetches[i].tries \in 0..MaxTries /\ fetches[i].done \in BOOLEAN
  BY RaceWordsAssumption DEF HuntInv, EffortInv, Fetch
<1>2. hunt.on /\ hunt.attempts \in 1..MaxAttempts
  BY DEF HuntStep, Try, Drawn, EffortInv
<1> DEFINE k == AskedPerAttempt + 1
           m == MaxAttempts - hunt.attempts
<1>3. AskedPerAttempt = 2 * (MaxTries + 1) /\ k \in Nat /\ m \in Nat /\ m * k \in Int
  BY <1>1, <1>2, Product DEF AskedPerAttempt
<1>4. \A i \in {1, 2} : TriesLeft(fetches[i]) \in 0..MaxTries + 1
  BY <1>1 DEF TriesLeft
<1>5. LeftToAsk = TriesLeft(fetches[1]) + TriesLeft(fetches[2]) + m * k
  BY DEF LeftToAsk
<1>6. ASSUME NEW i \in {1, 2}, NEW t, NEW down, Try(i, t, down)
      PROVE  EffortInv' /\ LeftToAsk' < LeftToAsk
  <2> DEFINE f == Tried(fetches[i], t, down)
  <2>1. fetches' = [fetches EXCEPT ![i] = f] /\ ~fetches[i].done
    BY <1>6 DEF Try
  <2>2. hunt'.attempts = hunt.attempts
    <3> DEFINE b == hunt.blind \/ (hunt.english /\ Valid(t, down) /\ "english" \in down)
    <3>1. hunt' = [hunt EXCEPT !.blind = b]
      BY <1>6, Zenon DEF Try
    <3> HIDE DEF b
    <3> QED BY <3>1, <1>1 DEF HuntOK
  <2>3. f.tries \in 0..MaxTries /\ f.done \in BOOLEAN
        /\ (f.done \/ f.tries = fetches[i].tries + 1)
    <3> DEFINE g == fetches[i]
    <3>1. g \in Fetch /\ g.tries \in 0..MaxTries /\ g.tries \in Int
      BY <1>1
    <3>2. f = Tried(g, t, down)
      OBVIOUS
    <3> HIDE DEF f, g
    <3>3. CASE g.tries >= MaxTries
      <4>1. f = [g EXCEPT !.done = TRUE]
        BY <3>2, <3>3 DEF Tried
      <4> QED BY <3>1, <4>1 DEF Fetch
    <3>4. CASE ~(g.tries >= MaxTries) /\ ~Valid(t, down)
      <4>1. f = [g EXCEPT !.tries = g.tries + 1]
        BY <3>2, <3>4 DEF Tried
      <4>2. f.tries = g.tries + 1 /\ f.done = g.done
        BY <3>1, <4>1 DEF Fetch
      <4> QED BY <1>1, <3>1, <3>4, <4>2 DEF Fetch, g
    <3>5. CASE ~(g.tries >= MaxTries) /\ Valid(t, down)
      <4>1. f = [g EXCEPT !.done = TRUE, !.word = t]
        BY <3>2, <3>5 DEF Tried
      <4> QED BY <3>1, <4>1 DEF Fetch
    <3> QED BY <3>3, <3>4, <3>5
  <2> HIDE DEF f
  <2>4. \A j \in {1, 2} : fetches'[j] = IF j = i THEN f ELSE fetches[j]
    BY <1>1, <2>1
  <2>5. EffortInv'
    BY <1>1, <1>2, <2>2, <2>3, <2>4 DEF EffortInv
  <2>6. TriesLeft(f) < TriesLeft(fetches[i]) /\ TriesLeft(f) \in Int
    BY <1>1, <2>1, <2>3 DEF TriesLeft
  <2>7. LeftToAsk' = TriesLeft(fetches'[1]) + TriesLeft(fetches'[2]) + m * k
    BY <2>2 DEF LeftToAsk, TriesLeft, AskedPerAttempt
  <2> HIDE DEF m, k
  <2> QED BY <1>3, <1>4, <1>5, <2>4, <2>5, <2>6, <2>7
<1>7. CASE Drawn
  <2> DEFINE h == Kept(fetches[1].word, fetches[2].word)
             good == Differ(h.start, h.target)
  <2>1. \A i \in {1, 2} : fetches'[i] = Asking
    BY <1>7 DEF Drawn
  <2>2. h.attempts = hunt.attempts /\ HuntOK(h)
    <3>1. HuntOK(h)
      BY KeptDrawn
    <3>2. h.attempts = hunt.attempts
      BY <1>1 DEF Kept, HuntOK
    <3> QED BY <3>1, <3>2
  <2>3. \/ h.attempts < MaxAttempts /\ hunt' = [h EXCEPT !.attempts = @ + 1]
        \/ hunt' = Idle
    BY <1>7 DEF Drawn
  <2> HIDE DEF h
  <2>4. CASE hunt' = Idle
    BY <1>1, <2>1, <2>4 DEF EffortInv, Asking, Idle
  <2>5. CASE h.attempts < MaxAttempts /\ hunt' = [h EXCEPT !.attempts = @ + 1]
    <3>1. hunt'.attempts = hunt.attempts + 1 /\ m >= 1
      BY <1>1, <1>2, <2>2, <2>5 DEF HuntOK
    <3>2. EffortInv'
      BY <1>1, <1>2, <2>1, <2>2, <2>5, <3>1 DEF EffortInv, Asking
    <3>3. \A i \in {1, 2} : TriesLeft(fetches'[i]) = MaxTries + 1
      BY <1>1, <2>1 DEF TriesLeft, Asking
    <3>4. LeftToAsk' = TriesLeft(fetches'[1]) + TriesLeft(fetches'[2]) + (m - 1) * k
      <4>1. MaxAttempts - hunt'.attempts = m - 1
        BY <1>1, <1>2, <3>1
      <4> QED BY <4>1 DEF LeftToAsk, TriesLeft, AskedPerAttempt
    <3> HIDE DEF m
    <3>5. (m - 1) * k = m * k - k
      BY <1>3
    <3>6. k = 2 * (MaxTries + 1) + 1
      BY <1>3
    <3>7. TriesLeft(fetches[1]) >= 0 /\ TriesLeft(fetches[2]) >= 0
          /\ TriesLeft(fetches[1]) \in Int /\ TriesLeft(fetches[2]) \in Int
      BY <1>1, <1>4
    <3> DEFINE a == m * k
    <3>8. a \in Int
      BY <1>3
    <3>9. LeftToAsk' = MaxTries + 1 + (MaxTries + 1) + (a - k) /\ LeftToAsk = TriesLeft(fetches[1]) + TriesLeft(fetches[2]) + a
      BY <3>3, <3>4, <3>5, <1>5
    <3> HIDE DEF a, k
    <3>10. LeftToAsk' < LeftToAsk
      BY <1>1, <1>3, <3>6, <3>7, <3>8, <3>9
    <3> QED BY <3>2, <3>10
  <2> QED BY <2>3, <2>4, <2>5
<1> QED BY <1>6, <1>7 DEF HuntStep

(* fetchRandomWord and getRandomChallenge: whatever the server answers,    *)
(* every answer leaves less to be asked, so the handler ends.  This is the *)
(* rest of the safety that HuntSettles asks for.                           *)
THEOREM HuntGetsShorter == HuntSpec => HuntShortens
<1>1. HuntInit => EffortInv
  BY RaceWordsAssumption DEF HuntInit, EffortInv, Idle, Asking
<1>2. HuntInv /\ EffortInv /\ [HuntNext]_huntVars =>
        /\ EffortInv'
        /\ [hunt.on => LeftToAsk \in Nat /\ (~hunt'.on \/ LeftToAsk' < LeftToAsk)]_huntVars
  <2> SUFFICES ASSUME HuntInv, EffortInv, [HuntNext]_huntVars
               PROVE  /\ EffortInv'
                      /\ [hunt.on => LeftToAsk \in Nat /\ (~hunt'.on \/ LeftToAsk' < LeftToAsk)]_huntVars
    OBVIOUS
  <2>1. CASE UNCHANGED huntVars
    BY <2>1 DEF EffortInv, huntVars
  <2>2. CASE HuntStep
    BY <2>2, LessIsLeft, AskedAgain
  <2>3. ASSUME NEW mp \in BOOLEAN, NEW english \in BOOLEAN, Hunt(mp, english)
        PROVE  EffortInv' /\ ~hunt.on
    <3>1. ~hunt.on /\ hunt'.attempts = 1 /\ fetches' = <<Asking, Asking>>
      BY <2>3 DEF Hunt, Idle
    <3>2. \A i \in {1, 2} : fetches'[i].tries = 0
      BY <3>1 DEF Asking
    <3> QED BY <3>1, <3>2, RaceWordsAssumption DEF EffortInv
  <2> QED BY <2>1, <2>2, <2>3 DEF HuntNext
<1> QED BY <1>1, <1>2, HuntInvariant, PTL DEF HuntSpec, HuntShortens

-----------------------------------------------------------------------------
(* What moves on a Hypnospace page.                                        *)

TextOK(t) ==
  t \in [anim : {0, Typing, Marquee}, phase : Nat, shown : 0..Length, timer : Int,
         offset : Int, coloured : BOOLEAN, mix : 0..Full, dir : Int]

(* A marquee keeps between the edge of the page and its own width.         *)
Running(t) ==
  /\ t.offset <= PageWidth
  /\ t.anim = Marquee => t.phase = TextWidth /\ t.offset >= -TextWidth

GifOK(g) ==
  /\ g \in [mode : {-2, -1, 0, 1}, frame : Int, moving : BOOLEAN, hover : BOOLEAN,
            held : BOOLEAN, i : Int, acc : Nat, fade : Nat]
  /\ Frames > 0 => g.i \in 0..Frames - 1
  /\ g.acc < FrameTime

(* A frame of the display is shorter than a whole fade.                    *)
ShortSteps == \A dt \in Step : Speed * dt <= 2 * Full

ElementsInv ==
  /\ TextOK(text) /\ Running(text) /\ GifOK(gif)
  /\ ShortSteps => gif.fade < 2 * Full

LEMMA Sizes ==
  /\ Length \in Nat \ {0} /\ TextWidth \in Nat \ {0} /\ Delay \in Nat \ {0} /\ Hold \in Nat \ {0}
  /\ PageWidth \in Nat \ {0} /\ Full \in Nat \ {0} /\ Speed \in Nat \ {0}
  /\ FrameTime \in Nat \ {0} /\ Frames \in Nat /\ Step \subseteq Nat \ {0}
BY HspElementsAssumption

LEMMA Rest ==
  ASSUME NEW a \in Nat, NEW d \in Nat \ {0}
  PROVE  /\ a \div d \in Nat /\ a - (a \div d) * d \in Nat /\ a - (a \div d) * d < d
         /\ (a \div d = 0 => a < d)
OBVIOUS

LEMMA TypewriterKept ==
  ASSUME NEW t, TextOK(t), t.anim = Typing, Running(t)
  PROVE  TextOK(Typewriter(t)) /\ Running(Typewriter(t))
<1>1. t.phase \in Nat /\ Length \in Nat /\ Hold \in Int /\ Delay \in Int
  BY Sizes DEF TextOK
<1>5. t.anim # Marquee
  BY DEF Typing, Marquee
<1> DEFINE next == t.phase + 1
<1> DEFINE left == Length - (t.phase - Length)
<1> DEFINE rest == IF left > 0 THEN left ELSE 0
<1>2. CASE t.phase < Length
  <2>1. Typewriter(t) = [t EXCEPT !.phase = next, !.shown = next, !.timer = Delay]
    BY <1>2 DEF Typewriter
  <2>2. next \in Nat /\ next \in 0..Length
    BY <1>1, <1>2
  <2> HIDE DEF next
  <2>3. TextOK(Typewriter(t)) /\ Typewriter(t).anim = t.anim /\ Typewriter(t).offset = t.offset
    BY <1>1, <2>1, <2>2 DEF TextOK
  <2> QED BY <1>5, <2>3 DEF Running
<1>3. CASE t.phase = Length
  <2>1. Typewriter(t) = [t EXCEPT !.phase = next, !.timer = Hold]
    BY <1>1, <1>3 DEF Typewriter
  <2>2. next \in Nat
    BY <1>1
  <2> HIDE DEF next
  <2>3. TextOK(Typewriter(t)) /\ Typewriter(t).anim = t.anim /\ Typewriter(t).offset = t.offset
    BY <1>1, <2>1, <2>2 DEF TextOK
  <2> QED BY <1>5, <2>3 DEF Running
<1>4. CASE t.phase > Length
  <2>1. \/ Typewriter(t) = [t EXCEPT !.phase = 0, !.shown = 0, !.timer = Hold]
        \/ Typewriter(t) = [t EXCEPT !.phase = next, !.shown = rest, !.timer = Delay]
    BY <1>1, <1>4 DEF Typewriter
  <2>2. next \in Nat /\ rest \in 0..Length /\ 0 \in 0..Length
    BY <1>1, <1>4
  <2> HIDE DEF next, rest
  <2>a. TextOK([t EXCEPT !.phase = 0, !.shown = 0, !.timer = Hold])
    BY <1>1, <2>2 DEF TextOK
  <2>b. TextOK([t EXCEPT !.phase = next, !.shown = rest, !.timer = Delay])
    BY <1>1, <2>2 DEF TextOK
  <2>c. Typewriter(t).anim = t.anim /\ Typewriter(t).offset = t.offset
    BY <2>1 DEF TextOK
  <2>3. TextOK(Typewriter(t)) /\ Typewriter(t).anim = t.anim /\ Typewriter(t).offset = t.offset
    BY <2>1, <2>a, <2>b, <2>c
  <2> QED BY <1>5, <2>3 DEF Running
<1> QED BY <1>1, <1>2, <1>3, <1>4

LEMMA MovedKept ==
  ASSUME NEW t, TextOK(t), Running(t), NEW dt \in Step
  PROVE  TextOK(Moved(t, dt)) /\ Running(Moved(t, dt))
<1>0. Speed * dt \in Int /\ Speed * dt > 0 /\ PageWidth \in Int /\ PageWidth > 0 /\ TextWidth \in Nat
  <2>1. Speed \in Nat \ {0} /\ dt \in Nat \ {0}
    BY Sizes
  <2> QED BY Sizes, <2>1
<1> DEFINE d == Speed * dt
<1>1. d \in Int /\ d > 0
  BY <1>0
<1>2. CASE t.anim = Typing
  <2> DEFINE w == [t EXCEPT !.timer = @ - d]
  <2>a. Typing # Marquee
    BY DEF Typing, Marquee
  <2>1. Moved(t, dt) = IF w.timer <= 0 THEN Typewriter(w) ELSE w
    <3>1. CASE w.timer <= 0
      BY <1>2, <2>a, <3>1 DEF Moved
    <3>2. CASE ~(w.timer <= 0)
      BY <1>2, <2>a, <3>2 DEF Moved
    <3> QED BY <3>1, <3>2
  <2>2. t.timer - d \in Int
    BY <1>1 DEF TextOK
  <2>3. TextOK(w) /\ w.anim = Typing /\ Running(w)
    <3> HIDE DEF d
    <3> QED BY <1>2, <2>2 DEF TextOK, Running
  <2> HIDE DEF w
  <2> QED BY <2>1, <2>3, TypewriterKept
<1>3. CASE t.anim = Marquee
  <2> DEFINE x == t.offset - d
  <2> DEFINE o == IF x < -t.phase THEN PageWidth ELSE x
  <2>0. t.anim # Typing
    BY <1>3 DEF Typing, Marquee
  <2>1. Moved(t, dt) = [t EXCEPT !.offset = o]
    BY <1>3, <2>0, Zenon DEF Moved
  <2>2. t.offset \in Int /\ t.offset <= PageWidth /\ t.phase = TextWidth
    BY <1>3 DEF TextOK, Running
  <2> HIDE DEF d
  <2>3. o \in Int /\ o <= PageWidth /\ o >= -TextWidth
    BY <1>0, <1>1, <2>2
  <2> HIDE DEF o
  <2> QED BY <2>1, <2>2, <2>3 DEF TextOK, Running
<1>4. CASE t.anim \notin {Typing, Marquee}
  <2>1. Moved(t, dt) = t
    BY <1>4 DEF Moved
  <2> QED BY <2>1
<1> QED BY <1>2, <1>3, <1>4

LEMMA ColouredKept ==
  ASSUME NEW t, TextOK(t), Running(t), NEW dt \in Step
  PROVE  TextOK(Coloured(t, dt)) /\ Running(Coloured(t, dt))
<1> DEFINE m == Clamp(t.mix + t.dir * dt, 0, Full)
<1> DEFINE d == IF m >= Full \/ m <= 0 THEN -t.dir ELSE t.dir
<1>1. t.mix \in Int /\ t.dir \in Int /\ dt \in Int /\ Full \in Nat
  BY Sizes DEF TextOK
<1>2. t.mix + t.dir * dt \in Int
  <2>1. t.dir * dt \in Int
    BY <1>1, Product
  <2> QED BY <1>1, <2>1
<1>3. m \in 0..Full /\ d \in Int
  <2> DEFINE x == t.mix + t.dir * dt
  <2> HIDE DEF x
  <2>0. x \in Int
    BY <1>2 DEF x
  <2>1. m \in 0..Full
    BY <1>1, <2>0 DEF Clamp, x
  <2> QED BY <1>1, <2>1
<1>4. Coloured(t, dt) = IF ~t.coloured THEN t ELSE [t EXCEPT !.mix = m, !.dir = d]
  BY DEF Coloured
<1> HIDE DEF m, d
<1> QED BY <1>3, <1>4 DEF TextOK, Running

LEMMA TickTextKept == ASSUME ElementsInv, NEW dt \in Step, TickText(dt) PROVE ElementsInv'
<1>1. text' \in {Moved(text, dt), Coloured(Moved(text, dt), dt)} /\ gif' = gif
  BY DEF TickText
<1>2. TextOK(Moved(text, dt)) /\ Running(Moved(text, dt))
  BY MovedKept DEF ElementsInv
<1>3. TextOK(text') /\ Running(text')
  BY <1>1, <1>2, ColouredKept
<1> QED BY <1>1, <1>3 DEF ElementsInv

-----------------------------------------------------------------------------
(* A frame of the gif is always one of its frames.                         *)
LEMMA SetFrameKept ==
  ASSUME NEW g, GifOK(g), NEW i \in Int
  PROVE  GifOK(SetFrame(g, i)) /\ SetFrame(g, i).fade = g.fade
<1>1. CASE Frames = 0
  BY <1>1 DEF SetFrame
<1>2. CASE Frames # 0
  <2> DEFINE c == Clamp(i, 0, Frames - 1)
  <2>1. c \in 0..Frames - 1 /\ c \in Int
    <3>1. Frames - 1 \in Int /\ 0 <= Frames - 1
      BY <1>2, Sizes
    <3>2. c \in 0..Frames - 1
      BY <3>1 DEF Clamp
    <3> QED BY <3>1, <3>2
  <2>2. SetFrame(g, i) = [g EXCEPT !.i = c]
    BY <1>2 DEF SetFrame
  <2> HIDE DEF c
  <2> QED BY <2>1, <2>2 DEF GifOK
<1> QED BY <1>1, <1>2

LEMMA FrameNumbers ==
  ASSUME NEW g, g.frame \in Int, g.mode \in Int
  PROVE  StartFrame(g) \in Int /\ Pointed(g) \in Int
<1>1. StartFrame(g) \in Int
  <2>1. CASE Frames = 0
    BY <2>1 DEF StartFrame, Clamp
  <2>2. CASE Frames # 0
    <3>1. Frames \in Nat \ {0} /\ Frames - 1 \in Int
      BY <2>2, Sizes
    <3>2. g.frame % Frames \in Int
      BY <3>1
    <3> QED BY <2>2, <3>1, <3>2 DEF StartFrame, Clamp
  <2> QED BY <2>1, <2>2
<1> QED BY <1>1 DEF Pointed

LEMMA AdvanceKept ==
  ASSUME NEW g, GifOK(g), NEW dt \in Step
  PROVE  GifOK(Advance(g, dt)) /\ Advance(g, dt).fade = g.fade
<1> DEFINE a == g.acc + dt
<1> DEFINE n == a \div FrameTime
<1> DEFINE c == a - n * FrameTime
<1> DEFINE i == IF Frames = 0 THEN 0 ELSE (g.i + n) % Frames
<1>1. a \in Nat /\ FrameTime \in Nat \ {0}
  BY Sizes DEF GifOK
<1> HIDE DEF a
<1>2. n \in Nat /\ c \in Nat /\ c < FrameTime /\ (n = 0 => a < FrameTime)
  BY <1>1, Rest
<1> HIDE DEF n, c
<1>3. CASE n >= 1
  <2>1. i \in Int
    <3>1. CASE Frames = 0
      BY <3>1
    <3>2. CASE Frames # 0
      <4>1. Frames \in Nat \ {0} /\ g.i + n \in Int
        BY <1>2, <3>2, Sizes DEF GifOK
      <4> QED BY <3>2, <4>1
    <3> QED BY <3>1, <3>2
  <2>2. Advance(g, dt) = SetFrame([g EXCEPT !.acc = c], i)
    BY <1>3 DEF Advance, a, n, c
  <2>3. GifOK([g EXCEPT !.acc = c]) /\ [g EXCEPT !.acc = c].fade = g.fade
    BY <1>2 DEF GifOK
  <2> HIDE DEF i
  <2> QED BY <2>1, <2>2, <2>3, SetFrameKept
<1>4. CASE ~(n >= 1)
  <2>1. Advance(g, dt) = [g EXCEPT !.acc = a]
    BY <1>4 DEF Advance, a, n
  <2>2. a < FrameTime
    BY <1>2, <1>4
  <2> QED BY <1>1, <2>1, <2>2 DEF GifOK
<1> QED BY <1>3, <1>4

LEMMA FadedKept ==
  ASSUME NEW g, GifOK(g), NEW dt \in Step
  PROVE  /\ GifOK(Faded(g, dt))
         /\ ShortSteps /\ g.fade < 2 * Full => Faded(g, dt).fade < 2 * Full
<1> DEFINE d == Speed * dt
<1> DEFINE f == g.fade + d
<1> DEFINE e == IF f >= 2 * Full THEN f - 2 * Full ELSE f
<1>1. d \in Nat /\ Full \in Nat /\ g.fade \in Nat
  <2>1. Speed \in Nat /\ dt \in Nat
    BY Sizes
  <2> QED BY <2>1, Sizes DEF GifOK
<1>2. ShortSteps => d <= 2 * Full
  BY DEF ShortSteps
<1>3. Faded(g, dt) = [g EXCEPT !.fade = e]
  BY DEF Faded
<1> HIDE DEF d
<1>4. e \in Nat /\ (d <= 2 * Full /\ g.fade < 2 * Full => e < 2 * Full)
  BY <1>1
<1> HIDE DEF e
<1>5. GifOK(Faded(g, dt)) /\ Faded(g, dt).fade = e
  BY <1>3, <1>4 DEF GifOK
<1> QED BY <1>2, <1>4, <1>5

LEMMA FrameOfKept ==
  ASSUME NEW g, GifOK(g), NEW dt \in Step
  PROVE  GifOK(FrameOf(g, dt)) /\ FrameOf(g, dt).fade = g.fade
<1>1. StartFrame(g) \in Int /\ Pointed(g) \in Int
  BY FrameNumbers DEF GifOK
<1>2. FrameOf(g, dt) \in {SetFrame(g, Pointed(g)), SetFrame(g, StartFrame(g)), Advance(g, dt), g}
  BY DEF FrameOf, GifOK
<1> QED BY <1>1, <1>2, SetFrameKept, AdvanceKept

LEMMA TickGifKept == ASSUME ElementsInv, NEW dt \in Step, TickGif(dt) PROVE ElementsInv'
<1> DEFINE g == IF gif.moving THEN Faded(gif, dt) ELSE gif
<1>1. gif' = FrameOf(g, dt) /\ text' = text
  BY DEF TickGif
<1>2. GifOK(g) /\ (ShortSteps => g.fade < 2 * Full)
  BY FadedKept DEF ElementsInv
<1> HIDE DEF g
<1>3. GifOK(gif') /\ (ShortSteps => gif'.fade < 2 * Full)
  BY <1>1, <1>2, FrameOfKept
<1> QED BY <1>1, <1>3 DEF ElementsInv

LEMMA PointerKept ==
  ASSUME ElementsInv, NEW hover \in BOOLEAN, NEW held \in BOOLEAN, Pointer(hover, held)
  PROVE  ElementsInv'
<1> DEFINE b == held /\ hover
<1>1. gif' = [gif EXCEPT !.hover = hover, !.held = b] /\ text' = text
  BY DEF Pointer
<1>2. b \in BOOLEAN
  OBVIOUS
<1> HIDE DEF b
<1>3. GifOK(gif') /\ gif'.fade = gif.fade
  BY <1>1, <1>2 DEF ElementsInv, GifOK
<1> QED BY <1>1, <1>3 DEF ElementsInv

LEMMA ElementsInitial == ElementsInit => ElementsInv
<1> SUFFICES ASSUME ElementsInit PROVE ElementsInv
  OBVIOUS
<1>1. TextOK(text) /\ Running(text)
  <2>0. text \in {[anim |-> a, phase |-> IF a = Marquee THEN TextWidth ELSE 0,
                   shown |-> IF a = Typing THEN 0 ELSE Length, timer |-> Delay,
                   offset |-> IF a = Marquee THEN PageWidth ELSE 0, coloured |-> c,
                   mix |-> 0, dir |-> Speed] :
                    a \in {0, Typing, Marquee}, c \in BOOLEAN}
    BY DEF ElementsInit
  <2>1. PICK a \in {0, Typing, Marquee}, c \in BOOLEAN :
          text = [anim |-> a, phase |-> IF a = Marquee THEN TextWidth ELSE 0,
                  shown |-> IF a = Typing THEN 0 ELSE Length, timer |-> Delay,
                  offset |-> IF a = Marquee THEN PageWidth ELSE 0, coloured |-> c,
                  mix |-> 0, dir |-> Speed]
    BY <2>0
  <2> QED BY <2>1, Sizes DEF TextOK, Running
<1>2. GifOK(gif) /\ gif.fade = 0
  <2>1. PICK g \in NewGifs : gif = SetFrame(g, StartFrame(g))
    BY DEF ElementsInit
  <2>2. GifOK(g)
    <3>1. g.frame \in Int /\ g.i \in Int /\ (Frames > 0 => g.i \in 0..Frames - 1)
      BY Sizes DEF NewGifs
    <3>2. g.acc \in Nat /\ g.fade \in Nat /\ g.acc < FrameTime
      BY Sizes DEF NewGifs
    <3> QED BY <3>1, <3>2 DEF GifOK, NewGifs
  <2>3. StartFrame(g) \in Int
    BY <2>2, FrameNumbers DEF GifOK
  <2>4. g.fade = 0
    BY DEF NewGifs
  <2> QED BY <2>1, <2>2, <2>3, <2>4, SetFrameKept
<1>3. 0 < 2 * Full
  BY Sizes
<1> QED BY <1>1, <1>2, <1>3 DEF ElementsInv

LEMMA OpacityBetween ==
  ASSUME NEW g, GifOK(g)
  PROVE  Opacity(g) \in 0..Full
<1>1. g.fade \in Int /\ Full \in Nat
  BY Sizes DEF GifOK
<1>2. (IF g.fade >= Full THEN g.fade - Full ELSE Full - g.fade) \in Int
  BY <1>1
<1> DEFINE x == IF g.fade >= Full THEN g.fade - Full ELSE Full - g.fade
<1>3. Opacity(g) = Clamp(x, 0, Full)
  BY DEF Opacity
<1>4. x \in Int
  BY <1>2
<1> HIDE DEF x
<1>5. Clamp(x, 0, Full) \in 0..Full
  BY <1>1, <1>4 DEF Clamp
<1> QED BY <1>3, <1>5

(* What holds of the paint whatever a frame of the display takes.          *)
PaintInAnyFrame ==
  /\ text.shown \in 0..Length /\ text.mix \in 0..Full
  /\ text.offset <= PageWidth /\ (text.anim = Marquee => text.offset >= -TextWidth)
  /\ Frames > 0 => gif.i \in 0..Frames - 1
  /\ gif.acc < FrameTime /\ Opacity(gif) \in 0..Full

(* What is painted exists, for every length, speed, frame time and run of  *)
(* late frames (TextEl.tick, GifEl.tick and render of hsp.js).  One part   *)
(* of PaintInBounds does not hold for all of them: a frame of the display  *)
(* longer than a whole fade leaves the fade beyond its end, where only the *)
(* opacity is still cut to its range.                                      *)
THEOREM PaintStaysInBounds ==
  ElementsSpec => []/\ PaintInAnyFrame
                    /\ (\A dt \in Step : Speed * dt <= 2 * Full) => PaintInBounds
<1>1. ElementsInv /\ [ElementsNext]_elementVars => ElementsInv'
  <2>1. ASSUME ElementsInv, UNCHANGED elementVars PROVE ElementsInv'
    BY <2>1 DEF ElementsInv, elementVars
  <2> QED BY <2>1, TickTextKept, TickGifKept, PointerKept DEF ElementsNext, Ticks
<1>2. ElementsInv => /\ PaintInAnyFrame
                     /\ (\A dt \in Step : Speed * dt <= 2 * Full) => PaintInBounds
  <2> SUFFICES ASSUME ElementsInv PROVE PaintInAnyFrame /\ (ShortSteps => PaintInBounds)
    BY DEF ShortSteps
  <2>1. text.shown \in 0..Length /\ text.mix \in 0..Full
    BY DEF ElementsInv, TextOK
  <2>2. text.offset <= PageWidth /\ (text.anim = Marquee => text.offset >= -TextWidth)
    BY DEF ElementsInv, Running
  <2>3. /\ Frames > 0 => gif.i \in 0..Frames - 1
        /\ gif.acc < FrameTime
    BY DEF ElementsInv, GifOK
  <2>4. Opacity(gif) \in 0..Full
    BY OpacityBetween DEF ElementsInv
  <2>5. PaintInAnyFrame
    BY <2>1, <2>2, <2>3, <2>4 DEF PaintInAnyFrame
  <2>6. ShortSteps => gif.fade < 2 * Full
    BY DEF ElementsInv
  <2> QED BY <2>5, <2>6 DEF PaintInAnyFrame, PaintInBounds
<1> QED BY ElementsInitial, <1>1, <1>2, PTL DEF ElementsSpec

-----------------------------------------------------------------------------
(* A Hypnospace page: what has been built.                                 *)

Bits  == {"", "0", "1"}
Place == [n : DOMAIN Type, moving : BOOLEAN]

(* What a build that waits for the element at has made.                    *)
Done(at, sheet) == {n \in 1..at - 1 : n \in Gifs \/ sheet}

Made == UNION {[D -> BOOLEAN] : D \in SUBSET DOMAIN Type}
Build ==
  {b \in [at : {0} \cup Gifs, sheet : BOOLEAN, made : Made] : b.made \in [Done(b.at, b.sheet) -> BOOLEAN]}

(* One build at a time, as the page moves now, and nothing stands before.  *)
Single(bs, es, mo) ==
  /\ bs = <<>> \/ (Len(bs) = 1 /\ es = <<>>)
  /\ \A k \in DOMAIN bs : \A n \in DOMAIN bs[k].made : bs[k].made[n] = mo

BuildInv ==
  /\ motion \in BOOLEAN /\ builds \in Seq(Build) /\ els \in Seq(Place)
  /\ ~overlapped => Single(builds, els, motion)
  /\ EachOnce

-----------------------------------------------------------------------------
(* A Hypnospace page: what is chosen.                                      *)

DiskOK(d) == d \in [motion : Bits, read : Bits, bar : Bits, scale : 0..MaxScale]
AudioOK(a) == a \in [playing : BOOLEAN, waiting : BOOLEAN, allowed : BOOLEAN]
ViewOK(v) ==
  v \in [scale : 1..MaxScale, fit : 1..MaxScale, reader : BOOLEAN, bar : BOOLEAN,
         focus : {"page", "control"}]

(* Music has waited for a gesture, or the browser allows it; what the      *)
(* session says is what is heard once the browser allows it.               *)
Heard(a, s) ==
  /\ a.playing => s # "0"
  /\ a.allowed /\ ~a.waiting /\ s # "0" => a.playing

Shows(v, d, m, k) ==
  /\ v.scale = IF d.scale # 0 THEN d.scale ELSE v.fit
  /\ d.motion # "" => m = (d.motion = "1")
  /\ v.bar = (d.bar = "1")
  /\ ~k => v.reader = (d.read = "1")

ChoiceInv ==
  /\ motion \in BOOLEAN /\ storage \in BOOLEAN /\ session \in Bits
  /\ DiskOK(disk) /\ AudioOK(audio) /\ ViewOK(view)
  /\ ~audio.waiting => audio.allowed
  /\ storage => Heard(audio, session)
  /\ storage /\ ~elsewhere => Shows(view, disk, motion, keyed)


LEMMA Scales == MaxScale \in Nat \ {0} /\ Fits \subseteq 1..MaxScale /\ 0 \in 0..MaxScale
<1>1. MaxScale \in Nat \ {0} /\ Fits \subseteq 1..MaxScale
  BY HspPageAssumption
<1> QED BY <1>1

LEMMA Bounds ==
  /\ MaxScale \in Nat \ {0} /\ Fits \subseteq 1..MaxScale
  /\ \A b \in BOOLEAN : Bit(b) \in Bits /\ Bit(b) # "" /\ (Bit(b) = "1" <=> b)
  /\ \A n \in Int : Clamped(n) \in 1..MaxScale
  /\ \A n \in 1..MaxScale : Clamped(n) = n
<1>1. MaxScale \in Nat \ {0} /\ Fits \subseteq 1..MaxScale
  BY HspPageAssumption
<1>2. \A b \in BOOLEAN : Bit(b) \in Bits /\ Bit(b) # "" /\ (Bit(b) = "1" <=> b)
  BY DEF Bit, Bits
<1>3. \A n \in Int : Clamped(n) \in 1..MaxScale
  BY <1>1 DEF Clamped
<1>4. \A n \in 1..MaxScale : Clamped(n) = n
  BY <1>1 DEF Clamped
<1> QED BY <1>1, <1>2, <1>3, <1>4

(* Where the focus is does not matter to what is shown.                    *)
LEMMA FocusKept ==
  ASSUME NEW v, ViewOK(v), NEW f \in {"page", "control"}
  PROVE  /\ ViewOK([v EXCEPT !.focus = f])
         /\ [v EXCEPT !.focus = f].bar = v.bar
         /\ \A d, m, k : Shows(v, d, m, k) => Shows([v EXCEPT !.focus = f], d, m, k)
<1> DEFINE w == [v EXCEPT !.focus = f]
<1>1. /\ w.scale = v.scale /\ w.fit = v.fit /\ w.bar = v.bar /\ w.reader = v.reader /\ ViewOK(w)
  BY DEF ViewOK
<1> HIDE DEF w
<1>2. \A d, m, k : Shows(v, d, m, k) => Shows(w, d, m, k)
  BY <1>1 DEF Shows
<1> QED BY <1>1, <1>2 DEF w

LEMMA WokenKept ==
  ASSUME NEW a, AudioOK(a), ~a.waiting => a.allowed, storage => Heard(a, session)
  PROVE  /\ AudioOK(Woken(a)) /\ ~Woken(a).waiting /\ Woken(a).allowed
         /\ storage => Heard(Woken(a), session)
<1> DEFINE p == a.playing \/ (a.waiting /\ Wanted)
<1>1. Woken(a) = [playing |-> p, waiting |-> FALSE, allowed |-> TRUE]
  BY DEF Woken
<1>2. p \in BOOLEAN
  OBVIOUS
<1>3. storage => (p <=> session # "0")
  BY DEF AudioOK, Heard, Wanted
<1> HIDE DEF p
<1> QED BY <1>1, <1>2, <1>3 DEF AudioOK, Heard

LEMMA ToggleMusicKept ==
  ASSUME NEW a, AudioOK(a), ~a.waiting => a.allowed, session \in Bits, ToggleMusic(a)
  PROVE  /\ AudioOK(audio') /\ session' \in Bits
         /\ ~audio'.waiting => audio'.allowed
         /\ storage => Heard(audio', session')
<1> DEFINE p == ~a.playing /\ a.allowed
<1>1. audio' = [a EXCEPT !.playing = p] /\ p \in BOOLEAN
  BY DEF ToggleMusic
<1>2. session' = IF storage THEN Bit(~a.playing) ELSE session
  BY DEF ToggleMusic
<1>3. p => ~a.playing
  OBVIOUS
<1>4. a.allowed /\ ~a.playing => p
  OBVIOUS
<1> HIDE DEF p
<1>5. /\ AudioOK(audio') /\ audio'.playing = p /\ audio'.waiting = a.waiting
      /\ audio'.allowed = a.allowed
  BY <1>1 DEF AudioOK
<1>6. a.playing \in BOOLEAN
  BY DEF AudioOK
<1>7. (~a.playing => Bit(~a.playing) = "1") /\ (a.playing => Bit(~a.playing) = "0")
  BY <1>6 DEF Bit
<1>8. session' \in Bits
  BY <1>2, <1>6, <1>7 DEF Bits
<1>9. storage => Heard(audio', session')
  BY <1>2, <1>3, <1>4, <1>5, <1>6, <1>7 DEF Heard
<1> QED BY <1>5, <1>8, <1>9

(* A choice of the zoom or of the bar, as it is shown and as it is kept.   *)
LEMMA ZoomKept ==
  ASSUME NEW v, ViewOK(v), DiskOK(disk), NEW m, NEW k,
         storage /\ ~elsewhere => Shows(v, disk, m, k),
         (\E d \in {-1, 1} : Bump(v, d)) \/ FitAgain(v)
  PROVE  /\ ViewOK(view') /\ DiskOK(disk')
         /\ storage /\ ~elsewhere => Shows(view', disk', m, k)
<1>1. PICK n \in 1..MaxScale, s \in 0..MaxScale :
        /\ s \in {0, n} /\ view' = [v EXCEPT !.scale = n] /\ (s = 0 => n = v.fit)
        /\ Keep("scale", s)
  <2>1. ASSUME NEW d \in {-1, 1}, Bump(v, d)
        PROVE  \E n \in 1..MaxScale, s \in 0..MaxScale :
                 /\ s \in {0, n} /\ view' = [v EXCEPT !.scale = n] /\ (s = 0 => n = v.fit)
                 /\ Keep("scale", s)
    <3> DEFINE n == Clamped(v.scale + d)
    <3>1. n \in 1..MaxScale
      <4>1. v.scale + d \in Int
        BY Scales DEF ViewOK
      <4> QED BY <4>1, Bounds
    <3>2. view' = [v EXCEPT !.scale = n] /\ Keep("scale", n)
      BY <2>1 DEF Bump, Zoomed
    <3> HIDE DEF n
    <3>3. n # 0 /\ n \in 0..MaxScale
      BY <3>1
    <3> QED BY <3>1, <3>2, <3>3
  <2>2. ASSUME FitAgain(v)
        PROVE  \E n \in 1..MaxScale, s \in 0..MaxScale :
                 /\ s \in {0, n} /\ view' = [v EXCEPT !.scale = n] /\ (s = 0 => n = v.fit)
                 /\ Keep("scale", s)
    <3>1. v.fit \in 1..MaxScale /\ Clamped(v.fit) = v.fit
      BY Bounds DEF ViewOK
    <3>2. view' = [v EXCEPT !.scale = v.fit] /\ Keep("scale", 0)
      BY <2>2, <3>1 DEF FitAgain, Zoomed
    <3>3. 0 \in 0..MaxScale
      BY Scales
    <3> QED BY <3>1, <3>2, <3>3
  <2> QED BY <2>1, <2>2
<1>2. /\ ViewOK(view') /\ view'.scale = n /\ view'.fit = v.fit /\ view'.reader = v.reader
      /\ view'.bar = v.bar
  BY <1>1 DEF ViewOK
<1>3. s \in 0..MaxScale /\ (s # 0 => n = s)
  BY <1>1, Bounds
<1>4. disk' = IF storage THEN [disk EXCEPT !.scale = s] ELSE disk
  BY <1>1 DEF Keep
<1>5. DiskOK(disk')
  BY <1>3, <1>4 DEF DiskOK
<1>6. ASSUME storage, ~elsewhere PROVE Shows(view', disk', m, k)
  <2>1. /\ disk'.scale = s /\ disk'.motion = disk.motion /\ disk'.bar = disk.bar
        /\ disk'.read = disk.read
    BY <1>4, <1>6 DEF DiskOK
  <2>2. Shows(v, disk, m, k)
    BY <1>6
  <2> QED BY <1>1, <1>2, <1>3, <2>1, <2>2 DEF Shows
<1> QED BY <1>2, <1>5, <1>6

LEMMA BarKept ==
  ASSUME NEW v, ViewOK(v), DiskOK(disk), NEW m, NEW k, NEW open \in BOOLEAN,
         storage /\ ~elsewhere => Shows(v, disk, m, k), SetBar(v, open)
  PROVE  /\ ViewOK(view') /\ DiskOK(disk')
         /\ storage /\ ~elsewhere => Shows(view', disk', m, k)
<1>1. view' = [v EXCEPT !.bar = open] /\ disk' = IF storage THEN [disk EXCEPT !.bar = Bit(open)] ELSE disk
  BY DEF SetBar, Keep
<1>2. Bit(open) \in Bits /\ (Bit(open) = "1" <=> open)
  BY Bounds
<1>3. /\ ViewOK(view') /\ view'.scale = v.scale /\ view'.fit = v.fit /\ view'.reader = v.reader
      /\ view'.bar = open
  BY <1>1 DEF ViewOK
<1>4. DiskOK(disk')
  BY <1>1, <1>2 DEF DiskOK
<1>5. ASSUME storage, ~elsewhere PROVE Shows(view', disk', m, k)
  <2>1. /\ disk'.scale = disk.scale /\ disk'.motion = disk.motion /\ disk'.bar = Bit(open)
        /\ disk'.read = disk.read
    BY <1>1, <1>5 DEF DiskOK
  <2>2. Shows(v, disk, m, k)
    BY <1>5
  <2>3. view'.bar = (disk'.bar = "1")
    BY <1>2, <1>3, <2>1
  <2> QED BY <1>3, <2>1, <2>2, <2>3 DEF Shows
<1> QED BY <1>3, <1>4, <1>5

LEMMA ToggleMotionKept ==
  ASSUME ChoiceInv, ToggleMotion
  PROVE  /\ motion' \in BOOLEAN /\ DiskOK(disk')
         /\ storage /\ ~elsewhere => Shows(view, disk', motion', keyed)
<1>1. motion' = ~motion /\ disk' = IF storage THEN [disk EXCEPT !.motion = Bit(~motion)] ELSE disk
  BY DEF ToggleMotion, SetMotion, Keep
<1>2. motion \in BOOLEAN /\ motion' \in BOOLEAN /\ DiskOK(disk)
  BY <1>1 DEF ChoiceInv
<1> DEFINE b == Bit(~motion)
<1>3. b \in Bits /\ (b = "1" <=> motion')
  BY <1>1, <1>2, Bounds
<1>4. disk' = IF storage THEN [disk EXCEPT !.motion = b] ELSE disk
  BY <1>1
<1> HIDE DEF b
<1>5. DiskOK(disk')
  BY <1>2, <1>3, <1>4 DEF DiskOK
<1>6. ASSUME storage, ~elsewhere PROVE Shows(view, disk', motion', keyed)
  <2>1. /\ disk'.scale = disk.scale /\ disk'.motion = b /\ disk'.bar = disk.bar
        /\ disk'.read = disk.read
    BY <1>2, <1>4, <1>6 DEF DiskOK
  <2>2. Shows(view, disk, motion, keyed)
    BY <1>6 DEF ChoiceInv
  <2>3. motion' = (disk'.motion = "1")
    BY <1>2, <1>3, <2>1
  <2> QED BY <2>1, <2>2, <2>3 DEF Shows
<1> QED BY <1>2, <1>5, <1>6

-----------------------------------------------------------------------------
(* The choices, a control at a time.                                       *)

LEMMA PointerDownChoice == ASSUME ChoiceInv, PointerDown PROVE ChoiceInv'
<1>1. /\ audio' = Woken(audio)
      /\ UNCHANGED <<motion, storage, disk, session, view, elsewhere, keyed>>
  BY DEF PointerDown
<1> QED BY <1>1, WokenKept DEF ChoiceInv

LEMMA NavigateChoice == ASSUME ChoiceInv, Navigate PROVE ChoiceInv'
<1>1. PICK f \in {"page", "control"} : view' = [view EXCEPT !.focus = f]
  BY DEF Navigate
<1>2. /\ audio' = [audio EXCEPT !.allowed = TRUE]
      /\ UNCHANGED <<motion, storage, disk, session, elsewhere, keyed>>
  BY DEF Navigate
<1>3. /\ AudioOK(audio') /\ audio'.playing = audio.playing /\ audio'.waiting = audio.waiting
      /\ audio'.allowed
  BY <1>2 DEF ChoiceInv, AudioOK
<1>4. storage => Heard(audio', session)
  BY <1>3 DEF ChoiceInv, Heard, AudioOK
<1>5. ViewOK(view') /\ (storage /\ ~elsewhere => Shows(view', disk, motion, keyed))
  BY <1>1, FocusKept DEF ChoiceInv
<1> QED BY <1>2, <1>3, <1>4, <1>5 DEF ChoiceInv

(* What a control leaves of the music, or of what is shown.                *)
LEMMA SilentChoice ==
  ASSUME ChoiceInv, NEW a, AudioOK(a), ~a.waiting => a.allowed, storage => Heard(a, session),
         audio' = a, session' = session, storage' = storage, elsewhere' = elsewhere,
         motion' \in BOOLEAN, DiskOK(disk'), ViewOK(view'),
         storage /\ ~elsewhere => Shows(view', disk', motion', keyed')
  PROVE  ChoiceInv'
BY DEF ChoiceInv

LEMMA ReaderKept ==
  ASSUME ChoiceInv, NEW f \in {"page", "control"},
         view' = [view EXCEPT !.reader = ~@, !.focus = f]
  PROVE  /\ ViewOK(view') /\ view'.reader = ~view.reader
         /\ view'.scale = view.scale /\ view'.fit = view.fit /\ view'.bar = view.bar
<1> DEFINE r == ~view.reader
<1>1. r \in BOOLEAN /\ view' = [view EXCEPT !.reader = r, !.focus = f]
  OBVIOUS
<1>2. ViewOK(view)
  BY DEF ChoiceInv
<1> HIDE DEF r
<1>3. /\ ViewOK(view') /\ view'.reader = r
      /\ view'.scale = view.scale /\ view'.fit = view.fit /\ view'.bar = view.bar
  BY <1>1, <1>2 DEF ViewOK
<1> QED BY <1>3 DEF r

LEMMA ClickChoice == ASSUME ChoiceInv, Click PROVE ChoiceInv'
<1> DEFINE v == [view EXCEPT !.focus = "control"]
<1>0. UNCHANGED <<storage, elsewhere>>
  BY DEF Click
<1>1. /\ ViewOK(v) /\ v.bar \in BOOLEAN
      /\ storage /\ ~elsewhere => Shows(v, disk, motion, keyed)
  <2>1. ViewOK(v) /\ (storage /\ ~elsewhere => Shows(v, disk, motion, keyed))
    BY FocusKept DEF ChoiceInv
  <2> HIDE DEF v
  <2> QED BY <2>1 DEF ViewOK
<1>2. CASE ToggleMusic(audio) /\ view' = v /\ UNCHANGED <<still, disk, keyed>>
  BY <1>0, <1>1, <1>2, ToggleMusicKept DEF ChoiceInv, still
<1>3. CASE ToggleMotion /\ view' = v /\ UNCHANGED <<session, audio, keyed>>
  <2>1. /\ motion' \in BOOLEAN /\ DiskOK(disk')
        /\ storage /\ ~elsewhere => Shows(view, disk', motion', keyed)
    BY <1>3, ToggleMotionKept
  <2>2. storage /\ ~elsewhere => Shows(view', disk', motion', keyed')
    BY <1>3, <2>1, FocusKept DEF ChoiceInv
  <2> HIDE DEF v
  <2> QED BY <1>0, <1>1, <1>3, <2>1, <2>2, SilentChoice DEF ChoiceInv
<1>4. CASE \E d \in {-1, 1} : Bump(v, d) /\ UNCHANGED <<still, session, audio, keyed>>
  <2> HIDE DEF v
  <2>1. UNCHANGED <<still, session, audio, keyed>> /\ \E d \in {-1, 1} : Bump(v, d)
    BY <1>4
  <2>2. /\ ViewOK(view') /\ DiskOK(disk')
        /\ storage /\ ~elsewhere => Shows(view', disk', motion, keyed)
    BY <1>1, <2>1, ZoomKept DEF ChoiceInv
  <2> QED BY <1>0, <2>1, <2>2, SilentChoice DEF ChoiceInv, still
<1>5. CASE SetBar(v, ~v.bar) /\ UNCHANGED <<still, session, audio, keyed>>
  <2> HIDE DEF v
  <2>1. (~v.bar) \in BOOLEAN
    BY <1>1
  <2>2. /\ ViewOK(view') /\ DiskOK(disk')
        /\ storage /\ ~elsewhere => Shows(view', disk', motion, keyed)
    BY <1>1, <1>5, <2>1, BarKept DEF ChoiceInv
  <2> QED BY <1>0, <1>5, <2>2, SilentChoice DEF ChoiceInv, still
<1>6. CASE /\ view' = [view EXCEPT !.reader = ~@, !.focus = "page"]
           /\ Keep("read", Bit(~view.reader)) /\ keyed' = FALSE
           /\ UNCHANGED <<still, session, audio>>
  <2>1. /\ ViewOK(view') /\ view'.reader = ~view.reader
        /\ view'.scale = view.scale /\ view'.fit = view.fit /\ view'.bar = view.bar
    BY <1>6, ReaderKept
  <2> DEFINE b == Bit(~view.reader)
  <2>2. disk' = IF storage THEN [disk EXCEPT !.read = b] ELSE disk
    BY <1>6 DEF Keep
  <2>3. view'.reader \in BOOLEAN /\ b = Bit(view'.reader)
    BY <2>1 DEF ViewOK
  <2> HIDE DEF b
  <2>4. b \in Bits /\ (b = "1" <=> view'.reader)
    BY <2>3, Bounds
  <2>5. DiskOK(disk')
    BY <2>2, <2>4 DEF DiskOK, ChoiceInv
  <2>6. ASSUME storage, ~elsewhere PROVE Shows(view', disk', motion', keyed')
    <3>1. /\ disk'.scale = disk.scale /\ disk'.motion = disk.motion /\ disk'.bar = disk.bar
          /\ disk'.read = b
      BY <2>2, <2>6 DEF DiskOK, ChoiceInv
    <3>2. Shows(view, disk, motion, keyed) /\ motion' = motion
      BY <1>6, <2>6 DEF ChoiceInv, still
    <3>3. view'.reader = (disk'.read = "1")
      BY <2>3, <2>4, <3>1
    <3> QED BY <2>1, <3>1, <3>2, <3>3 DEF Shows
  <2> QED BY <1>0, <1>6, <2>1, <2>5, <2>6, SilentChoice DEF ChoiceInv, still
<1>7. \/ ToggleMusic(audio) /\ view' = v /\ UNCHANGED <<still, disk, keyed>>
      \/ ToggleMotion /\ view' = v /\ UNCHANGED <<session, audio, keyed>>
      \/ \E d \in {-1, 1} : Bump(v, d) /\ UNCHANGED <<still, session, audio, keyed>>
      \/ SetBar(v, ~v.bar) /\ UNCHANGED <<still, session, audio, keyed>>
      \/ /\ view' = [view EXCEPT !.reader = ~@, !.focus = "page"]
         /\ Keep("read", Bit(~view.reader)) /\ keyed' = FALSE
         /\ UNCHANGED <<still, session, audio>>
  BY DEF Click
<1> QED BY <1>2, <1>3, <1>4, <1>5, <1>6, <1>7

LEMMA KeyChoice == ASSUME ChoiceInv, Key PROVE ChoiceInv'
<1> DEFINE a == Woken(audio)
<1>0. UNCHANGED <<storage, elsewhere>>
  BY DEF Key
<1>1. /\ AudioOK(a) /\ ~a.waiting /\ a.allowed /\ (storage => Heard(a, session))
  BY WokenKept DEF ChoiceInv
<1>2. /\ ViewOK(view) /\ view.bar \in BOOLEAN /\ DiskOK(disk) /\ motion \in BOOLEAN
      /\ storage /\ ~elsewhere => Shows(view, disk, motion, keyed)
  BY DEF ChoiceInv, ViewOK
<1> HIDE DEF a
<1>3. CASE audio' = a /\ UNCHANGED <<still, disk, session, view, keyed>>
  BY <1>0, <1>1, <1>2, <1>3, SilentChoice DEF still
<1>4. CASE ToggleMusic(a) /\ UNCHANGED <<still, disk, view, keyed>>
  <2>1. session \in Bits /\ storage \in BOOLEAN
    BY DEF ChoiceInv
  <2>2. /\ AudioOK(audio') /\ session' \in Bits
        /\ ~audio'.waiting => audio'.allowed
        /\ storage => Heard(audio', session')
    BY <1>1, <1>4, <2>1, ToggleMusicKept
  <2> QED BY <1>0, <1>2, <1>4, <2>1, <2>2 DEF ChoiceInv, still
<1>5. CASE audio' = a /\ ToggleMotion /\ UNCHANGED <<session, view, keyed>>
  BY <1>0, <1>1, <1>2, <1>5, ToggleMotionKept, SilentChoice
<1>6. CASE audio' = a /\ ((\E d \in {-1, 1} : Bump(view, d)) \/ FitAgain(view))
           /\ UNCHANGED <<still, session, keyed>>
  <2>1. /\ ViewOK(view') /\ DiskOK(disk')
        /\ storage /\ ~elsewhere => Shows(view', disk', motion, keyed)
    BY <1>2, <1>6, ZoomKept
  <2> QED BY <1>0, <1>1, <1>2, <1>6, <2>1, SilentChoice DEF still
<1>7. CASE audio' = a /\ SetBar(view, ~view.bar) /\ UNCHANGED <<still, session, keyed>>
  <2>1. (~view.bar) \in BOOLEAN
    BY <1>2
  <2>2. /\ ViewOK(view') /\ DiskOK(disk')
        /\ storage /\ ~elsewhere => Shows(view', disk', motion, keyed)
    BY <1>2, <1>7, <2>1, BarKept
  <2> QED BY <1>0, <1>1, <1>2, <1>7, <2>2, SilentChoice DEF still
<1>8. CASE audio' = a /\ view' = [view EXCEPT !.reader = ~@] /\ keyed' = TRUE
           /\ UNCHANGED <<still, disk, session>>
  <2> DEFINE r == ~view.reader
  <2>1. r \in BOOLEAN /\ view' = [view EXCEPT !.reader = r]
    BY <1>8
  <2> HIDE DEF r
  <2>2. ViewOK(view') /\ view'.scale = view.scale /\ view'.fit = view.fit /\ view'.bar = view.bar
    BY <1>2, <2>1 DEF ViewOK
  <2>3. storage /\ ~elsewhere => Shows(view', disk', motion', keyed')
    BY <1>2, <1>8, <2>2 DEF Shows, still
  <2> QED BY <1>0, <1>1, <1>2, <1>8, <2>2, <2>3, SilentChoice DEF still
<1>9. \/ audio' = a /\ UNCHANGED <<still, disk, session, view, keyed>>
      \/ ToggleMusic(a) /\ UNCHANGED <<still, disk, view, keyed>>
      \/ audio' = a /\ ToggleMotion /\ UNCHANGED <<session, view, keyed>>
      \/ audio' = a /\ ((\E d \in {-1, 1} : Bump(view, d)) \/ FitAgain(view))
           /\ UNCHANGED <<still, session, keyed>>
      \/ audio' = a /\ SetBar(view, ~view.bar) /\ UNCHANGED <<still, session, keyed>>
      \/ audio' = a /\ view' = [view EXCEPT !.reader = ~@] /\ keyed' = TRUE
           /\ UNCHANGED <<still, disk, session>>
  BY DEF Key, a
<1> QED BY <1>3, <1>4, <1>5, <1>6, <1>7, <1>8, <1>9

LEMMA EscapeChoice == ASSUME ChoiceInv, Escape PROVE ChoiceInv'
<1> DEFINE v == [view EXCEPT !.focus = "control"]
<1>1. SetBar(v, FALSE) /\ UNCHANGED <<still, storage, session, audio, elsewhere, keyed>>
  BY DEF Escape
<1>2. ViewOK(v) /\ (storage /\ ~elsewhere => Shows(v, disk, motion, keyed))
  BY FocusKept DEF ChoiceInv
<1> HIDE DEF v
<1>3. /\ ViewOK(view') /\ DiskOK(disk')
      /\ storage /\ ~elsewhere => Shows(view', disk', motion, keyed)
  BY <1>1, <1>2, BarKept DEF ChoiceInv
<1> QED BY <1>1, <1>3, SilentChoice DEF ChoiceInv, still

LEMMA ResizeChoice == ASSUME ChoiceInv, Resize PROVE ChoiceInv'
<1>1. PICK fit \in Fits : view' = IF Got("scale") = 0 THEN Zoomed([view EXCEPT !.fit = fit], fit)
                                  ELSE [view EXCEPT !.fit = fit]
  BY DEF Resize
<1>2. UNCHANGED <<still, storage, disk, session, audio, elsewhere, keyed>>
  BY DEF Resize
<1>3. fit \in 1..MaxScale /\ Clamped(fit) = fit
  <2>1. fit \in 1..MaxScale
    BY Scales
  <2> QED BY <2>1, Bounds
<1>4. view' = [view EXCEPT !.fit = fit, !.scale = IF Got("scale") = 0 THEN fit ELSE view.scale]
  <2>1. CASE Got("scale") = 0
    BY <1>1, <1>3, <2>1 DEF Zoomed, ChoiceInv, ViewOK
  <2>2. CASE Got("scale") # 0
    BY <1>1, <2>2 DEF ChoiceInv, ViewOK
  <2> QED BY <2>1, <2>2
<1>5. /\ ViewOK(view') /\ view'.fit = fit /\ view'.reader = view.reader /\ view'.bar = view.bar
      /\ view'.scale = IF Got("scale") = 0 THEN fit ELSE view.scale
  BY <1>3, <1>4 DEF ChoiceInv, ViewOK
<1>6. storage => Got("scale") = disk.scale
  BY DEF Got
<1>7. storage /\ ~elsewhere => Shows(view', disk, motion, keyed)
  BY <1>5, <1>6 DEF ChoiceInv, Shows
<1> QED BY <1>2, <1>5, <1>7, SilentChoice DEF ChoiceInv, still

LEMMA ReloadChoice == ASSUME ChoiceInv, Reload PROVE ChoiceInv'
<1>1. UNCHANGED <<storage, disk, session>> /\ elsewhere' = FALSE
  BY DEF Reload, Opened
<1>2. PICK allowed \in BOOLEAN : audio' = Music(allowed)
  BY DEF Reload, Opened
<1>3. PICK fit \in Fits, hash \in BOOLEAN :
        /\ view' = [scale |-> IF Got("scale") # 0 THEN Got("scale") ELSE fit, fit |-> fit,
                    reader |-> hash \/ Got("read") = "1", bar |-> Got("bar") = "1",
                    focus |-> "page"]
        /\ keyed' = hash
  BY DEF Reload, Opened
<1>4. motion' \in IF Got("motion") # "" THEN {Got("motion") = "1"} ELSE BOOLEAN
  BY DEF Reload, Opened
<1>5. motion' \in BOOLEAN /\ (Got("motion") # "" => motion' = (Got("motion") = "1"))
  BY <1>4
<1>6. AudioOK(audio') /\ audio'.waiting /\ (storage => Heard(audio', session))
  <2> DEFINE p == allowed /\ Wanted
  <2>1. audio' = [playing |-> p, waiting |-> TRUE, allowed |-> allowed]
    BY <1>2 DEF Music
  <2>2. p \in BOOLEAN /\ (storage /\ p => session # "0")
    BY DEF Wanted
  <2> HIDE DEF p
  <2> QED BY <2>1, <2>2 DEF AudioOK, Heard
<1>7. fit \in 1..MaxScale /\ Got("scale") \in 0..MaxScale
  BY Scales DEF Got, ChoiceInv, DiskOK
<1> DEFINE sc == IF Got("scale") # 0 THEN Got("scale") ELSE fit
<1> DEFINE re == hash \/ Got("read") = "1"
<1> DEFINE ba == Got("bar") = "1"
<1>8. /\ view' = [scale |-> sc, fit |-> fit, reader |-> re, bar |-> ba, focus |-> "page"]
      /\ keyed' = hash
  BY <1>3
<1>9. sc \in 1..MaxScale /\ re \in BOOLEAN /\ ba \in BOOLEAN
  <2>1. re \in BOOLEAN /\ ba \in BOOLEAN
    OBVIOUS
  <2>2. sc \in 1..MaxScale
    BY <1>7, Scales
  <2> QED BY <2>1, <2>2
<1>10. ~hash => re = (Got("read") = "1")
  OBVIOUS
<1> HIDE DEF re, ba, sc
<1>11. ViewOK(view')
  BY <1>7, <1>8, <1>9 DEF ViewOK
<1>12. /\ view'.scale = sc /\ view'.fit = fit /\ view'.reader = re /\ view'.bar = ba
  BY <1>8
<1>13. ASSUME storage PROVE Shows(view', disk, motion', keyed')
  <2>1. /\ Got("scale") = disk.scale /\ Got("read") = disk.read /\ Got("bar") = disk.bar
        /\ Got("motion") = disk.motion
    BY <1>13 DEF Got
  <2>2. sc = (IF disk.scale # 0 THEN disk.scale ELSE fit) /\ ba = (disk.bar = "1")
    BY <2>1 DEF sc, ba
  <2> QED BY <1>5, <1>8, <1>10, <1>12, <2>1, <2>2 DEF Shows
<1> QED BY <1>1, <1>5, <1>6, <1>11, <1>13 DEF ChoiceInv

LEMMA ElsewhereChoice == ASSUME ChoiceInv, Elsewhere PROVE ChoiceInv'
<1>1. /\ disk' \in [motion : {disk.motion, "0", "1"}, read : {disk.read, "1"}, bar : {disk.bar},
                    scale : {disk.scale, 0, MaxScale}]
      /\ elsewhere' = TRUE
      /\ UNCHANGED <<still, storage, session, audio, view, keyed>>
  BY DEF Elsewhere
<1>2. MaxScale \in 0..MaxScale /\ 0 \in 0..MaxScale
  BY Scales
<1>3. DiskOK(disk')
  BY <1>1, <1>2 DEF ChoiceInv, DiskOK, Bits
<1> QED BY <1>1, <1>3 DEF ChoiceInv, still

LEMMA ChoiceInitial == HspInit => ChoiceInv
<1> SUFFICES ASSUME HspInit PROVE ChoiceInv
  OBVIOUS
<1>1. /\ motion \in BOOLEAN /\ storage \in BOOLEAN /\ session = ""
      /\ disk = [motion |-> "", read |-> "", bar |-> "", scale |-> 0]
  BY DEF HspInit
<1>2. PICK allowed \in BOOLEAN : audio = Music(allowed)
  BY DEF HspInit
<1>3. PICK f \in Fits :
        view = [scale |-> f, fit |-> f, reader |-> FALSE, bar |-> FALSE, focus |-> "page"]
  BY DEF HspInit
<1>4. AudioOK(audio) /\ audio.waiting /\ (storage => Heard(audio, session))
  <2> DEFINE p == allowed /\ Wanted
  <2>1. audio = [playing |-> p, waiting |-> TRUE, allowed |-> allowed]
    BY <1>2 DEF Music
  <2>2. p \in BOOLEAN /\ session # "0"
    BY <1>1
  <2> HIDE DEF p
  <2> QED BY <2>1, <2>2 DEF AudioOK, Heard
<1>5. f \in 1..MaxScale
  BY Scales
<1>6. ViewOK(view) /\ DiskOK(disk)
  BY <1>1, <1>3, <1>5, Scales DEF ViewOK, DiskOK, Bits
<1>7. Shows(view, disk, motion, keyed)
  BY <1>1, <1>3 DEF Shows
<1> QED BY <1>1, <1>4, <1>6, <1>7 DEF ChoiceInv, Bits

LEMMA ChoiceInvariant == HspSpec => []ChoiceInv
<1>1. ASSUME ChoiceInv, Building PROVE ChoiceInv'
  <2>1. UNCHANGED <<motion, controls>>
    BY <1>1 DEF Building, Answer
  <2> QED BY <1>1, <2>1 DEF ChoiceInv, controls
<1>2. ASSUME ChoiceInv, UNCHANGED hspVars PROVE ChoiceInv'
  BY <1>2 DEF ChoiceInv, hspVars
<1>3. ChoiceInv /\ [HspNext]_hspVars => ChoiceInv'
  BY <1>1, <1>2, PointerDownChoice, NavigateChoice, ClickChoice, KeyChoice, EscapeChoice,
     ResizeChoice, ReloadChoice, ElsewhereChoice
     DEF HspNext
<1> QED BY ChoiceInitial, <1>3, PTL DEF HspSpec

(* "The choice then rides along": over reloads, resizes and every order of *)
(* buttons and keys, what the browser keeps is what the page does (setBar, *)
(* setMotion, setScale, the reader and audio of hsp.js), for any number of *)
(* scales and any sizes of the window.                                     *)
THEOREM ChoicesAreKept == HspSpec => []ChoicesKept
<1>1. ChoiceInv => ChoicesKept
  BY DEF ChoiceInv, Heard, Shows, ChoicesKept
<1> QED BY <1>1, ChoiceInvariant, PTL

-----------------------------------------------------------------------------
(* The elements in their order.                                            *)

(* A set of numbers that is not empty has a least one.                     *)
LEMMA Least ==
  ASSUME NEW S, S \subseteq Nat, S # {}
  PROVE  \E i \in S : \A j \in S : i <= j
<1>1. IsWellFoundedOn(OpToRel(<, Nat), Nat)
  BY NatLessThanWellFounded
<1>2. PICK i \in S : \A j \in S : ~ (<<j, i>> \in OpToRel(<, Nat))
  BY <1>1, WFMin
<1>3. \A j \in S : ~(j < i)
  BY <1>2 DEF OpToRel
<1> QED BY <1>3

(* Induction over the naturals, for a set in place of a predicate.         *)
LEMMA SetInduction ==
  ASSUME NEW S, 0 \in S, \A n \in Nat : n \in S => n + 1 \in S
  PROVE  \A n \in Nat : n \in S
<1> SUFFICES ASSUME NEW m \in Nat, m \notin S PROVE FALSE
  OBVIOUS
<1> DEFINE T == {n \in Nat : n \notin S}
<1>1. T \subseteq Nat /\ T # {}
  OBVIOUS
<1> HIDE DEF T
<1>2. PICK x \in T : \A y \in T : x <= y
  BY <1>1, Least
<1>3. x \in Nat /\ x \notin S /\ x # 0
  BY <1>2 DEF T
<1>4. x - 1 \in Nat /\ x - 1 \in T
  BY <1>3 DEF T
<1> QED BY <1>2, <1>3, <1>4

LEMMA Numbers ==
  /\ Len(Type) \in Nat /\ DOMAIN Type = 1..Len(Type) /\ Gifs \subseteq 1..Len(Type)
  /\ Order \in Seq(DOMAIN Type) /\ Len(Order) \in Nat
  /\ \A n \in DOMAIN Type : \E i \in 1..Len(Order) : Order[i] = n
<1>1. Type \in Seq({"text", "gif"}) /\ Order \in Seq(DOMAIN Type)
  BY HspPageAssumption
<1>2. DOMAIN Order = 1..Len(Order) /\ Len(Order) \in Nat
  BY <1>1
<1>3. \A n \in DOMAIN Type : \E i \in 1..Len(Order) : Order[i] = n
  BY <1>2, HspPageAssumption
<1> QED BY <1>1, <1>2, <1>3 DEF Gifs

LEMMA NextGifIs ==
  ASSUME NEW n \in Nat \ {0}, n <= Len(Type) + 1
  PROVE  /\ NextGif(n) \in Nat /\ NextGif(n) >= n /\ NextGif(n) <= Len(Type) + 1
         /\ \A i \in n..NextGif(n) - 1 : i \notin Gifs
         /\ NextGif(n) <= Len(Type) => NextGif(n) \in Gifs
<1> DEFINE after == {i \in Gifs : i >= n}
<1>1. after \subseteq 1..Len(Type) /\ Len(Type) \in Nat
  BY Numbers
<1>2. CASE after = {}
  <2>1. NextGif(n) = Len(Type) + 1
    BY <1>2 DEF NextGif
  <2>2. \A i \in n..Len(Type) : i \notin Gifs
    BY <1>2
  <2> QED BY <1>1, <2>1, <2>2
<1>3. CASE after # {}
  <2>a. after \subseteq Nat
    BY <1>1
  <2>1. \E i \in after : \A j \in after : i <= j
    <3> HIDE DEF after
    <3> QED BY <2>a, <1>3, Least
  <2>2. NextGif(n) \in after /\ \A j \in after : NextGif(n) <= j
    BY <1>3, <2>1 DEF NextGif
  <2>3. NextGif(n) \in 1..Len(Type) /\ NextGif(n) \in Gifs /\ NextGif(n) >= n
    BY <1>1, <2>2
  <2>4. \A i \in n..NextGif(n) - 1 : i \notin Gifs
    BY <1>1, <2>2, <2>3
  <2> QED BY <1>1, <2>3, <2>4
<1> QED BY <1>2, <1>3

KeptAt(f, S, i) ==
  IF i = 0 THEN <<>>
  ELSE IF Order[i] \in S THEN Append(f[i - 1], Order[i]) ELSE f[i - 1]

IsKept(f, S, n) == f = [i \in 0..n |-> KeptAt(f, S, i)]

LEMMA KeptExist == \A n \in Nat : \A S : \E f : IsKept(f, S, n)
<1> DEFINE N == {n \in Nat : \A S : \E f : IsKept(f, S, n)}
<1>1. 0 \in N
  <2> SUFFICES ASSUME NEW S PROVE \E f : IsKept(f, S, 0)
    OBVIOUS
  <2> DEFINE f == [i \in 0..0 |-> <<>>]
  <2>1. IsKept(f, S, 0)
    <3>1. \A i \in 0..0 : KeptAt(f, S, i) = <<>>
      BY DEF KeptAt
    <3> QED BY <3>1 DEF IsKept
  <2> QED BY <2>1
<1>2. ASSUME NEW n \in Nat, n \in N PROVE n + 1 \in N
  <2> SUFFICES ASSUME NEW S PROVE \E f : IsKept(f, S, n + 1)
    OBVIOUS
  <2>1. PICK f : IsKept(f, S, n)
    BY <1>2
  <2> DEFINE h == [i \in 0..n + 1 |-> IF i = n + 1 THEN KeptAt(f, S, n + 1) ELSE f[i]]
  <2>2. IsKept(h, S, n + 1)
    <3>1. \A i \in 0..n : h[i] = f[i] /\ f[i] = KeptAt(f, S, i)
      BY <2>1 DEF IsKept
    <3>2. \A i \in 0..n + 1 : i # 0 => i - 1 \in 0..n /\ h[i - 1] = f[i - 1]
      BY <3>1
    <3>3. \A i \in 0..n + 1 : KeptAt(h, S, i) = KeptAt(f, S, i)
      BY <3>2 DEF KeptAt
    <3>4. \A i \in 0..n + 1 : h[i] = KeptAt(h, S, i)
      BY <3>1, <3>3
    <3> QED BY <3>4 DEF IsKept
  <2> QED BY <2>2
<1> HIDE DEF N
<1>3. \A n \in Nat : n \in N
  BY <1>1, <1>2, SetInduction
<1> QED BY <1>3 DEF N

(* InOrder has the elements of its set, all of them.                       *)
LEMMA InOrderIs ==
  ASSUME NEW S \in SUBSET DOMAIN Type
  PROVE  /\ InOrder(S) \in Seq(S)
         /\ \A n \in S : \E i \in 1..Len(InOrder(S)) : InOrder(S)[i] = n
<1> DEFINE L == Len(Order)
<1> DEFINE kept == CHOOSE f : IsKept(f, S, L)
<1>0. L \in Nat
  BY Numbers
<1>1. IsKept(kept, S, L)
  BY <1>0, KeptExist
<1>2. InOrder(S) = kept[L]
  BY DEF InOrder, IsKept, KeptAt
<1> HIDE DEF kept
<1>a. \A i \in 0..L : kept[i] = KeptAt(kept, S, i)
  BY <1>1 DEF IsKept
<1>3. kept[0] = <<>>
  BY <1>0, <1>a DEF KeptAt
<1>4. \A i \in 1..L : kept[i] = IF Order[i] \in S THEN Append(kept[i - 1], Order[i]) ELSE kept[i - 1]
  BY <1>0, <1>a DEF KeptAt
<1> DEFINE Good(i) ==
      /\ kept[i] \in Seq(S)
      /\ \A j \in 1..i : Order[j] \in S => \E k \in 1..Len(kept[i]) : kept[i][k] = Order[j]
<1> DEFINE N == {i \in Nat : i <= L => Good(i)}
<1>5. 0 \in N
  <2>1. kept[0] \in Seq(S) /\ \A j \in 1..0 : FALSE
    BY <1>3
  <2> QED BY <2>1
<1>6. ASSUME NEW i \in Nat, i \in N PROVE i + 1 \in N
  <2> SUFFICES ASSUME i + 1 <= L PROVE Good(i + 1)
    OBVIOUS
  <2>1. Good(i) /\ i + 1 \in 1..L /\ (i + 1) - 1 = i
    BY <1>0, <1>6
  <2>2. kept[i + 1] = IF Order[i + 1] \in S THEN Append(kept[i], Order[i + 1]) ELSE kept[i]
    BY <1>4, <2>1
  <2>3. CASE Order[i + 1] \notin S
    <3>1. kept[i + 1] = kept[i]
      BY <2>2, <2>3
    <3>2. \A j \in 1..i + 1 : Order[j] \in S => j \in 1..i
      BY <2>3
    <3> QED BY <2>1, <3>1, <3>2
  <2>4. CASE Order[i + 1] \in S
    <3> DEFINE q == kept[i]
    <3>1. kept[i + 1] = Append(q, Order[i + 1]) /\ q \in Seq(S)
      BY <2>1, <2>2, <2>4
    <3>2. /\ kept[i + 1] \in Seq(S) /\ Len(kept[i + 1]) = Len(q) + 1 /\ Len(q) \in Nat
          /\ kept[i + 1][Len(q) + 1] = Order[i + 1]
          /\ \A k \in 1..Len(q) : kept[i + 1][k] = q[k]
      BY <2>4, <3>1
    <3>3. ASSUME NEW j \in 1..i + 1, Order[j] \in S
          PROVE  \E k \in 1..Len(kept[i + 1]) : kept[i + 1][k] = Order[j]
      <4>1. CASE j = i + 1
        <5>1. Len(q) + 1 \in 1..Len(kept[i + 1])
          BY <3>2
        <5> QED BY <3>2, <4>1, <5>1
      <4>2. CASE j # i + 1
        <5>1. j \in 1..i
          BY <4>2
        <5>2. PICK k \in 1..Len(q) : q[k] = Order[j]
          BY <2>1, <3>3, <5>1
        <5>3. k \in 1..Len(kept[i + 1]) /\ kept[i + 1][k] = Order[j]
          BY <3>2, <5>2
        <5> QED BY <5>3
      <4> QED BY <4>1, <4>2
    <3> QED BY <3>2, <3>3
  <2> QED BY <2>3, <2>4
<1>7. Good(L)
  <2> HIDE DEF Good
  <2>1. \A i \in Nat : i \in N
    <3> HIDE DEF N
    <3> QED BY <1>5, <1>6, SetInduction
  <2> QED BY <1>0, <2>1
<1>8. ASSUME NEW n \in S PROVE \E i \in 1..Len(InOrder(S)) : InOrder(S)[i] = n
  <2>1. PICK j \in 1..L : Order[j] = n
    BY Numbers
  <2> QED BY <1>2, <1>7, <2>1
<1> QED BY <1>2, <1>7, <1>8

LEMMA PlacedIs ==
  ASSUME NEW S \in SUBSET DOMAIN Type, NEW made \in [S -> BOOLEAN]
  PROVE  /\ Placed(made) \in Seq(Place)
         /\ \A n \in S : \E i \in DOMAIN Placed(made) : Placed(made)[i].n = n
         /\ (\A n \in S : made[n] = motion) => Placed(made) = Whole(S)
<1> DEFINE q == InOrder(S)
<1>1. q \in Seq(S) /\ \A n \in S : \E i \in 1..Len(q) : q[i] = n
  BY InOrderIs
<1>2. DOMAIN made = S
  OBVIOUS
<1>3. Placed(made) = [i \in DOMAIN q |-> [n |-> q[i], moving |-> made[q[i]]]]
  BY <1>2 DEF Placed
<1>4. Whole(S) = [i \in DOMAIN q |-> [n |-> q[i], moving |-> motion]]
  BY DEF Whole
<1> HIDE DEF q
<1>5. DOMAIN q = 1..Len(q) /\ Len(q) \in Nat /\ \A i \in 1..Len(q) : q[i] \in S
  BY <1>1
<1>6. \A i \in 1..Len(q) : [n |-> q[i], moving |-> made[q[i]]] \in Place
  BY <1>5 DEF Place
<1>7. Placed(made) \in Seq(Place)
  BY <1>3, <1>5, <1>6
<1>8. ASSUME NEW n \in S PROVE \E i \in DOMAIN Placed(made) : Placed(made)[i].n = n
  <2>1. PICK i \in 1..Len(q) : q[i] = n
    BY <1>1
  <2> QED BY <1>3, <1>5, <2>1
<1>9. ASSUME \A n \in S : made[n] = motion PROVE Placed(made) = Whole(S)
  <2>1. \A i \in DOMAIN q : made[q[i]] = motion
    BY <1>5, <1>9
  <2> QED BY <1>3, <1>4, <2>1
<1> QED BY <1>7, <1>8, <1>9

-----------------------------------------------------------------------------
(* A build, an answer at a time.                                           *)

(* What is there when a build has come to the next gif.                    *)
LEMMA DoneNext ==
  ASSUME NEW at \in {0} \cup Gifs, NEW old \in BOOLEAN, NEW sheet \in BOOLEAN,
         at # 0 => sheet = old
  PROVE  LET stop == NextGif(at + 1)
         IN /\ stop \in Nat /\ stop <= Len(Type) + 1
            /\ (stop <= Len(Type) => stop \in Gifs)
            /\ Done(at, old) \cup ({at} \ {0}) \cup (IF sheet THEN at + 1..stop - 1 ELSE {})
                 = Done(stop, sheet)
            /\ Done(stop, sheet) \subseteq DOMAIN Type
            /\ stop > Len(Type) => Done(stop, sheet) = IF sheet THEN DOMAIN Type ELSE Gifs
<1> DEFINE stop == NextGif(at + 1)
<1>0. Len(Type) \in Nat /\ DOMAIN Type = 1..Len(Type) /\ Gifs \subseteq 1..Len(Type)
  BY Numbers
<1>1. at \in Nat /\ at <= Len(Type) /\ at + 1 \in Nat \ {0} /\ at + 1 <= Len(Type) + 1
  BY <1>0
<1>2. /\ stop \in Nat /\ stop >= at + 1 /\ stop <= Len(Type) + 1
      /\ \A i \in at + 1..stop - 1 : i \notin Gifs
      /\ stop <= Len(Type) => stop \in Gifs
  BY <1>1, NextGifIs
<1> HIDE DEF stop
<1>3. Done(at, old) \cup ({at} \ {0}) \cup (IF sheet THEN at + 1..stop - 1 ELSE {})
        = Done(stop, sheet)
  <2>1. ASSUME NEW n, n \in Done(at, old) \cup ({at} \ {0}) \cup (IF sheet THEN at + 1..stop - 1 ELSE {})
        PROVE  n \in Done(stop, sheet)
    <3>1. CASE n \in Done(at, old)
      BY <1>1, <1>2, <3>1 DEF Done
    <3>2. CASE n \in {at} \ {0}
      BY <1>1, <1>2, <3>2 DEF Done
    <3>3. CASE sheet /\ n \in at + 1..stop - 1
      BY <1>1, <1>2, <3>3 DEF Done
    <3> QED BY <2>1, <3>1, <3>2, <3>3
  <2>2. ASSUME NEW n \in Done(stop, sheet)
        PROVE  n \in Done(at, old) \cup ({at} \ {0}) \cup (IF sheet THEN at + 1..stop - 1 ELSE {})
    <3>1. n \in 1..stop - 1 /\ (n \in Gifs \/ sheet)
      BY DEF Done
    <3>2. CASE n < at
      <4>1. n \in 1..at - 1 /\ (n \in Gifs \/ old)
        BY <1>1, <1>2, <3>1, <3>2
      <4> QED BY <4>1 DEF Done
    <3>3. CASE n = at
      BY <3>1, <3>3
    <3>4. CASE n > at
      <4>1. n \in at + 1..stop - 1
        BY <1>1, <1>2, <3>1, <3>4
      <4> QED BY <1>2, <3>1, <4>1
    <3> QED BY <1>1, <3>1, <3>2, <3>3, <3>4
  <2> QED BY <2>1, <2>2
<1>4. Done(stop, sheet) \subseteq DOMAIN Type
  BY <1>0, <1>2 DEF Done
<1>5. ASSUME stop > Len(Type) PROVE Done(stop, sheet) = IF sheet THEN DOMAIN Type ELSE Gifs
  <2>1. stop - 1 = Len(Type)
    BY <1>0, <1>2, <1>5
  <2> QED BY <1>0, <2>1 DEF Done
<1> QED BY <1>2, <1>3, <1>4, <1>5 DEF stop

LEMMA AnswerKept ==
  ASSUME BuildInv, NEW k \in DOMAIN builds, NEW ok \in BOOLEAN, Answer(k, ok)
  PROVE  BuildInv'
<1> DEFINE b     == builds[k]
<1> DEFINE sheet == IF b.at = 0 THEN ok ELSE b.sheet
<1> DEFINE stop  == NextGif(b.at + 1)
<1> DEFINE texts == IF sheet THEN b.at + 1..stop - 1 ELSE {}
<1> DEFINE D     == DOMAIN b.made \cup ({b.at} \ {0}) \cup texts
<1> DEFINE made  == [n \in D |-> IF n \in DOMAIN b.made THEN b.made[n] ELSE motion]
<1>1. /\ IF stop > Len(Type)
         THEN /\ builds' = SubSeq(builds, 1, k - 1) \o SubSeq(builds, k + 1, Len(builds))
              /\ els' = els \o Placed(made)
         ELSE /\ builds' = [builds EXCEPT ![k] = [at |-> stop, sheet |-> sheet, made |-> made]]
              /\ els' = els
      /\ UNCHANGED <<motion, controls, overlapped>>
  BY DEF Answer
<1>2. /\ builds \in Seq(Build) /\ els \in Seq(Place) /\ motion \in BOOLEAN
      /\ Len(builds) \in Nat /\ DOMAIN builds = 1..Len(builds) /\ k \in 1..Len(builds)
  <2>1. builds \in Seq(Build) /\ els \in Seq(Place) /\ motion \in BOOLEAN
    BY DEF BuildInv
  <2> QED BY <2>1
<1>3. b \in Build
  BY <1>2
<1> HIDE DEF b
<1>4. /\ b.at \in {0} \cup Gifs /\ b.sheet \in BOOLEAN
      /\ b.made \in [Done(b.at, b.sheet) -> BOOLEAN]
  BY <1>3 DEF Build
<1>5. sheet \in BOOLEAN /\ (b.at # 0 => sheet = b.sheet)
  BY <1>4
<1> HIDE DEF sheet
<1>6. DOMAIN b.made = Done(b.at, b.sheet)
  BY <1>4
<1>7. /\ stop \in Nat /\ stop <= Len(Type) + 1
      /\ stop <= Len(Type) => stop \in Gifs
      /\ D = Done(stop, sheet) /\ D \subseteq DOMAIN Type
      /\ stop > Len(Type) => D = IF sheet THEN DOMAIN Type ELSE Gifs
  <2> DEFINE at == b.at
  <2> DEFINE old == b.sheet
  <2> DEFINE all == Done(at, old) \cup ({at} \ {0}) \cup (IF sheet THEN at + 1..NextGif(at + 1) - 1 ELSE {})
  <2>1. /\ NextGif(at + 1) \in Nat /\ NextGif(at + 1) <= Len(Type) + 1
        /\ (NextGif(at + 1) <= Len(Type) => NextGif(at + 1) \in Gifs)
        /\ all = Done(NextGif(at + 1), sheet)
        /\ Done(NextGif(at + 1), sheet) \subseteq DOMAIN Type
        /\ NextGif(at + 1) > Len(Type) =>
             Done(NextGif(at + 1), sheet) = IF sheet THEN DOMAIN Type ELSE Gifs
    <3> HIDE DEF at, old
    <3>1. at \in {0} \cup Gifs /\ old \in BOOLEAN /\ sheet \in BOOLEAN /\ (at # 0 => sheet = old)
      BY <1>4, <1>5 DEF at, old
    <3> QED BY <3>1, DoneNext
  <2>2. D = all
    BY <1>6
  <2> HIDE DEF all
  <2> QED BY <2>1, <2>2
<1> HIDE DEF stop, D
<1>8. made \in [D -> BOOLEAN]
  BY <1>2, <1>4, <1>6
<1>9. ASSUME \A n \in DOMAIN b.made : b.made[n] = motion
      PROVE  \A n \in D : made[n] = motion
  BY <1>9
<1> HIDE DEF made
<1>10. ~overlapped => Single(builds, els, motion)
  BY DEF BuildInv
<1>11. CASE stop > Len(Type)
  <2>1. /\ builds' = SubSeq(builds, 1, k - 1) \o SubSeq(builds, k + 1, Len(builds))
        /\ els' = els \o Placed(made)
    BY <1>1, <1>11
  <2>2. /\ Placed(made) \in Seq(Place)
        /\ \A n \in D : \E i \in DOMAIN Placed(made) : Placed(made)[i].n = n
        /\ (\A n \in D : made[n] = motion) => Placed(made) = Whole(D)
    BY <1>7, <1>8, PlacedIs
  <2>3. builds' \in Seq(Build) /\ els' \in Seq(Place)
    <3>1. SubSeq(builds, 1, k - 1) \in Seq(Build) /\ SubSeq(builds, k + 1, Len(builds)) \in Seq(Build)
      BY <1>2
    <3> QED BY <1>2, <2>1, <2>2, <3>1
  <2>4. ASSUME ~overlapped
        PROVE  builds' = <<>> /\ els' = Whole(D)
    <3>1. Len(builds) = 1 /\ els = <<>> /\ \A n \in DOMAIN b.made : b.made[n] = motion
      BY <1>2, <1>10, <2>4 DEF Single, b
    <3>2. k = 1
      BY <1>2, <3>1
    <3>3. SubSeq(builds, 1, 0) = <<>> /\ SubSeq(builds, 2, 1) = <<>>
      BY <1>2
    <3>4. builds' = <<>>
      BY <2>1, <3>1, <3>2, <3>3
    <3>5. Placed(made) = Whole(D)
      BY <1>9, <2>2, <3>1
    <3>6. els' = Placed(made)
      BY <2>1, <2>2, <3>1
    <3> QED BY <3>4, <3>5, <3>6
  <2>5. Gifs \subseteq {els'[i].n : i \in DOMAIN els'}
    <3> SUFFICES ASSUME NEW n \in Gifs PROVE \E i \in DOMAIN els' : els'[i].n = n
      OBVIOUS
    <3>1. n \in D
      BY <1>7, <1>11, Numbers
    <3>2. PICK i \in DOMAIN Placed(made) : Placed(made)[i].n = n
      BY <2>2, <3>1
    <3> DEFINE q == Placed(made)
    <3>3. q \in Seq(Place) /\ i \in 1..Len(q) /\ q[i].n = n /\ els' = els \o q
      BY <2>1, <2>2, <3>2
    <3> HIDE DEF q
    <3>4. /\ Len(els) + i \in 1..Len(els') /\ els'[Len(els) + i] = q[i]
          /\ DOMAIN els' = 1..Len(els')
      BY <1>2, <3>3
    <3> QED BY <3>3, <3>4
  <2>6. Whole(Gifs)' = Whole(Gifs) /\ Whole(DOMAIN Type)' = Whole(DOMAIN Type)
    BY <1>1 DEF Whole
  <2>7. EachOnce'
    <3>1. D \in {Gifs, DOMAIN Type}
      BY <1>7, <1>11
    <3>2. ~overlapped' => builds' = <<>> /\ els' \in {Whole(Gifs)', Whole(DOMAIN Type)'}
      BY <1>1, <2>4, <2>6, <3>1
    <3> QED BY <2>5, <3>2 DEF EachOnce
  <2>8. ~overlapped' => Single(builds', els', motion')
    BY <1>1, <2>4 DEF Single
  <2> QED BY <1>1, <1>2, <2>3, <2>7, <2>8 DEF BuildInv
<1>12. CASE ~(stop > Len(Type))
  <2> DEFINE c == [at |-> stop, sheet |-> sheet, made |-> made]
  <2>1. builds' = [builds EXCEPT ![k] = c] /\ els' = els
    BY <1>1, <1>12
  <2>2. stop \in Gifs
    BY <1>7, <1>12, Numbers
  <2>3. made \in Made
    BY <1>7, <1>8 DEF Made
  <2>4. c \in Build
    BY <1>5, <1>7, <1>8, <2>2, <2>3 DEF Build
  <2>5. c.made = made /\ DOMAIN c.made = D
    BY <1>8
  <2> HIDE DEF c
  <2>6. /\ builds' \in Seq(Build) /\ Len(builds') = Len(builds) /\ builds' # <<>>
        /\ DOMAIN builds' = DOMAIN builds
        /\ \A j \in DOMAIN builds : builds'[j] = IF j = k THEN c ELSE builds[j]
    BY <1>2, <2>1, <2>4
  <2>7. ASSUME ~overlapped PROVE Single(builds', els', motion) /\ els' = <<>>
    <3>1. /\ Len(builds) = 1 /\ els = <<>>
          /\ \A j \in DOMAIN builds : \A n \in DOMAIN builds[j].made : builds[j].made[n] = motion
      BY <1>2, <1>10, <2>7 DEF Single
    <3>2. \A n \in D : made[n] = motion
      BY <1>2, <1>9, <3>1 DEF b
    <3>3. \A j \in DOMAIN builds' : \A n \in DOMAIN builds'[j].made : builds'[j].made[n] = motion
      BY <2>5, <2>6, <3>1, <3>2
    <3> QED BY <2>1, <2>6, <3>1, <3>3 DEF Single
  <2>8. EachOnce'
    BY <1>1, <2>6, <2>7 DEF EachOnce
  <2> QED BY <1>1, <1>2, <2>1, <2>6, <2>7, <2>8 DEF BuildInv
<1> QED BY <1>11, <1>12

(* Everything is built anew: by a motion button or on another visit.       *)
LEMMA NewBuildOK ==
  /\ NewBuild \in Build /\ DOMAIN NewBuild.made = {}
  /\ <<>> \in Seq(Build) /\ <<>> \in Seq(Place)
<1> DEFINE e == [n \in {} |-> FALSE]
<1>1. e \in [{} -> BOOLEAN] /\ DOMAIN e = {}
  OBVIOUS
<1>2. NewBuild = [at |-> 0, sheet |-> FALSE, made |-> e]
  BY DEF NewBuild
<1> HIDE DEF e
<1>3. Done(0, FALSE) = {}
  BY DEF Done
<1>4. e \in Made
  BY <1>1 DEF Made
<1>5. NewBuild \in Build
  BY <1>1, <1>2, <1>3, <1>4 DEF Build
<1>6. DOMAIN NewBuild.made = {}
  BY <1>1, <1>2
<1> QED BY <1>5, <1>6

LEMMA StartedAgain ==
  ASSUME NEW es, es = <<>>, NEW bs, bs = <<NewBuild>>, NEW m
  PROVE  bs \in Seq(Build) /\ bs # <<>> /\ Single(bs, es, m)
<1>1. bs \in Seq(Build) /\ Len(bs) = 1 /\ DOMAIN bs = {1} /\ bs[1] = NewBuild
  BY NewBuildOK
<1> QED BY <1>1, NewBuildOK DEF Single

LEMMA SetMotionBuild == ASSUME BuildInv, SetMotion PROVE BuildInv'
<1>1. /\ motion' = ~motion /\ els' = <<>> /\ builds' = Append(builds, NewBuild)
      /\ overlapped' = (builds # <<>>)
  BY DEF SetMotion
<1>2. builds \in Seq(Build) /\ motion \in BOOLEAN
  BY DEF BuildInv
<1>3. builds' \in Seq(Build) /\ builds' # <<>> /\ els' \in Seq(Place) /\ motion' \in BOOLEAN
  BY <1>1, <1>2, NewBuildOK
<1>4. ASSUME ~overlapped' PROVE Single(builds', els', motion')
  <2>1. builds = <<>>
    BY <1>1, <1>4
  <2>2. builds' = <<NewBuild>>
    BY <1>1, <2>1
  <2> QED BY <1>1, <2>2, StartedAgain
<1>5. EachOnce'
  BY <1>1, <1>3 DEF EachOnce
<1> QED BY <1>3, <1>4, <1>5 DEF BuildInv

LEMMA BuildInitial ==
  ASSUME TRUE
  PROVE  /\ HspInit => BuildInv
         /\ BuildInv /\ Reload => BuildInv'
<1>1. ASSUME HspInit PROVE BuildInv
  <2>1. builds = <<NewBuild>> /\ els = <<>> /\ motion \in BOOLEAN
    BY <1>1 DEF HspInit
  <2>2. builds \in Seq(Build) /\ builds # <<>> /\ Single(builds, els, motion) /\ els \in Seq(Place)
    BY <2>1, StartedAgain, NewBuildOK
  <2> QED BY <2>1, <2>2 DEF BuildInv, EachOnce
<1>2. ASSUME BuildInv, Reload PROVE BuildInv'
  <2>1. /\ builds' = <<NewBuild>> /\ els' = <<>>
        /\ motion' \in IF Got("motion") # "" THEN {Got("motion") = "1"} ELSE BOOLEAN
    BY <1>2 DEF Reload, Opened
  <2>2. motion' \in BOOLEAN
    BY <2>1
  <2>3. builds' \in Seq(Build) /\ builds' # <<>> /\ Single(builds', els', motion') /\ els' \in Seq(Place)
    BY <2>1, StartedAgain, NewBuildOK
  <2> QED BY <2>1, <2>2, <2>3 DEF BuildInv, EachOnce
<1> QED BY <1>1, <1>2

LEMMA BuildInvariant == HspSpec => []BuildInv
<1>1. ASSUME BuildInv, UNCHANGED still PROVE BuildInv'
  BY <1>1 DEF BuildInv, still, EachOnce, Whole
<1>2. ASSUME HspNext, ~Building, ~Reload PROVE SetMotion \/ UNCHANGED still
  BY <1>2 DEF HspNext, PointerDown, Navigate, Click, Key, Escape, Resize, Elsewhere, still, ToggleMotion
<1>3. ASSUME BuildInv, [HspNext]_hspVars PROVE BuildInv'
  <2>1. CASE Building
    BY <1>3, <2>1, AnswerKept DEF Building
  <2>2. CASE Reload
    BY <1>3, <2>2, BuildInitial
  <2>3. CASE HspNext /\ ~Building /\ ~Reload
    BY <1>1, <1>2, <1>3, <2>3, SetMotionBuild
  <2>4. CASE UNCHANGED hspVars
    BY <1>1, <1>3, <2>4 DEF hspVars, still
  <2> QED BY <1>3, <2>1, <2>2, <2>3, <2>4
<1> QED BY <1>3, BuildInitial, PTL DEF HspSpec

(* When nothing is being built, every element of the page stands once, in  *)
(* reading order and as the motion button says, and nothing stands before  *)
(* (Page.build, setMotion), for any page, any order of its answers, and    *)
(* any failures; unless motion was switched while a build was in flight.   *)
THEOREM ElementsStandOnce == HspSpec => []EachOnce
<1>1. BuildInv => EachOnce
  BY DEF BuildInv
<1> QED BY <1>1, BuildInvariant, PTL
-----------------------------------------------------------------------------
(* The laws of what the pages show, for inputs of any size.                *)

LEMMA Elements ==
  ASSUME NEW C, NEW q \in Seq(C)
  PROVE  (\A i \in DOMAIN q : q[i] \in C) /\ (\A i \in 1..Len(q) : q[i] \in C)
OBVIOUS

AnyLink == [ref : Addresses, external : BOOLEAN, names : BOOLEAN]

LEMMA LinksAlwaysStay == ASSUME NEW l \in AnyLink PROVE LinksStay(l)
<1> DEFINE u == l.ref
<1> DEFINE o == LinkOutcome(l)
<1>1. /\ u \in Addresses /\ u.scheme \in {"", "http", "https", "data"} /\ u.rooted \in BOOLEAN
      /\ u.tail \in {"", "#", "?"}
      /\ u.scheme \in {"http", "https"} => u.host # ""
      /\ u.scheme = "data" => u.host = "" /\ ~u.rooted
      /\ u.host # "" => u.rooted
      /\ l.external \in BOOLEAN /\ l.names \in BOOLEAN
  BY DEF AnyLink, Addresses, Refs, WellFormed, Nowhere
<1>2. /\ Missing.scheme = "" /\ Missing.host = "" /\ Missing.title = "" /\ ~Missing.rooted
      /\ Here.scheme = "" /\ Here.host = "" /\ Here.title = "" /\ ~Here.rooted
  BY DEF Missing, Here, Nowhere
<1> DEFINE inside == u.scheme = "" /\ u.host = "" /\ Internal(u)
<1>3. /\ Dead.act = "dead" /\ LeftAlone.act = "left"
      /\ Go(u.title, FALSE).act = "go" /\ Go(u.title, FALSE).word = u.title /\ ~Go(u.title, FALSE).query
      /\ Go(u.title, u.tail = "?").act = "go" /\ Go(u.title, u.tail = "?").word = u.title
      /\ Go(u.title, u.tail = "?").query <=> u.tail = "?"
  BY DEF Dead, LeftAlone, Go
<1>4. \/ u = Missing /\ o = LeftAlone
      \/ u # Missing /\ u.scheme \in {"http", "https"} /\ u.host = Home /\ Internal(u) /\ u.title # "" /\ o = Go(u.title, FALSE)
      \/ u # Missing /\ u.scheme \in {"http", "https"} /\ o = Dead
      \/ u # Missing /\ u.scheme \in {"", "data"} /\ (IsWikipedia(l) \/ l.external) /\ o = Dead
      \/ u # Missing /\ u.scheme \in {"", "data"} /\ (u = Here \/ (inside /\ u.title = "")) /\ o = LeftAlone
      \/ u # Missing /\ inside /\ u.title # "" /\ o = Go(u.title, u.tail = "?")
      \/ u # Missing /\ u.scheme \in {"", "data"} /\ ~inside /\ o = Dead
  BY <1>1, <1>2 DEF LinkOutcome, Nowhere
<1>5. /\ Resolved(u).host = IF u.scheme = "data" THEN "" ELSE IF u.host = "" THEN Home ELSE u.host
      /\ Resolved(u).below = IF u.rooted \/ u.scheme = "data" THEN "" ELSE "wiki"
      /\ Resolved(u).area = u.area /\ Resolved(u).title = u.title /\ Resolved(u).query = (u.tail = "?")
  BY DEF Resolved, Nowhere
<1>6. o.act = "go" => Resolved(u).host = Home /\ Resolved(u).below = "" /\ Resolved(u).area \in {"wiki", "w"}
  BY <1>3, <1>4, <1>5 DEF Internal
<1>7. o.act = "go" /\ ~Resolved(u).query => o.word = Resolved(u).title /\ ~o.query
  <2>1. Resolved(u).query <=> u.tail = "?"
    BY <1>5
  <2> QED BY <1>3, <1>4, <1>5, <2>1
<1>8. Resolved(u).host # Home => o = Dead
  BY <1>1, <1>2, <1>4, <1>5
<1>9. o.act = "left" => u.title = ""
  <2> HIDE DEF inside
  <2> QED BY <1>2, <1>3, <1>4 DEF inside
<1>10. Internal(u) /\ u.host = Nowhere /\ u.title # "" /\ ~l.external /\ ~l.names => o.act = "go"
  <2> SUFFICES ASSUME Internal(u) /\ u.host = Nowhere /\ u.title # "" /\ ~l.external /\ ~l.names
               PROVE  o.act = "go"
    OBVIOUS
  <2>1. u.scheme = "" /\ u # Missing /\ inside /\ u # Here
    BY <1>1, <1>2 DEF Internal, Nowhere
  <2>2. ~IsWikipedia(l)
    BY DEF IsWikipedia, Nowhere
  <2> QED BY <1>3, <1>4, <2>1, <2>2
<1> QED BY <1>6, <1>7, <1>8, <1>9, <1>10 DEF LinksStay

AnyImage == [src : Addresses, dataSrc : Addresses, srcset : Seq([url : Addresses, size : Int])]

LEMMA AbsoluteResolves ==
  ASSUME NEW u \in Addresses
  PROVE  AskedAs(Absolute(u), u) /\ Absolute(Absolute(u)) = Absolute(u)
<1>1. /\ u \in [scheme : {"", "http", "https", "data"}, host : Hosts \cup {Nowhere}, rooted : BOOLEAN,
             area : Areas, title : Titles \cup {""}, tail : {"", "#", "?"}]
      /\ u.scheme = "data" => u.host = Nowhere
      /\ u.host # Nowhere => u.rooted
  BY DEF Addresses, Refs, WellFormed
<1>2. CASE u.scheme # "" \/ u = Missing
  <2>1. Absolute(u) = u
    BY <1>2 DEF Absolute
  <2> QED BY <1>2, <2>1 DEF AskedAs
<1>3. CASE u.scheme = "" /\ u # Missing
  <2> DEFINE v == Absolute(u)
  <2>1. /\ v.scheme = "https" /\ v.host = (IF u.host = Nowhere THEN Home ELSE u.host) /\ v.rooted
        /\ v.area = u.area /\ v.title = u.title /\ v.tail = u.tail
    BY <1>1, <1>3 DEF Absolute
  <2>2. Absolute(v) = v
    BY <2>1 DEF Absolute
  <2> DEFINE host == IF u.host = Nowhere THEN Home ELSE u.host
  <2> DEFINE query == u.tail = "?"
  <2> DEFINE at(below) == [host |-> host, below |-> below, area |-> u.area, title |-> u.title, query |-> query]
  <2>3. Resolved(v) = at("")
    BY <2>1 DEF Resolved, Home, Nowhere
  <2>4. Resolved(u) = at(IF u.rooted THEN "" ELSE "wiki")
    BY <1>3 DEF Resolved
  <2>6. Resolved(v).host = Resolved(u).host
    <3>1. Resolved(v).host = host
      BY <2>1 DEF Resolved, Home, Nowhere
    <3>2. Resolved(u).host = host
      BY <1>3 DEF Resolved
    <3> QED BY <3>1, <3>2
  <2> HIDE DEF v, host, query
  <2>5. (u.rooted \/ u.scheme # "") => Resolved(v) = Resolved(u)
    <3>1. u.rooted => Resolved(u) = at("")
      BY <2>4
    <3> HIDE DEF at
    <3> QED BY <1>3, <2>3, <3>1
  <2>7. AskedAs(v, u)
    <3>1. v.scheme # "" /\ v.area = u.area /\ v.title = u.title /\ v.tail = u.tail
      BY <2>1
    <3> HIDE DEF at
    <3> QED BY <2>5, <2>6, <3>1 DEF AskedAs
  <2> QED BY <2>2, <2>7 DEF v
<1> QED BY <1>2, <1>3

LEMMA PictureIs ==
  ASSUME NEW C, NEW D, NEW img \in [src : C, dataSrc : C, srcset : D], NEW a, NEW b, NEW c
  PROVE  [img EXCEPT !.src = a, !.dataSrc = b, !.srcset = c] = [src |-> a, dataSrc |-> b, srcset |-> c]
<1> DEFINE one == [img EXCEPT !.src = a]
<1> DEFINE two == [one EXCEPT !.dataSrc = b]
<1>1. one = [src |-> a, dataSrc |-> img.dataSrc, srcset |-> img.srcset]
  OBVIOUS
<1>2. two = [src |-> a, dataSrc |-> b, srcset |-> img.srcset]
  <2> HIDE DEF one
  <2> QED BY <1>1
<1>3. [two EXCEPT !.srcset = c] = [src |-> a, dataSrc |-> b, srcset |-> c]
  <2> HIDE DEF two
  <2> QED BY <1>2
<1> QED BY <1>3

LEMMA CandidateIs ==
  ASSUME NEW r \in [url : Addresses, size : Int], NEW a
  PROVE  [r EXCEPT !.url = a] = [url |-> a, size |-> r.size]
OBVIOUS

LEMMA SrcsetIs ==
  ASSUME NEW q \in Seq([url : Addresses, size : Int])
  PROVE  /\ Srcset(q) = [i \in DOMAIN q |-> [url |-> Absolute(q[i].url), size |-> q[i].size]]
         /\ DOMAIN Srcset(q) = DOMAIN q /\ Len(Srcset(q)) = Len(q)
<1>1. \A i \in DOMAIN q : q[i] \in [url : Addresses, size : Int]
  BY Elements
<1>2. \A i \in DOMAIN q : [q[i] EXCEPT !.url = Absolute(@)] = [url |-> Absolute(q[i].url), size |-> q[i].size]
  BY <1>1, CandidateIs
<1>3. Srcset(q) = [i \in DOMAIN q |-> [url |-> Absolute(q[i].url), size |-> q[i].size]]
  BY <1>2 DEF Srcset
<1>4. DOMAIN Srcset(q) = 1..Len(q) /\ Len(q) \in Nat
  BY <1>3
<1> QED BY <1>3, <1>4

LEMMA PicturesAlwaysResolve == ASSUME NEW img \in AnyImage PROVE PicturesResolve(img)
<1> DEFINE p == Picture(img)
<1> DEFINE q == img.srcset
<1>1. img.src \in Addresses /\ img.dataSrc \in Addresses /\ q \in Seq([url : Addresses, size : Int])
  BY DEF AnyImage
<1>2. p = [src |-> Absolute(img.src), dataSrc |-> Absolute(img.dataSrc), srcset |-> Srcset(q)]
  BY PictureIs DEF AnyImage, Picture
<1>3. \A i \in DOMAIN q : q[i].url \in Addresses
  <2>1. \A i \in DOMAIN q : q[i] \in [url : Addresses, size : Int]
    BY <1>1, Elements
  <2> QED BY <2>1
<1>4. /\ DOMAIN Srcset(q) = DOMAIN q /\ Len(Srcset(q)) = Len(q)
      /\ \A i \in DOMAIN q : Srcset(q)[i] = [url |-> Absolute(q[i].url), size |-> q[i].size]
  BY <1>1, SrcsetIs
<1>5. ASSUME NEW i \in DOMAIN q
      PROVE  /\ Absolute(Srcset(q)[i].url) = Srcset(q)[i].url
             /\ AskedAs(Srcset(q)[i].url, q[i].url) /\ Srcset(q)[i].size = q[i].size
  <2>1. q[i].url \in Addresses
    BY <1>3
  <2>2. Srcset(q)[i].url = Absolute(q[i].url) /\ Srcset(q)[i].size = q[i].size
    <3>1. Srcset(q)[i] = [url |-> Absolute(q[i].url), size |-> q[i].size]
      BY <1>4
    <3> QED BY <3>1
  <2>3. Absolute(Absolute(q[i].url)) = Absolute(q[i].url) /\ AskedAs(Absolute(q[i].url), q[i].url)
    BY <2>1, AbsoluteResolves
  <2> QED BY <2>2, <2>3
<1>6. Srcset(Srcset(q)) = Srcset(q)
  <2>1. \A i \in DOMAIN q :
          [Srcset(q)[i] EXCEPT !.url = Absolute(@)] = Srcset(q)[i]
    BY <1>4, <1>5
  <2>2. Srcset(q) = [i \in DOMAIN q |-> Srcset(q)[i]]
    BY <1>1, <1>4, SrcsetIs
  <2> QED BY <1>4, <2>1, <2>2 DEF Srcset
<1>7. Picture(p) = p
  <2>a. p.src = Absolute(img.src) /\ p.dataSrc = Absolute(img.dataSrc) /\ p.srcset = Srcset(q)
    BY <1>2
  <2>b. /\ Absolute(Absolute(img.src)) = Absolute(img.src)
        /\ Absolute(Absolute(img.dataSrc)) = Absolute(img.dataSrc)
    BY <1>1, AbsoluteResolves
  <2>1. Absolute(p.src) = p.src /\ Absolute(p.dataSrc) = p.dataSrc /\ Srcset(p.srcset) = p.srcset
    BY <2>a, <2>b, <1>6
  <2>2. [p EXCEPT !.src = p.src, !.dataSrc = p.dataSrc, !.srcset = p.srcset] = p
    BY <1>2
  <2> QED BY <2>1, <2>2 DEF Picture
<1>8. \A i \in DOMAIN q : AskedAs(p.srcset[i].url, q[i].url) /\ p.srcset[i].size = q[i].size
  <2>1. p.srcset = Srcset(q)
    BY <1>2
  <2> HIDE DEF p
  <2> QED BY <1>5, <2>1
<1>9. AskedAs(p.src, img.src) /\ AskedAs(p.dataSrc, img.dataSrc)
  <2>1. p.src = Absolute(img.src) /\ p.dataSrc = Absolute(img.dataSrc)
    BY <1>2
  <2> QED BY <1>1, <2>1, AbsoluteResolves
<1>10. p.srcset = Srcset(q)
  BY <1>2
<1> HIDE DEF p
<1> QED BY <1>4, <1>7, <1>8, <1>9, <1>10 DEF PicturesResolve, p

AnyLobby == [players : Seq([host : BOOLEAN, ready : BOOLEAN]), words : STRING \X STRING]

LEMMA LobbyAlwaysTells == ASSUME NEW b \in AnyLobby PROVE LobbyTells(b.players, b.words)
<1> DEFINE q == b.players
<1>1. q \in Seq([host : BOOLEAN, ready : BOOLEAN]) /\ Len(q) \in Nat
  BY DEF AnyLobby
<1>2. AllReady(q) <=> \A i \in DOMAIN q : Badge(q[i]) # "waiting"
  BY <1>1 DEF AllReady, Badge
<1>3. Startable(q, b.words) <=> StartStatus(q, b.words) = "ready"
  <2> DEFINE v == b.words
  <2>1. (Len(q) >= 2) <=> ~(Len(q) < 2)
    BY <1>1
  <2> HIDE DEF q, v
  <2>2. CASE Len(q) < 2
    BY <2>1, <2>2 DEF Startable, StartStatus
  <2>3. CASE Len(q) >= 2 /\ (v[1] = "" \/ v[2] = "")
    BY <2>1, <2>3 DEF Startable, StartStatus
  <2>4. CASE Len(q) >= 2 /\ v[1] # "" /\ v[2] # ""
    BY <2>1, <2>4 DEF Startable, StartStatus
  <2> QED BY <2>1, <2>2, <2>3, <2>4 DEF v
<1>4. StartStatus(q, b.words) = "not all ready" => ~AllReady(q)
  BY <1>1 DEF StartStatus
<1>5. StartStatus(q, b.words) = "ready" => AllReady(q)
  BY <1>1 DEF StartStatus
<1> QED BY <1>2, <1>3, <1>4, <1>5 DEF LobbyTells

AnyAnchors ==
  SUBSET [url : STRING, page : STRING, anchor : STRING, tooltip : STRING, title : STRING, href : STRING]

LEMMA LinksAlwaysLand == ASSUME NEW ls \in AnyAnchors PROVE LinksLand(ls)
<1> SUFFICES ASSUME NEW l \in ls
             PROVE  /\ LinkHref(l) # <<>> /\ LinkHref(l)[1] = "here" => LinkHref(l)[2] \in Anchors(ls)
                    /\ Node(l).newTab => Node(l).note
  BY DEF LinksLand
<1>1. LinkHref(l) # <<>> /\ LinkHref(l)[1] = "here" => LinkHref(l)[2] \in Anchors(ls)
  <2>1. CASE l.url # ""
    BY <2>1 DEF LinkHref
  <2>2. CASE l.url = "" /\ l.page # ""
    BY <2>2 DEF LinkHref
  <2>3. CASE l.url = "" /\ l.page = "" /\ l.anchor # ""
    BY <2>3 DEF LinkHref, Anchors
  <2>4. CASE l.url = "" /\ l.page = "" /\ l.anchor = ""
    BY <2>4 DEF LinkHref
  <2> QED BY <2>1, <2>2, <2>3, <2>4
<1> QED BY <1>1 DEF Node
(* A function that is defined by recursion over a prefix of the naturals   *)
(* exists.                                                                 *)
Unfolded(f, base, G, n) == f = [i \in 0..n |-> IF i = 0 THEN base ELSE G[<<i, f[i - 1]>>]]

LEMMA Unfolds ==
  ASSUME NEW X, NEW base \in X, NEW n \in Nat, NEW G \in [(1..n) \X X -> X]
  PROVE  \E f \in [0..n -> X] : Unfolded(f, base, G, n)
<1> USE DEF Unfolded
<1> DEFINE Is(f, m) == Unfolded(f, base, G, m)
<1> DEFINE N == {m \in Nat : m <= n => \E f \in [0..m -> X] : Is(f, m)}
<1>1. 0 \in N
  <2> DEFINE f == [i \in 0..0 |-> base]
  <2>1. f \in [0..0 -> X] /\ Is(f, 0)
    OBVIOUS
  <2> QED BY <2>1
<1>2. ASSUME NEW m \in Nat, m \in N PROVE m + 1 \in N
  <2> SUFFICES ASSUME m + 1 <= n PROVE \E f \in [0..m + 1 -> X] : Is(f, m + 1)
    OBVIOUS
  <2>1. PICK f \in [0..m -> X] : Is(f, m)
    BY <1>2
  <2> DEFINE h == [i \in 0..m + 1 |-> IF i = m + 1 THEN G[<<m + 1, f[m]>>] ELSE f[i]]
  <2>2. f[m] \in X /\ <<m + 1, f[m]>> \in (1..n) \X X
    BY <2>1
  <2>3. G[<<m + 1, f[m]>>] \in X
    BY <2>2
  <2>4. h \in [0..m + 1 -> X]
    BY <2>1, <2>3
  <2>5. \A i \in 0..m + 1 : i # 0 => i - 1 \in 0..m /\ h[i - 1] = f[i - 1]
    OBVIOUS
  <2>6. \A i \in 0..m : h[i] = f[i] /\ f[i] = IF i = 0 THEN base ELSE G[<<i, f[i - 1]>>]
    BY <2>1
  <2>7. h[m + 1] = G[<<m + 1, h[m]>>] /\ m + 1 # 0 /\ (m + 1) - 1 = m
    OBVIOUS
  <2>8. \A i \in 0..m + 1 : h[i] = IF i = 0 THEN base ELSE G[<<i, h[i - 1]>>]
    <3> SUFFICES ASSUME NEW i \in 0..m + 1 PROVE h[i] = IF i = 0 THEN base ELSE G[<<i, h[i - 1]>>]
      OBVIOUS
    <3>1. CASE i = m + 1
      BY <2>7, <3>1
    <3>2. CASE i \in 0..m
      <4>1. i # 0 => h[i - 1] = f[i - 1]
        BY <2>5
      <4> HIDE DEF h
      <4> QED BY <2>6, <3>2, <4>1
    <3> QED BY <3>1, <3>2
  <2>9. Is(h, m + 1)
    <3> HIDE DEF h
    <3> QED BY <2>4, <2>8
  <2> QED BY <2>4, <2>9
<1>3. \A m \in Nat : m \in N
  <2> HIDE DEF N
  <2> QED BY <1>1, <1>2, SetInduction
<1> QED BY <1>3

-----------------------------------------------------------------------------
(* Sorting by insertion.  A strict order R of the positions 1..n, as a set *)
(* of pairs; the place of a position among the first m is one more than    *)
(* how many of them are before it.                                         *)
Ordered(R, n) ==
  /\ \A i \in 1..n : <<i, i>> \notin R
  /\ \A i, j \in 1..n : i # j => <<i, j>> \in R \/ <<j, i>> \in R
  /\ \A i, j, k \in 1..n : <<i, j>> \in R /\ <<j, k>> \in R => <<i, k>> \in R

Ahead(R, m, i) == {j \in 1..m : <<j, i>> \in R}
PlaceOf(R, m, i) == 1 + Cardinality(Ahead(R, m, i))

LEMMA Counts ==
  ASSUME NEW m \in Nat
  PROVE  \A S \in SUBSET (1..m) : IsFiniteSet(S) /\ Cardinality(S) \in 0..m
<1>1. IsFiniteSet(1..m) /\ Cardinality(1..m) = m
  BY FS_Interval
<1> SUFFICES ASSUME NEW S \in SUBSET (1..m) PROVE IsFiniteSet(S) /\ Cardinality(S) \in 0..m
  OBVIOUS
<1>2. IsFiniteSet(S) /\ Cardinality(S) <= m
  BY <1>1, FS_Subset
<1> QED BY <1>2, FS_CardinalityType

(* With one more position, the places of those it is before move up by     *)
(* one: exactly those at or above its own.                                 *)
LEMMA PlacesMove ==
  ASSUME NEW n \in Nat, NEW R, Ordered(R, n), NEW m \in Nat, m + 1 <= n, NEW i \in 1..m
  PROVE  /\ PlaceOf(R, m, i) \in 1..m /\ PlaceOf(R, m + 1, m + 1) \in 1..m + 1
         /\ PlaceOf(R, m, m + 1) = PlaceOf(R, m + 1, m + 1)
         /\ <<i, m + 1>> \in R => /\ PlaceOf(R, m, i) < PlaceOf(R, m + 1, m + 1)
                                  /\ PlaceOf(R, m + 1, i) = PlaceOf(R, m, i)
         /\ <<m + 1, i>> \in R => /\ PlaceOf(R, m, i) >= PlaceOf(R, m + 1, m + 1)
                                  /\ PlaceOf(R, m + 1, i) = PlaceOf(R, m, i) + 1
<1> DEFINE A == Ahead(R, m, i)
<1> DEFINE B == Ahead(R, m, m + 1)
<1>1. /\ A \subseteq 1..m /\ B \subseteq 1..m /\ i \notin A /\ m + 1 \notin A
      /\ i \in 1..n /\ m + 1 \in 1..n /\ 1..m \subseteq 1..n
  BY DEF Ahead, Ordered
<1>2. Ahead(R, m + 1, m + 1) = B
  BY DEF Ahead, Ordered
<1>3. /\ IsFiniteSet(A) /\ Cardinality(A) \in 0..m /\ IsFiniteSet(B) /\ Cardinality(B) \in 0..m
      /\ IsFiniteSet(A \cup {i}) /\ Cardinality(A \cup {i}) = Cardinality(A) + 1
      /\ Cardinality(A \cup {i}) \in 0..m
  <2>1. IsFiniteSet(A) /\ Cardinality(A) \in 0..m /\ IsFiniteSet(B) /\ Cardinality(B) \in 0..m
    BY <1>1, Counts
  <2>2. IsFiniteSet(A \cup {i}) /\ Cardinality(A \cup {i}) = Cardinality(A) + 1
    BY <1>1, <2>1, FS_AddElement
  <2>3. A \cup {i} \in SUBSET (1..m)
    BY <1>1
  <2> QED BY <2>1, <2>2, <2>3, Counts
<1>4. PlaceOf(R, m, i) = 1 + Cardinality(A) /\ PlaceOf(R, m + 1, m + 1) = 1 + Cardinality(B)
      /\ PlaceOf(R, m, m + 1) = 1 + Cardinality(B)
  BY <1>2 DEF PlaceOf
<1>5. CASE <<i, m + 1>> \in R
  <2>1. <<m + 1, i>> \notin R
    BY <1>1, <1>5 DEF Ordered
  <2>2. Ahead(R, m + 1, i) = A
    BY <2>1 DEF Ahead
  <2>3. A \cup {i} \subseteq B
    BY <1>1, <1>5 DEF Ahead, Ordered
  <2>4. Cardinality(A \cup {i}) <= Cardinality(B)
    BY <1>3, <2>3, FS_Subset
  <2> HIDE DEF A, B
  <2> QED BY <1>3, <1>4, <2>1, <2>2, <2>4 DEF PlaceOf
<1>6. CASE <<m + 1, i>> \in R
  <2>1. <<i, m + 1>> \notin R
    BY <1>1, <1>6 DEF Ordered
  <2>2. Ahead(R, m + 1, i) = A \cup {m + 1}
    BY <1>1, <1>6 DEF Ahead
  <2>3. B \subseteq A
    BY <1>1, <1>6 DEF Ahead, Ordered
  <2>4. Cardinality(B) <= Cardinality(A)
    BY <1>3, <2>3, FS_Subset
  <2>5. Cardinality(A \cup {m + 1}) = Cardinality(A) + 1
    BY <1>1, <1>3, FS_AddElement
  <2> HIDE DEF A, B
  <2> QED BY <1>3, <1>4, <2>1, <2>2, <2>4, <2>5 DEF PlaceOf
<1>7. <<i, m + 1>> \in R \/ <<m + 1, i>> \in R
  BY <1>1 DEF Ordered
<1>8. PlaceOf(R, m, i) \in 1..m /\ PlaceOf(R, m + 1, m + 1) \in 1..m + 1
  <2> HIDE DEF A, B
  <2> QED BY <1>3, <1>4
<1> HIDE DEF A, B
<1> QED BY <1>4, <1>5, <1>6, <1>7, <1>8

(* What an insertion does.                                                 *)
LEMMA InsertAtIs ==
  ASSUME NEW C, NEW s \in Seq(C), NEW p \in 1..Len(s) + 1, NEW c \in C
  PROVE  /\ InsertAt(s, p, c) \in Seq(C) /\ Len(InsertAt(s, p, c)) = Len(s) + 1
         /\ InsertAt(s, p, c)[p] = c
         /\ \A k \in 1..p - 1 : InsertAt(s, p, c)[k] = s[k]
         /\ \A k \in p..Len(s) : InsertAt(s, p, c)[k + 1] = s[k]
<1>1. /\ SubSeq(s, 1, p - 1) \in Seq(C) /\ Len(SubSeq(s, 1, p - 1)) = p - 1
      /\ \A k \in 1..p - 1 : SubSeq(s, 1, p - 1)[k] = s[k]
  OBVIOUS
<1>2. /\ SubSeq(s, p, Len(s)) \in Seq(C) /\ Len(SubSeq(s, p, Len(s))) = Len(s) - p + 1
      /\ \A k \in 1..Len(s) - p + 1 : SubSeq(s, p, Len(s))[k] = s[k + p - 1]
  OBVIOUS
<1> DEFINE a == SubSeq(s, 1, p - 1)
<1> DEFINE b == SubSeq(s, p, Len(s))
<1> HIDE DEF a, b
<1>3. InsertAt(s, p, c) = a \o <<c>> \o b
  BY DEF InsertAt, a, b
<1>4. a \in Seq(C) /\ b \in Seq(C) /\ Len(a) = p - 1 /\ Len(b) = Len(s) - p + 1 /\ Len(s) \in Nat
  BY <1>1, <1>2 DEF a, b
<1>5. (a \o <<c>>) \in Seq(C) /\ Len(a \o <<c>>) = p /\ (a \o <<c>>)[p] = c
      /\ \A k \in 1..p - 1 : (a \o <<c>>)[k] = a[k]
  BY <1>4
<1>6. /\ a \o <<c>> \o b \in Seq(C) /\ Len(a \o <<c>> \o b) = Len(s) + 1
      /\ \A k \in 1..p : (a \o <<c>> \o b)[k] = (a \o <<c>>)[k]
      /\ \A k \in p + 1..Len(s) + 1 : (a \o <<c>> \o b)[k] = b[k - p]
  BY <1>4, <1>5
<1>7. \A k \in p..Len(s) : InsertAt(s, p, c)[k + 1] = s[k]
  <2> SUFFICES ASSUME NEW k \in p..Len(s) PROVE InsertAt(s, p, c)[k + 1] = s[k]
    OBVIOUS
  <2>1. k + 1 \in p + 1..Len(s) + 1 /\ (k + 1) - p \in 1..Len(s) - p + 1
    BY <1>4
  <2>2. b[(k + 1) - p] = s[((k + 1) - p) + p - 1] /\ ((k + 1) - p) + p - 1 = k
    BY <1>2, <1>4, <2>1 DEF b
  <2> QED BY <1>3, <1>6, <2>1, <2>2
<1>8. \A k \in 1..p - 1 : InsertAt(s, p, c)[k] = s[k]
  BY <1>1, <1>3, <1>4, <1>5, <1>6 DEF a
<1> QED BY <1>3, <1>5, <1>6, <1>7, <1>8

(* Inserting each element behind those that come before it or are as good  *)
(* puts each at its place, and nothing else anywhere.                      *)
Agree(B, R, e) ==
  \A i, j \in 1..Len(e) : i < j => (<<e[i], e[j]>> \in B <=> <<i, j>> \in R)

Inserts(f, B, e) ==
  /\ f[0] = <<>>
  /\ \A m \in 1..Len(e) :
       f[m] = InsertAt(f[m - 1],
                       1 + Cardinality({k \in DOMAIN f[m - 1] : <<f[m - 1][k], e[m]>> \in B}), e[m])

WellPlaced(s, R, e) ==
  /\ Len(s) = Len(e)
  /\ \A i \in 1..Len(e) : s[PlaceOf(R, Len(e), i)] = e[i]
  /\ \A k \in 1..Len(e) : \E i \in 1..Len(e) : k = PlaceOf(R, Len(e), i)

LEMMA InsertionSorts ==
  ASSUME NEW C, NEW e \in Seq(C), NEW R, Ordered(R, Len(e)), NEW B, Agree(B, R, e),
         NEW f \in [0..Len(e) -> Seq(C)], Inserts(f, B, e)
  PROVE  WellPlaced(f[Len(e)], R, e)
<1> USE DEF Agree, Inserts, WellPlaced
<1> DEFINE n == Len(e)
<1> DEFINE Sound(m) ==
      /\ Len(f[m]) = m
      /\ \A i \in 1..m : f[m][PlaceOf(R, m, i)] = e[i]
      /\ \A k \in 1..m : \E i \in 1..m : k = PlaceOf(R, m, i)
<1> DEFINE N == {m \in Nat : m <= n => Sound(m)}
<1>0. n \in Nat /\ DOMAIN e = 1..n
  OBVIOUS
<1>1. 0 \in N
  OBVIOUS
<1>2. ASSUME NEW m \in Nat, m \in N PROVE m + 1 \in N
  <2> SUFFICES ASSUME m + 1 <= n PROVE Sound(m + 1)
    OBVIOUS
  <2> DEFINE s == f[m]
  <2> DEFINE q == PlaceOf(R, m + 1, m + 1)
  <2> DEFINE S == {k \in DOMAIN s : <<s[k], e[m + 1]>> \in B}
  <2>1. /\ m + 1 \in 1..n /\ (m + 1) - 1 = m /\ m \in 0..n /\ 1..m \subseteq 1..n
        /\ s \in Seq(C) /\ Len(s) = m /\ DOMAIN s = 1..m /\ e[m + 1] \in C /\ Sound(m)
    <3>1. m + 1 \in 1..n /\ (m + 1) - 1 = m /\ m \in 0..n /\ 1..m \subseteq 1..n /\ Sound(m)
      BY <1>0, <1>2
    <3>2. s \in Seq(C)
      BY <3>1
    <3>3. e[m + 1] \in C
      BY <3>1, Elements
    <3>4. Len(s) = m
      BY <3>1
    <3> HIDE DEF s
    <3>5. DOMAIN s = 1..m
      BY <3>2, <3>4
    <3> QED BY <3>1, <3>2, <3>3, <3>4, <3>5
  <2>2. \A i \in 1..m :
          /\ PlaceOf(R, m, i) \in 1..m /\ q \in 1..m + 1
          /\ <<i, m + 1>> \in R => /\ PlaceOf(R, m, i) < q
                                   /\ PlaceOf(R, m + 1, i) = PlaceOf(R, m, i)
          /\ <<i, m + 1>> \notin R => /\ PlaceOf(R, m, i) >= q
                                      /\ PlaceOf(R, m + 1, i) = PlaceOf(R, m, i) + 1
    <3>1. \A i \in 1..m : <<i, m + 1>> \in R \/ <<m + 1, i>> \in R
      BY <2>1 DEF Ordered
    <3>2. ASSUME NEW i \in 1..m
          PROVE  /\ PlaceOf(R, m, i) \in 1..m /\ q \in 1..m + 1
                 /\ <<i, m + 1>> \in R => /\ PlaceOf(R, m, i) < q
                                          /\ PlaceOf(R, m + 1, i) = PlaceOf(R, m, i)
                 /\ <<m + 1, i>> \in R => /\ PlaceOf(R, m, i) >= q
                                          /\ PlaceOf(R, m + 1, i) = PlaceOf(R, m, i) + 1
      BY <1>0, PlacesMove
    <3> HIDE DEF q
    <3> QED BY <3>1, <3>2
  <2>3. q \in 1..m + 1
    <3>1. Ahead(R, m + 1, m + 1) \in SUBSET (1..m)
      BY <1>0, <2>1 DEF Ahead, Ordered
    <3>2. Cardinality(Ahead(R, m + 1, m + 1)) \in 0..m
      BY <3>1, Counts
    <3> QED BY <3>2 DEF PlaceOf
  <2>4. S = 1..q - 1
    <3>1. ASSUME NEW k \in 1..m PROVE <<s[k], e[m + 1]>> \in B <=> k < q
      <4>1. PICK i \in 1..m : k = PlaceOf(R, m, i)
        BY <2>1
      <4>2. s[k] = e[i] /\ i \in 1..n /\ i < m + 1
        <5>1. s[PlaceOf(R, m, i)] = e[i]
          BY <2>1
        <5> QED BY <2>1, <4>1, <5>1
      <4>3. <<e[i], e[m + 1]>> \in B <=> <<i, m + 1>> \in R
        BY <1>0, <2>1, <4>2
      <4> QED BY <2>2, <2>3, <4>1, <4>2, <4>3
    <3>2. q - 1 \in 0..m
      BY <2>3
    <3>3. \A k \in 1..m : k < q <=> k \in 1..q - 1
      <4> HIDE DEF q
      <4> QED BY <2>3
    <3>4. 1..q - 1 \subseteq 1..m
      <4> HIDE DEF q
      <4> QED BY <2>3
    <3>5. S = {k \in 1..m : <<s[k], e[m + 1]>> \in B}
      BY <2>1
    <3> HIDE DEF q, s, S
    <3> QED BY <3>1, <3>3, <3>4, <3>5
  <2>5. f[m + 1] = InsertAt(s, q, e[m + 1])
    <3>1. Cardinality(1..q - 1) = q - 1
      <4>1. q - 1 \in Nat /\ 1 \in Int
        BY <2>3
      <4> HIDE DEF q
      <4>2. q - 1 \in Int
        BY <4>1
      <4>3. Cardinality(1..q - 1) = IF 1 > q - 1 THEN 0 ELSE (q - 1) - 1 + 1
        BY <4>1, <4>2, FS_Interval
      <4> QED BY <4>1, <4>3
    <3>2. f[m + 1] = InsertAt(s, 1 + Cardinality(S), e[m + 1])
      BY <1>0, <2>1
    <3>3. 1 + Cardinality(S) = q
      <4>1. Cardinality(S) = q - 1
        BY <2>4, <3>1
      <4> HIDE DEF S, q
      <4> QED BY <2>3, <4>1
    <3> QED BY <3>2, <3>3
  <2>6. /\ Len(f[m + 1]) = m + 1 /\ f[m + 1][q] = e[m + 1]
        /\ \A k \in 1..q - 1 : f[m + 1][k] = s[k]
        /\ \A k \in q..m : f[m + 1][k + 1] = s[k]
    <3>1. q \in 1..Len(s) + 1
      BY <2>1, <2>3
    <3>2. s \in Seq(C) /\ e[m + 1] \in C /\ Len(s) = m
      BY <2>1
    <3> DEFINE c == e[m + 1]
    <3> HIDE DEF s, q, c
    <3>3. /\ Len(InsertAt(s, q, c)) = Len(s) + 1 /\ InsertAt(s, q, c)[q] = c
          /\ \A k \in 1..q - 1 : InsertAt(s, q, c)[k] = s[k]
          /\ \A k \in q..Len(s) : InsertAt(s, q, c)[k + 1] = s[k]
      <4>1. c \in C
        BY <3>2 DEF c
      <4>2. s \in Seq(C) /\ q \in 1..Len(s) + 1
        BY <3>1, <3>2
      <4>3. Len(InsertAt(s, q, c)) = Len(s) + 1
        BY <4>1, <4>2, InsertAtIs
      <4>4. InsertAt(s, q, c)[q] = c
        BY <4>1, <4>2, InsertAtIs
      <4>5. \A k \in 1..q - 1 : InsertAt(s, q, c)[k] = s[k]
        BY <4>1, <4>2, InsertAtIs
      <4>6. \A k \in q..Len(s) : InsertAt(s, q, c)[k + 1] = s[k]
        BY <4>1, <4>2, InsertAtIs
      <4> QED BY <4>3, <4>4, <4>5, <4>6
    <3>4. f[m + 1] = InsertAt(s, q, c)
      BY <2>5 DEF c
    <3> QED BY <3>2, <3>3, <3>4 DEF c
  <2>7. ASSUME NEW i \in 1..m + 1 PROVE f[m + 1][PlaceOf(R, m + 1, i)] = e[i]
    <3>1. CASE i = m + 1
      BY <2>6, <3>1
    <3>2. CASE i \in 1..m
      <4>1. s[PlaceOf(R, m, i)] = e[i]
        BY <2>1, <3>2
      <4>2. CASE <<i, m + 1>> \in R
        <5>1. PlaceOf(R, m, i) \in 1..q - 1 /\ PlaceOf(R, m + 1, i) = PlaceOf(R, m, i)
          BY <2>2, <2>3, <3>2, <4>2
        <5> QED BY <2>6, <4>1, <5>1
      <4>3. CASE <<i, m + 1>> \notin R
        <5>1. PlaceOf(R, m, i) \in q..m /\ PlaceOf(R, m + 1, i) = PlaceOf(R, m, i) + 1
          BY <2>2, <2>3, <3>2, <4>3
        <5> QED BY <2>6, <4>1, <5>1
      <4> QED BY <4>2, <4>3
    <3> QED BY <3>1, <3>2
  <2>8. ASSUME NEW k \in 1..m + 1 PROVE \E i \in 1..m + 1 : k = PlaceOf(R, m + 1, i)
    <3>1. CASE k = q
      BY <3>1
    <3>2. CASE k < q
      <4>1. PICK i \in 1..m : k = PlaceOf(R, m, i)
        BY <2>1, <2>3, <3>2
      <4>2. k = PlaceOf(R, m + 1, i)
        <5>1. <<i, m + 1>> \in R
          <6> HIDE DEF q
          <6> QED BY <2>2, <2>3, <3>2, <4>1
        <5> QED BY <2>2, <4>1, <5>1
      <4> QED BY <4>2
    <3>3. CASE k > q
      <4>1. PICK i \in 1..m : k - 1 = PlaceOf(R, m, i)
        BY <2>1, <2>3, <3>3
      <4>2. k = PlaceOf(R, m + 1, i)
        <5>1. <<i, m + 1>> \notin R
          <6> HIDE DEF q
          <6> QED BY <2>2, <2>3, <3>3, <4>1
        <5>2. PlaceOf(R, m + 1, i) = PlaceOf(R, m, i) + 1
          BY <2>2, <5>1
        <5> QED BY <4>1, <5>2
      <4> QED BY <4>2
    <3> QED BY <2>3, <3>1, <3>2, <3>3
  <2> HIDE DEF s, q, S
  <2> QED BY <2>6, <2>7, <2>8
<1>3. \A m \in Nat : m \in N
  <2> HIDE DEF N
  <2> QED BY <1>1, <1>2, SetInduction
<1>4. Sound(n)
  <2>1. n \in N
    <3> HIDE DEF N
    <3> QED BY <1>0, <1>3
  <2> HIDE DEF Sound
  <2> QED BY <1>0, <2>1
<1> QED BY <1>4

LEMMA Stays ==
  ASSUME NEW X, NEW n \in Nat, NEW g, g[0] \in X, \A i \in 1..n : g[i - 1] \in X => g[i] \in X
  PROVE  \A i \in 0..n : g[i] \in X
<1> DEFINE N == {i \in Nat : i <= n => g[i] \in X}
<1>1. 0 \in N
  OBVIOUS
<1>2. ASSUME NEW i \in Nat, i \in N PROVE i + 1 \in N
  <2> SUFFICES ASSUME i + 1 <= n PROVE g[i + 1] \in X
    OBVIOUS
  <2>1. i + 1 \in 1..n /\ (i + 1) - 1 = i /\ g[i] \in X
    BY <1>2
  <2>2. g[(i + 1) - 1] \in X => g[i + 1] \in X
    BY <2>1
  <2> QED BY <2>1, <2>2
<1>3. \A i \in Nat : i \in N
  <2> HIDE DEF N
  <2> QED BY <1>1, <1>2, SetInduction
<1> QED BY <1>3

(* A place among those that come before.                                   *)
LEMMA Among ==
  ASSUME NEW C, NEW s \in Seq(C), NEW S \in SUBSET DOMAIN s
  PROVE  1 + Cardinality(S) \in 1..Len(s) + 1
<1>1. Len(s) \in Nat /\ S \in SUBSET (1..Len(s))
  OBVIOUS
<1>2. Cardinality(S) \in 0..Len(s)
  BY <1>1, Counts
<1> QED BY <1>1, <1>2

Spot == [x : Int, y : Int]

ReadingAt(f, q, i) == IF i = 0 THEN <<>> ELSE Sorted(f[i - 1], q[i])
IsReading(f, q, n) == f = [i \in 0..n |-> ReadingAt(f, q, i)]

LEMMA SortedIsSeq ==
  ASSUME NEW s \in Seq(Spot), NEW c \in Spot
  PROVE  Sorted(s, c) \in Seq(Spot)
<1> DEFINE p == 1 + Cardinality({i \in DOMAIN s : Before(s[i], c)})
<1>1. p \in 1..Len(s) + 1
  <2>1. {i \in DOMAIN s : Before(s[i], c)} \in SUBSET DOMAIN s
    OBVIOUS
  <2> QED BY <2>1, Among
<1> HIDE DEF p
<1>2. InsertAt(s, p, c) \in Seq(Spot)
  BY <1>1, InsertAtIs
<1> QED BY <1>2 DEF Sorted, p

LEMMA OrderAlwaysFair == ASSUME NEW q \in Seq(Spot) PROVE OrderFair(q)
<1> DEFINE n == Len(q)
<1> DEFINE f == CHOOSE g : IsReading(g, q, n)
<1> DEFINE earlier(j, i) ==
      \/ q[j].y \div 8 < q[i].y \div 8
      \/ q[j].y \div 8 = q[i].y \div 8 /\ q[j].x < q[i].x
      \/ q[j].y \div 8 = q[i].y \div 8 /\ q[j].x = q[i].x /\ j < i
<1> DEFINE R == {w \in (1..n) \X (1..n) : earlier(w[1], w[2])}
<1> DEFINE B == {w \in Spot \X Spot : Before(w[1], w[2])}
<1>0. n \in Nat /\ DOMAIN q = 1..n
  OBVIOUS
<1>a. ASSUME NEW i \in 1..n PROVE q[i] \in Spot /\ q[i].x \in Int /\ q[i].y \div 8 \in Int
  <2>1. q[i] \in Spot
    BY Elements
  <2>2. q[i].x \in Int /\ q[i].y \in Int
    BY <2>1 DEF Spot
  <2> QED BY <2>1, <2>2
<1>1. \E g : IsReading(g, q, n)
  <2> DEFINE X == Seq(Spot)
  <2> DEFINE G == [w \in (1..n) \X X |-> Sorted(w[2], q[w[1]])]
  <2>1. G \in [(1..n) \X X -> X]
    <3> SUFFICES ASSUME NEW i \in 1..n, NEW s \in X PROVE Sorted(s, q[i]) \in X
      OBVIOUS
    <3> QED BY <1>a, SortedIsSeq
  <2>2. <<>> \in X
    OBVIOUS
  <2> HIDE DEF X, G
  <2>3. PICK g \in [0..n -> X] : Unfolded(g, <<>>, G, n)
    <3> HIDE DEF n
    <3> QED BY <1>0, <2>1, <2>2, Unfolds
  <2>4. ASSUME NEW i \in 0..n PROVE (IF i = 0 THEN <<>> ELSE G[<<i, g[i - 1]>>]) = ReadingAt(g, q, i)
    <3>1. CASE i = 0
      BY <3>1 DEF ReadingAt
    <3>2. CASE i # 0
      <4>1. i \in 1..n /\ i - 1 \in 0..n /\ g[i - 1] \in X
        BY <3>2, <2>3
      <4>2. G[<<i, g[i - 1]>>] = Sorted(g[i - 1], q[i])
        BY <4>1 DEF G
      <4> QED BY <3>2, <4>2 DEF ReadingAt
    <3> QED BY <3>1, <3>2
  <2> QED BY <2>3, <2>4 DEF IsReading, Unfolded
<1>2. IsReading(f, q, n) /\ ReadingOrder(q) = f[n]
  <2>1. IsReading(f, q, n)
    BY <1>1
  <2>2. ReadingOrder(q) = f[n]
    BY DEF ReadingOrder, IsReading, ReadingAt
  <2> QED BY <2>1, <2>2
<1> HIDE DEF f
<1>3. f[0] = <<>> /\ \A i \in 1..n : f[i] = Sorted(f[i - 1], q[i])
  <2>1. \A i \in 0..n : f[i] = ReadingAt(f, q, i)
    BY <1>2 DEF IsReading
  <2> QED BY <1>0, <2>1 DEF ReadingAt
<1>4. f \in [0..n -> Seq(Spot)]
  <2>1. f[0] \in Seq(Spot)
    BY <1>3
  <2>2. \A i \in 1..n : f[i - 1] \in Seq(Spot) => f[i] \in Seq(Spot)
    BY <1>3, <1>a, SortedIsSeq
  <2>3. \A i \in 0..n : f[i] \in Seq(Spot)
    BY <1>0, <2>1, <2>2, Stays
  <2> QED BY <1>2, <2>3 DEF IsReading
<1>5. Ordered(R, n)
  <2>1. \A i \in 1..n : ~earlier(i, i)
    BY <1>a
  <2>2. \A i, j \in 1..n : i # j => earlier(i, j) \/ earlier(j, i)
    BY <1>a
  <2>3. ASSUME NEW i \in 1..n, NEW j \in 1..n, NEW k \in 1..n, earlier(i, j), earlier(j, k)
        PROVE  earlier(i, k)
    <3> DEFINE row(z) == q[z].y \div 8
    <3> DEFINE col(z) == q[z].x
    <3>1. row(i) \in Int /\ row(j) \in Int /\ row(k) \in Int /\ col(i) \in Int /\ col(j) \in Int /\ col(k) \in Int
      BY <1>a
    <3>2. /\ row(i) < row(j) \/ (row(i) = row(j) /\ col(i) < col(j)) \/ (row(i) = row(j) /\ col(i) = col(j) /\ i < j)
          /\ row(j) < row(k) \/ (row(j) = row(k) /\ col(j) < col(k)) \/ (row(j) = row(k) /\ col(j) = col(k) /\ j < k)
      BY <2>3
    <3> HIDE DEF row, col
    <3>3. row(i) < row(k) \/ (row(i) = row(k) /\ col(i) < col(k)) \/ (row(i) = row(k) /\ col(i) = col(k) /\ i < k)
      BY <1>0, <3>1, <3>2
    <3> QED BY <3>3 DEF row, col
  <2>4. \A i, j \in 1..n : <<i, j>> \in R <=> earlier(i, j)
    OBVIOUS
  <2> HIDE DEF R, earlier
  <2> QED BY <2>1, <2>2, <2>3, <2>4 DEF Ordered
<1>6. ASSUME NEW i \in 1..n, NEW j \in 1..n, i < j PROVE <<q[i], q[j]>> \in B <=> <<i, j>> \in R
  <2>1. <<q[i], q[j]>> \in B <=> Before(q[i], q[j])
    BY <1>a
  <2>2. Before(q[i], q[j]) <=> earlier(i, j)
    BY <1>a, <1>6 DEF Before
  <2>3. <<i, j>> \in R <=> earlier(i, j)
    OBVIOUS
  <2> QED BY <2>1, <2>2, <2>3
<1>7. ASSUME NEW m \in 1..n
      PROVE  f[m] = InsertAt(f[m - 1],
                             1 + Cardinality({k \in DOMAIN f[m - 1] : <<f[m - 1][k], q[m]>> \in B}), q[m])
  <2> DEFINE s == f[m - 1]
  <2>0. m - 1 \in 0..n
    BY <1>0
  <2>1. s \in Seq(Spot) /\ q[m] \in Spot
    BY <1>4, <1>a, <2>0
  <2>2. \A k \in DOMAIN s : s[k] \in Spot
    <3> HIDE DEF s
    <3> QED BY <2>1
  <2>3. {k \in DOMAIN s : <<s[k], q[m]>> \in B} = {k \in DOMAIN s : Before(s[k], q[m])}
    BY <2>1, <2>2
  <2>4. f[m] = Sorted(s, q[m])
    BY <1>3
  <2> HIDE DEF B
  <2> QED BY <2>3, <2>4 DEF Sorted
<1>8. /\ Len(f[n]) = n
      /\ \A i \in 1..n : f[n][PlaceOf(R, n, i)] = q[i]
  <2> HIDE DEF R, B
  <2>1. Agree(B, R, q)
    BY <1>6 DEF Agree
  <2>2. Inserts(f, B, q)
    BY <1>3, <1>7 DEF Inserts
  <2>3. Ordered(R, Len(q)) /\ f \in [0..Len(q) -> Seq(Spot)]
    BY <1>4, <1>5
  <2>4. WellPlaced(f[Len(q)], R, q)
    BY <2>1, <2>2, <2>3, InsertionSorts
  <2> QED BY <2>4 DEF WellPlaced
<1>9. \A i \in 1..n : Ahead(R, n, i) = {j \in DOMAIN q : earlier(j, i)}
  BY <1>0 DEF Ahead
<1>10. \A i \in 1..n : PlaceOf(R, n, i) = 1 + Cardinality({j \in DOMAIN q : earlier(j, i)})
  BY <1>9 DEF PlaceOf
<1> HIDE DEF R, B
<1> QED BY <1>0, <1>2, <1>8, <1>10 DEF OrderFair

Contestant == [finished : BOOLEAN, time : Int, id : Int, path : Seq(STRING)]

RankedAt(f, q, i) == IF i = 0 THEN <<>> ELSE Insert(f[i - 1], q[i])
IsRanked(f, q, n) == f = [i \in 0..n |-> RankedAt(f, q, i)]

LEMMA InsertIs ==
  ASSUME NEW s \in Seq(Contestant), NEW c \in Contestant
  PROVE  /\ Insert(s, c) \in Seq(Contestant)
         /\ Insert(s, c) = InsertAt(s, 1 + Cardinality({i \in DOMAIN s : Compare(s[i], c) <= 0}), c)
<1> DEFINE S == {i \in DOMAIN s : Compare(s[i], c) <= 0}
<1>1. S \in SUBSET DOMAIN s
  OBVIOUS
<1>2. Insert(s, c) = InsertAt(s, Cardinality(S) + 1, c)
  BY DEF Insert
<1> HIDE DEF S
<1>3. 1 + Cardinality(S) \in 1..Len(s) + 1
  BY <1>1, Among
<1>4. Cardinality(S) + 1 = 1 + Cardinality(S)
  <2>1. Len(s) \in Nat /\ S \in SUBSET (1..Len(s))
    BY <1>1
  <2>2. Cardinality(S) \in 0..Len(s)
    BY <2>1, Counts
  <2> QED BY <2>1, <2>2
<1>5. InsertAt(s, 1 + Cardinality(S), c) \in Seq(Contestant)
  BY <1>3, InsertAtIs
<1> QED BY <1>2, <1>4, <1>5 DEF S

Sooner(q, j, i) ==
  \/ q[j].finished /\ (q[i].finished => q[j].time < q[i].time)
  \/ j < i /\ q[j].finished = q[i].finished /\ (q[i].finished => q[j].time = q[i].time)

(* Everyone at his rank, and no one else.                                  *)
LEMMA RankedInOrder ==
  ASSUME NEW q \in Seq(Contestant)
  PROVE  /\ Len(Ranked(q)) = Len(q) /\ Ranked(q) \in Seq(Contestant)
         /\ \A i \in DOMAIN q : Ranked(q)[1 + Cardinality({j \in DOMAIN q : Sooner(q, j, i)})] = q[i]
         /\ \A k \in DOMAIN Ranked(q) : \E i \in DOMAIN q : Ranked(q)[k] = q[i]
<1> DEFINE n == Len(q)
<1> DEFINE f == CHOOSE g : IsRanked(g, q, n)
<1> DEFINE R == {w \in (1..n) \X (1..n) : Sooner(q, w[1], w[2])}
<1> DEFINE B == {w \in Contestant \X Contestant : Compare(w[1], w[2]) <= 0}
<1>0. n \in Nat /\ DOMAIN q = 1..n
  OBVIOUS
<1>a. ASSUME NEW i \in 1..n PROVE q[i] \in Contestant /\ q[i].finished \in BOOLEAN /\ q[i].time \in Int
  <2>1. q[i] \in Contestant
    BY Elements
  <2> QED BY <2>1 DEF Contestant
<1>1. \E g : IsRanked(g, q, n)
  <2> DEFINE X == Seq(Contestant)
  <2> DEFINE G == [w \in (1..n) \X X |-> Insert(w[2], q[w[1]])]
  <2>1. G \in [(1..n) \X X -> X]
    <3> SUFFICES ASSUME NEW i \in 1..n, NEW s \in X PROVE Insert(s, q[i]) \in X
      OBVIOUS
    <3> QED BY <1>a, InsertIs
  <2>2. <<>> \in X
    OBVIOUS
  <2> HIDE DEF X, G
  <2>3. PICK g \in [0..n -> X] : Unfolded(g, <<>>, G, n)
    <3> HIDE DEF n
    <3> QED BY <1>0, <2>1, <2>2, Unfolds
  <2>4. ASSUME NEW i \in 0..n PROVE (IF i = 0 THEN <<>> ELSE G[<<i, g[i - 1]>>]) = RankedAt(g, q, i)
    <3>1. CASE i = 0
      BY <3>1 DEF RankedAt
    <3>2. CASE i # 0
      <4>1. i \in 1..n /\ i - 1 \in 0..n /\ g[i - 1] \in X
        BY <3>2, <2>3
      <4>2. G[<<i, g[i - 1]>>] = Insert(g[i - 1], q[i])
        BY <4>1 DEF G
      <4> QED BY <3>2, <4>2 DEF RankedAt
    <3> QED BY <3>1, <3>2
  <2> QED BY <2>3, <2>4 DEF IsRanked, Unfolded
<1>2. IsRanked(f, q, n) /\ Ranked(q) = f[n]
  <2>1. IsRanked(f, q, n)
    BY <1>1
  <2>2. Ranked(q) = f[n]
    BY DEF Ranked, IsRanked, RankedAt
  <2> QED BY <2>1, <2>2
<1> HIDE DEF f
<1>3. f[0] = <<>> /\ \A i \in 1..n : f[i] = Insert(f[i - 1], q[i])
  <2>1. \A i \in 0..n : f[i] = RankedAt(f, q, i)
    BY <1>2 DEF IsRanked
  <2> QED BY <1>0, <2>1 DEF RankedAt
<1>4. f \in [0..n -> Seq(Contestant)]
  <2>1. f[0] \in Seq(Contestant)
    BY <1>3
  <2>2. \A i \in 1..n : f[i - 1] \in Seq(Contestant) => f[i] \in Seq(Contestant)
    BY <1>3, <1>a, InsertIs
  <2>3. \A i \in 0..n : f[i] \in Seq(Contestant)
    BY <1>0, <2>1, <2>2, Stays
  <2> QED BY <1>2, <2>3 DEF IsRanked
<1>b. \A i, j \in 1..n : <<i, j>> \in R <=> Sooner(q, i, j)
  OBVIOUS
<1>5. Ordered(R, n)
  <2>1. \A i \in 1..n : ~Sooner(q, i, i)
    BY <1>a DEF Sooner
  <2>2. \A i, j \in 1..n : i # j => Sooner(q, i, j) \/ Sooner(q, j, i)
    BY <1>a DEF Sooner
  <2>3. ASSUME NEW i \in 1..n, NEW j \in 1..n, NEW k \in 1..n, Sooner(q, i, j), Sooner(q, j, k)
        PROVE  Sooner(q, i, k)
    BY <1>0, <1>a, <2>3 DEF Sooner
  <2> HIDE DEF R
  <2> QED BY <1>b, <2>1, <2>2, <2>3 DEF Ordered
<1>6. ASSUME NEW i \in 1..n, NEW j \in 1..n, i < j PROVE <<q[i], q[j]>> \in B <=> <<i, j>> \in R
  <2>1. <<q[i], q[j]>> \in B <=> Compare(q[i], q[j]) <= 0
    BY <1>a
  <2>2. Compare(q[i], q[j]) <= 0 <=> Sooner(q, i, j)
    BY <1>a, <1>6 DEF Compare, Sooner
  <2> QED BY <2>1, <2>2, <1>b
<1>7. ASSUME NEW m \in 1..n
      PROVE  f[m] = InsertAt(f[m - 1],
                             1 + Cardinality({k \in DOMAIN f[m - 1] : <<f[m - 1][k], q[m]>> \in B}), q[m])
  <2> DEFINE s == f[m - 1]
  <2>0. m - 1 \in 0..n
    BY <1>0
  <2>1. s \in Seq(Contestant) /\ q[m] \in Contestant
    BY <1>4, <1>a, <2>0
  <2>2. \A k \in DOMAIN s : s[k] \in Contestant
    <3> HIDE DEF s
    <3> QED BY <2>1
  <2>3. {k \in DOMAIN s : <<s[k], q[m]>> \in B} = {k \in DOMAIN s : Compare(s[k], q[m]) <= 0}
    BY <2>1, <2>2
  <2>4. f[m] = Insert(s, q[m])
    BY <1>3
  <2> HIDE DEF B, s
  <2>5. f[m] = InsertAt(s, 1 + Cardinality({k \in DOMAIN s : <<s[k], q[m]>> \in B}), q[m])
    BY <2>1, <2>3, <2>4, InsertIs
  <2> QED BY <2>5 DEF s
<1>8. WellPlaced(f[n], R, q)
  <2> HIDE DEF R, B
  <2>1. Agree(B, R, q)
    BY <1>6 DEF Agree
  <2>2. Inserts(f, B, q)
    BY <1>3, <1>7 DEF Inserts
  <2>3. Ordered(R, Len(q)) /\ f \in [0..Len(q) -> Seq(Contestant)]
    BY <1>4, <1>5
  <2> QED BY <2>1, <2>2, <2>3, InsertionSorts
<1>9. \A i \in 1..n : Ahead(R, n, i) = {j \in DOMAIN q : Sooner(q, j, i)}
  BY <1>0 DEF Ahead
<1> HIDE DEF R, B
<1>10. \A i \in 1..n : PlaceOf(R, n, i) = 1 + Cardinality({j \in DOMAIN q : Sooner(q, j, i)})
  BY <1>9 DEF PlaceOf
<1>11. Ranked(q) \in Seq(Contestant) /\ Len(Ranked(q)) = n
  BY <1>0, <1>2, <1>4, <1>8 DEF WellPlaced
<1>12. \A k \in 1..n : \E i \in 1..n : Ranked(q)[k] = q[i]
  BY <1>2, <1>8 DEF WellPlaced
<1>13. \A i \in 1..n : Ranked(q)[PlaceOf(R, n, i)] = q[i]
  BY <1>2, <1>8 DEF WellPlaced
<1>14. DOMAIN Ranked(q) = 1..n
  BY <1>11
<1> QED BY <1>0, <1>10, <1>11, <1>12, <1>13, <1>14

Shown == {Opponent(p) : p \in Contestant}
PanelAt(f, q, me, i) ==
  IF i = 0 THEN <<>>
  ELSE IF q[i].id = me THEN f[i - 1] ELSE Append(f[i - 1], Opponent(q[i]))
IsPanel(f, q, me, n) == f = [i \in 0..n |-> PanelAt(f, q, me, i)]

(* The panel has a line for everyone else, and no more.                    *)
LEMMA PanelComplete ==
  ASSUME NEW q \in Seq(Contestant), NEW me
  PROVE  /\ Len(Opponents(q, me)) = Cardinality({i \in DOMAIN q : q[i].id # me})
         /\ Opponents(q, me) \in Seq(Shown)
         /\ \A i \in DOMAIN q : q[i].id # me =>
              \E k \in DOMAIN Opponents(q, me) : Opponents(q, me)[k] = Opponent(q[i])
<1> DEFINE n == Len(q)
<1> DEFINE f == CHOOSE g : IsPanel(g, q, me, n)
<1> DEFINE X == Seq(Shown)
<1> DEFINE O(m) == {i \in 1..m : q[i].id # me}
<1>0. n \in Nat /\ DOMAIN q = 1..n
  OBVIOUS
<1>a. ASSUME NEW i \in 1..n PROVE Opponent(q[i]) \in Shown
  <2>1. q[i] \in Contestant
    BY Elements
  <2> QED BY <2>1 DEF Shown
<1>1. \E g : IsPanel(g, q, me, n)
  <2> DEFINE G == [w \in (1..n) \X X |-> IF q[w[1]].id = me THEN w[2] ELSE Append(w[2], Opponent(q[w[1]]))]
  <2>1. G \in [(1..n) \X X -> X]
    <3> SUFFICES ASSUME NEW i \in 1..n, NEW s \in X
                 PROVE  (IF q[i].id = me THEN s ELSE Append(s, Opponent(q[i]))) \in X
      OBVIOUS
    <3>1. Opponent(q[i]) \in Shown
      BY <1>a
    <3> QED BY <3>1
  <2>2. <<>> \in X
    OBVIOUS
  <2> HIDE DEF X, G
  <2>3. PICK g \in [0..n -> X] : Unfolded(g, <<>>, G, n)
    <3> HIDE DEF n
    <3> QED BY <1>0, <2>1, <2>2, Unfolds
  <2>4. ASSUME NEW i \in 0..n PROVE (IF i = 0 THEN <<>> ELSE G[<<i, g[i - 1]>>]) = PanelAt(g, q, me, i)
    <3>1. CASE i = 0
      BY <3>1 DEF PanelAt
    <3>2. CASE i # 0
      <4>1. i \in 1..n /\ i - 1 \in 0..n /\ g[i - 1] \in X
        BY <3>2, <2>3
      <4>2. G[<<i, g[i - 1]>>] = IF q[i].id = me THEN g[i - 1] ELSE Append(g[i - 1], Opponent(q[i]))
        BY <4>1 DEF G
      <4> QED BY <3>2, <4>2 DEF PanelAt
    <3> QED BY <3>1, <3>2
  <2> QED BY <2>3, <2>4 DEF IsPanel, Unfolded
<1>2. IsPanel(f, q, me, n) /\ Opponents(q, me) = f[n]
  <2>1. IsPanel(f, q, me, n)
    BY <1>1
  <2>2. Opponents(q, me) = f[n]
    BY DEF Opponents, IsPanel, PanelAt
  <2> QED BY <2>1, <2>2
<1> HIDE DEF f
<1>3. /\ f[0] = <<>>
      /\ \A i \in 1..n : f[i] = IF q[i].id = me THEN f[i - 1] ELSE Append(f[i - 1], Opponent(q[i]))
  <2>1. \A i \in 0..n : f[i] = PanelAt(f, q, me, i)
    BY <1>2 DEF IsPanel
  <2> QED BY <1>0, <2>1 DEF PanelAt
<1> DEFINE Good(m) ==
      /\ f[m] \in X /\ Len(f[m]) = Cardinality(O(m))
      /\ \A i \in 1..m : q[i].id # me => \E k \in 1..Len(f[m]) : f[m][k] = Opponent(q[i])
<1> DEFINE N == {m \in Nat : m <= n => Good(m)}
<1>4. 0 \in N
  <2>1. O(0) = {} /\ f[0] = <<>>
    BY <1>3
  <2>2. Cardinality(O(0)) = 0
    BY <2>1, FS_EmptySet
  <2> HIDE DEF O
  <2>3. f[0] \in X /\ Len(f[0]) = 0 /\ \A i \in 1..0 : FALSE
    BY <2>1
  <2> QED BY <2>2, <2>3
<1>5. ASSUME NEW m \in Nat, m \in N PROVE m + 1 \in N
  <2> SUFFICES ASSUME m + 1 <= n PROVE Good(m + 1)
    OBVIOUS
  <2>1. Good(m) /\ m + 1 \in 1..n /\ (m + 1) - 1 = m
    BY <1>0, <1>5
  <2>2. CASE q[m + 1].id = me
    <3>1. f[m + 1] = f[m]
      BY <1>3, <2>1, <2>2
    <3>2. O(m + 1) = O(m)
      BY <2>2
    <3>3. \A i \in 1..m + 1 : q[i].id # me => i \in 1..m
      BY <2>2
    <3> HIDE DEF O
    <3> QED BY <2>1, <3>1, <3>2, <3>3
  <2>3. CASE q[m + 1].id # me
    <3> DEFINE s == f[m]
    <3> DEFINE c == Opponent(q[m + 1])
    <3>1. f[m + 1] = Append(s, c) /\ s \in X /\ c \in Shown
      BY <1>3, <1>a, <2>1, <2>3
    <3>2. O(m + 1) = O(m) \cup {m + 1} /\ m + 1 \notin O(m) /\ O(m) \in SUBSET (1..m)
      BY <2>3
    <3>3. Cardinality(O(m + 1)) = Cardinality(O(m)) + 1
      <4>1. IsFiniteSet(O(m))
        BY <3>2, Counts
      <4> HIDE DEF O
      <4> QED BY <3>2, <4>1, FS_AddElement
    <3>4. Len(s) = Cardinality(O(m))
      BY <2>1
    <3>5. \A i \in 1..m : q[i].id # me => \E k \in 1..Len(s) : s[k] = Opponent(q[i])
      BY <2>1
    <3> HIDE DEF s, c, O
    <3>6. /\ f[m + 1] \in X /\ Len(f[m + 1]) = Len(s) + 1 /\ Len(s) \in Nat /\ f[m + 1][Len(s) + 1] = c
          /\ \A k \in 1..Len(s) : f[m + 1][k] = s[k]
      BY <3>1
    <3>7. ASSUME NEW i \in 1..m + 1, q[i].id # me
          PROVE  \E k \in 1..Len(f[m + 1]) : f[m + 1][k] = Opponent(q[i])
      <4>1. CASE i = m + 1
        <5>1. Len(s) + 1 \in 1..Len(f[m + 1])
          BY <3>6
        <5> QED BY <3>6, <4>1, <5>1 DEF c
      <4>2. CASE i \in 1..m
        <5>1. PICK k \in 1..Len(s) : s[k] = Opponent(q[i])
          BY <3>5, <3>7, <4>2
        <5>2. k \in 1..Len(f[m + 1]) /\ f[m + 1][k] = Opponent(q[i])
          BY <3>6, <5>1
        <5> QED BY <5>2
      <4> QED BY <4>1, <4>2
    <3> QED BY <3>3, <3>4, <3>6, <3>7
  <2> HIDE DEF Good
  <2> QED BY <2>2, <2>3
<1>6. Good(n)
  <2>1. n \in N
    <3> HIDE DEF N
    <3>1. \A m \in Nat : m \in N
      BY <1>4, <1>5, SetInduction
    <3> QED BY <1>0, <3>1
  <2> HIDE DEF Good
  <2> QED BY <1>0, <2>1
<1>7. DOMAIN f[n] = 1..Len(f[n])
  BY <1>6
<1>8. O(n) = {i \in DOMAIN q : q[i].id # me}
  BY <1>0
<1> HIDE DEF O
<1> QED BY <1>0, <1>2, <1>6, <1>7, <1>8

LEMMA RankingAlwaysFair == ASSUME NEW q \in Seq(Contestant) PROVE RankingFair(q)
<1> DEFINE panel == Opponents(q, 1)
<1>1. /\ Len(Ranked(q)) = Len(q) /\ Ranked(q) \in Seq(Contestant)
      /\ \A i \in DOMAIN q : Ranked(q)[1 + Cardinality({j \in DOMAIN q : Sooner(q, j, i)})] = q[i]
      /\ \A k \in DOMAIN Ranked(q) : \E i \in DOMAIN q : Ranked(q)[k] = q[i]
  BY RankedInOrder
<1>2. ASSUME NEW who \in ToSet(Ranked(q)), who.id # 1
      PROVE  \E k \in DOMAIN panel :
               /\ panel[k].id = who.id /\ panel[k].done = who.finished
               /\ panel[k].current = IF who.path = <<>> THEN "-" ELSE who.path[Len(who.path)]
  <2>1. PICK i \in DOMAIN q : who = q[i]
    BY <1>1 DEF ToSet
  <2>2. PICK k \in DOMAIN panel : panel[k] = Opponent(q[i])
    BY <1>2, <2>1, PanelComplete
  <2>3. /\ panel[k].id = who.id /\ panel[k].done = who.finished
        /\ panel[k].current = IF who.path = <<>> THEN "-" ELSE who.path[Len(who.path)]
    BY <2>1, <2>2 DEF Opponent, Last
  <2> QED BY <2>3
<1>3. Len(panel) = Cardinality({i \in DOMAIN q : q[i].id # 1})
  BY PanelComplete
<1> HIDE DEF panel
<1> QED BY <1>1, <1>2, <1>3 DEF RankingFair, Sooner, panel

(* What a law may look at: a link or a picture with any well-formed        *)
(* addresses, any lobby, any links of a page, any elements and any results. *)
AnyLaw ==
  UNION {[kind : {"link"}, of : AnyLink], [kind : {"image"}, of : AnyImage],
         [kind : {"lobby"}, of : AnyLobby], [kind : {"anchor"}, of : AnyAnchors],
         [kind : {"order"}, of : Seq(Spot)], [kind : {"ranking"}, of : Seq(Contestant)]}

(* A live link of the race stays in the dictionary and, without a query,   *)
(* goes where it says; a picture with a path from the root is found where  *)
(* the dictionary has it; the start button tells what its line does, the   *)
(* results are in order and the panel is complete; a Hypnospace page is    *)
(* read from top to bottom and its links land: whatever the words, the     *)
(* players and the elements (loadWiktionaryPage, updateLobbyUI,            *)
(* showMultiplayerVictory, updateOpponentsPanel, readingOrder, anchors).   *)
THEOREM PagesShowWhatIs == law \in AnyLaw => PageLawsHold
<1>1. CASE law \in [kind : {"link"}, of : AnyLink]
  <2>1. law.kind = "link" /\ law.of \in AnyLink
    BY <1>1
  <2> QED BY <2>1, LinksAlwaysStay DEF PageLawsHold
<1>2. CASE law \in [kind : {"image"}, of : AnyImage]
  <2>1. law.kind = "image" /\ law.of \in AnyImage
    BY <1>2
  <2> QED BY <2>1, PicturesAlwaysResolve DEF PageLawsHold
<1>3. CASE law \in [kind : {"lobby"}, of : AnyLobby]
  <2>1. law.kind = "lobby" /\ law.of \in AnyLobby
    BY <1>3
  <2> QED BY <2>1, LobbyAlwaysTells DEF PageLawsHold
<1>4. CASE law \in [kind : {"anchor"}, of : AnyAnchors]
  <2>1. law.kind = "anchor" /\ law.of \in AnyAnchors
    BY <1>4
  <2> QED BY <2>1, LinksAlwaysLand DEF PageLawsHold
<1>5. CASE law \in [kind : {"order"}, of : Seq(Spot)]
  <2>1. law.kind = "order" /\ law.of \in Seq(Spot)
    BY <1>5
  <2> QED BY <2>1, OrderAlwaysFair DEF PageLawsHold
<1>6. CASE law \in [kind : {"ranking"}, of : Seq(Contestant)]
  <2>1. law.kind = "ranking" /\ law.of \in Seq(Contestant)
    BY <1>6
  <2> QED BY <2>1, RankingAlwaysFair DEF PageLawsHold
<1> QED BY <1>1, <1>2, <1>3, <1>4, <1>5, <1>6 DEF AnyLaw
=============================================================================
