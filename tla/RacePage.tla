------------------------------ MODULE RacePage ------------------------------
(***************************************************************************)
(* One page of Wiktionary Racing (wiktionaryRacingV2/game.js, with the     *)
(* parts of multiplayer.js that run in one page): its screens and dialogs, *)
(* the games played alone, the requests for dictionary pages, the records, *)
(* and how the page follows the room it is in.                             *)
(*                                                                         *)
(* The room is this page's copy of it, with one other person and, at a     *)
(* host in debug mode, a bot; RaceLobby has the messages between pages.    *)
(* Requests are answered in any order, or fail.  Dialogs and the overlay   *)
(* of the countdown cover the whole window.  Clocks and formatting are     *)
(* left out; so is entering or making a room from a page that is still in  *)
(* another, or on its way there.                                           *)
(***************************************************************************)
EXTENDS Integers, Sequences

CONSTANTS
  Word,         \* titles, spelled as in the links
  Entry,        \* Entry[w]: the title without its case
  Links,        \* Links[w]: the titles the page of w links to
  Daily,        \* today's challenge: <<start, target>>
  Choice,       \* pairs of words that are typed in
  Typed,        \* words typed in debug mode
  Count,        \* where the countdown starts: 3
  BotClicks,    \* clicks before a bot may finish: 3
  HistoryCap,   \* records kept: 100
  MaxClicks,    \* bound: clicks in a game
  MaxLoads      \* bound: requests in flight when something new happens

ASSUME RacePageAssumption ==
  /\ Links \in [Word -> SUBSET Word] /\ DOMAIN Entry = Word
  /\ Choice \cup {Daily} \subseteq Word \X Word
  /\ {Count, HistoryCap, MaxLoads} \subseteq Nat \ {0} /\ {BotClicks, MaxClicks} \subseteq Nat

None == "none"
NoWords == <<None, None>>
Off == -1                         \* countdown: null

VARIABLES
  game,      \* gameState
  screen,    \* the active screen
  modals,    \* the dialogs that are up
  overlay,   \* whether the countdown is
  shown,     \* the title whose page is displayed, or None
  loads,     \* requests for pages in flight
  history,   \* the records in localStorage, newest first
  debug,     \* debugMode
  checking,  \* the words being validated for a practice game
  joining,   \* the join code: "no", "asked" for, "made" or "used"
  role,      \* "none", "host" or "guest"
  room,      \* lobbyState
  ticks,     \* what is left of the host's countdown
  bot,       \* [due: its first timer, moving: its next one, clicks]
  crossed    \* history: two requests were in flight together in this game

pageVars == <<game, screen, modals, overlay, shown, loads, history, debug,
              checking, joining, role, room, ticks, bot, crossed>>

Same(v, w) == v # None /\ w # None /\ Entry[v] = Entry[w]

NoGame == [mode |-> None, start |-> None, target |-> None, current |-> None,
           path |-> <<>>, clicks |-> 0, multi |-> FALSE, nav |-> FALSE]
NoRoom == [players |-> {}, ready |-> FALSE, words |-> NoWords, started |-> FALSE,
           count |-> Off, done |-> {}]
NoBot  == [due |-> FALSE, moving |-> FALSE, clicks |-> 0]

PageInit ==
  /\ game = NoGame /\ screen = "home" /\ modals = {} /\ overlay = FALSE
  /\ shown = None /\ loads = <<>> /\ history = <<>> /\ debug \in BOOLEAN
  /\ checking = NoWords /\ joining = "no"
  /\ role = "none" /\ room = NoRoom /\ ticks = 0 /\ bot = NoBot
  /\ crossed = FALSE

Free == modals = {} /\ ~overlay    \* nothing covers the page
Quiet == Len(loads) < MaxLoads

solo == <<history, debug, checking, joining>>
hall == <<role, room, ticks, bot, overlay>>

-----------------------------------------------------------------------------
(* Dictionary pages.                                                       *)

(* loadWiktionaryPage: what is displayed is hidden until an answer comes.  *)
Load(w) == loads' = Append(loads, w) /\ shown' = None /\ crossed' = (crossed \/ loads # <<>>)

LoadFirst(w) ==
  loads' = Append(loads, w) /\ shown' = None /\ crossed' = (loads # <<>>)

LoadAnswer(i, ok) ==
  /\ loads' = SubSeq(loads, 1, i - 1) \o SubSeq(loads, i + 1, Len(loads))
  /\ shown' = IF ok THEN loads[i] ELSE shown
  /\ UNCHANGED <<game, screen, modals, solo, hall, crossed>>

-----------------------------------------------------------------------------
(* Games played alone.                                                     *)

Reset(g) == [g EXCEPT !.current = None, !.path = <<>>, !.clicks = 0, !.multi = FALSE]

(* startGame, after resetGame.                                             *)
StartGame(mode, words) ==
  /\ game' = [mode |-> mode, start |-> words[1], target |-> words[2], current |-> words[1],
              path |-> <<words[1]>>, clicks |-> 0, multi |-> FALSE, nav |-> debug]
  /\ screen' = "game" /\ LoadFirst(words[1])

StartDailyChallenge ==
  /\ screen = "home" /\ Free /\ Quiet
  /\ StartGame("daily", Daily)
  /\ UNCHANGED <<modals, solo, hall>>

StartPracticeMode(words) ==
  /\ screen = "practiceSetup" /\ Free /\ checking = NoWords
  /\ ~Same(words[1], words[2])
  /\ checking' = words
  /\ UNCHANGED <<game, screen, modals, shown, loads, history, debug, joining, hall, crossed>>

(* Both words have been looked up, wherever the user is by now.            *)
PracticeAnswer(exist) ==
  /\ checking # NoWords /\ Quiet
  /\ checking' = NoWords
  /\ IF exist THEN StartGame("practice", checking)
              ELSE UNCHANGED <<game, screen, shown, loads, crossed>>
  /\ UNCHANGED <<modals, history, debug, joining, hall>>

(* saveCompletion.                                                         *)
Saved(g) ==
  IF debug THEN history
  ELSE LET entry == [mode |-> g.mode, start |-> g.start, target |-> g.target,
                     path |-> g.path, clicks |-> g.clicks]
           all   == <<entry>> \o history
       IN SubSeq(all, 1, IF Len(all) > HistoryCap THEN HistoryCap ELSE Len(all))

Pushed(w) == [game EXCEPT !.path = Append(@, w), !.clicks = @ + 1]

Victory(g) ==
  /\ game' = g /\ history' = Saved(g) /\ modals' = modals \cup {"victory"}
  /\ UNCHANGED <<screen, shown, loads, crossed>>

(* debugNavigate: any word may be typed.                                   *)
DebugNavigate(w) ==
  /\ screen = "game" /\ Free /\ Quiet /\ game.nav /\ game.clicks < MaxClicks
  /\ LET g == [Pushed(w) EXCEPT !.current = w]
     IN IF Same(w, game.target) THEN Victory(g)
        ELSE game' = g /\ Load(w) /\ UNCHANGED <<screen, modals, history>>
  /\ UNCHANGED <<debug, checking, joining, hall>>

BackTo_Recount(i) ==              \* a bug: the clicks stay counted
  /\ screen = "game" /\ Free /\ Quiet /\ i < Len(game.path)
  /\ game' = [game EXCEPT !.path = SubSeq(@, 1, i), !.current = game.path[i]]
  /\ Load(game.path[i])
  /\ UNCHANGED <<screen, modals, solo, hall>>

BackTo_Stays(i) ==                \* a bug: the page that is displayed stays
  /\ screen = "game" /\ Free /\ Quiet /\ i < Len(game.path)
  /\ game' = [game EXCEPT !.path = SubSeq(@, 1, i), !.current = game.path[i], !.clicks = i - 1]
  /\ UNCHANGED <<screen, modals, solo, hall, loads, shown, crossed>>

(* A word of the trail: back to it, and its page is asked for again.       *)
BackTo(i) ==
  /\ screen = "game" /\ Free /\ Quiet /\ i < Len(game.path)
  /\ game' = [game EXCEPT !.path = SubSeq(@, 1, i), !.current = game.path[i], !.clicks = i - 1]
  /\ Load(game.path[i])
  /\ UNCHANGED <<screen, modals, solo, hall>>

-----------------------------------------------------------------------------
(* The room.                                                               *)

Begins(g, r) == r.started /\ r.count = Off /\ ~g.multi

(* startMultiplayerGame: the game that was on, if any, is not reset.       *)
Raced(r) ==
  [mode |-> "multiplayer", start |-> r.words[1], target |-> r.words[2], current |-> r.words[1],
   path |-> <<r.words[1]>>, clicks |-> 0, multi |-> TRUE, nav |-> FALSE]

(* handleMultiplayerStateChange, with the page's game g and the room r.    *)
Told(g, r) ==
  LET begins == Begins(g, r)
      plays  == IF begins THEN Raced(r) ELSE g
      over   == /\ plays.multi /\ plays.mode = "multiplayer"
                /\ r.players # {} /\ r.done = r.players
  IN /\ room' = r
     /\ overlay' = IF r.started THEN r.count # Off ELSE overlay
     /\ game' = IF over THEN [plays EXCEPT !.multi = FALSE] ELSE plays
     /\ modals' = IF over THEN modals \cup {"results"} ELSE modals

(* A change of the room alone.                                             *)
Changed(r) ==
  /\ Told(game, r)
  /\ IF Begins(game, r)
     THEN screen' = "game" /\ LoadFirst(r.words[1])
     ELSE UNCHANGED <<screen, shown, loads, crossed>>

(* handleLinkClick on a link of the page that is displayed.                *)
ClickLink(w) ==
  /\ screen = "game" /\ Free /\ Quiet /\ game.clicks < MaxClicks
  /\ shown # None /\ w \in Links[shown]
  /\ LET g == Pushed(w)
         r == [room EXCEPT !.done = @ \cup ({"me"} \cap room.players)]
     IN CASE Same(w, game.target) /\ game.multi ->
               Told(g, r) /\ UNCHANGED <<screen, history, shown, loads, crossed>>
          [] Same(w, game.target) /\ ~game.multi -> Victory(g) /\ UNCHANGED <<room, overlay>>
          [] OTHER ->
               /\ LET h == [g EXCEPT !.current = w]
                  IN IF game.multi THEN Told(h, room)
                     ELSE game' = h /\ UNCHANGED <<modals, room, overlay>>
               /\ Load(w) /\ UNCHANGED <<screen, history>>
  /\ UNCHANGED <<debug, checking, joining, role, ticks, bot>>

(* leave, with the bot's timers.                                           *)
Left == role' = "none" /\ room' = NoRoom /\ bot' = NoBot

CreateRoom ==
  /\ screen = "multiplayerSetup" /\ Free /\ role = "none" /\ joining \in {"no", "used"}
  /\ role' = "host" /\ room' = [NoRoom EXCEPT !.players = {"me"}] /\ screen' = "multiplayerLobby"
  /\ UNCHANGED <<game, modals, shown, loads, solo, ticks, bot, overlay, crossed>>

Joined(step) ==
  /\ joining' = step
  /\ UNCHANGED <<game, screen, modals, shown, loads, history, debug, checking, hall, crossed>>

(* The first step of the join screen; joinRoom waits for the page's        *)
(* addresses, wherever the user is by the time they are there, or for      *)
(* three seconds.                                                          *)
GenerateJoinCode ==
  screen = "multiplayerJoin" /\ Free /\ role = "none" /\ joining = "no" /\ Joined("asked")

JoinCodeMade == joining = "asked" /\ Joined("made")

(* The room as the host's accept code has it; the lobby is shown last.     *)
CompleteJoin(words, phase) ==
  /\ screen = "multiplayerJoin" /\ Free /\ Quiet /\ role = "none" /\ joining = "made"
  /\ joining' = "used" /\ role' = "guest"
  /\ LET r == [NoRoom EXCEPT !.players = {"me", "other"}, !.words = words,
                             !.started = phase # "lobby",
                             !.count = IF phase = "countdown" THEN Count ELSE Off]
     IN /\ Told(game, r)
        /\ IF Begins(game, r) THEN LoadFirst(words[1])
                              ELSE UNCHANGED <<shown, loads, crossed>>
  /\ screen' = "multiplayerLobby"
  /\ UNCHANGED <<history, debug, checking, ticks, bot>>

(* The way back resets the join screen, but not a request on its way.      *)
ToggleMultiplayer ==
  /\ Free
  /\ \/ screen = "home" /\ screen' = "multiplayerSetup"
     \/ screen = "multiplayerSetup" /\ screen' \in {"home", "multiplayerJoin"}
     \/ screen = "multiplayerJoin" /\ screen' = "multiplayerSetup"
  /\ joining' = IF screen = "multiplayerJoin" /\ joining # "asked" THEN "no" ELSE joining
  /\ UNCHANGED <<game, modals, shown, loads, history, debug, checking, hall, crossed>>

LeaveLobby ==
  /\ screen = "multiplayerLobby" /\ Free
  /\ Left /\ screen' = "home"
  /\ UNCHANGED <<game, modals, overlay, shown, loads, solo, ticks, crossed>>

(* The challenge: typed, fetched earlier, or the host's message.           *)
SetChallengeWords(words) ==
  /\ Quiet /\ words # room.words
  /\ role = "host" \/ (role = "guest" /\ "other" \in room.players)
  /\ Changed([room EXCEPT !.words = words])
  /\ UNCHANGED <<solo, role, ticks, bot>>

(* Asked for in the lobby; it comes about when the page has gathered its  *)
(* addresses, on whatever screen the host is by then.                      *)
AcceptPlayer ==
  /\ role = "host" /\ "other" \notin room.players /\ Quiet
  /\ Changed([room EXCEPT !.players = @ \cup {"other"}, !.ready = FALSE])
  /\ UNCHANGED <<solo, role, ticks, bot>>

(* updateLobbyUI: what the lobby offers.                                   *)
Sections ==
  IF role = "host" THEN {"add player", "challenge", "start"} \cup (IF debug THEN {"bots"} ELSE {})
                   ELSE {"ready"}

(* addFakePlayer.                                                          *)
AddFakePlayer ==
  /\ screen = "multiplayerLobby" /\ Free /\ "bots" \in Sections /\ Quiet
  /\ "bot" \notin room.players
  /\ Changed([room EXCEPT !.players = @ \cup {"bot"}])
  /\ UNCHANGED <<solo, role, ticks, bot>>

(* What the other person's page reports: ready or not, a move (nothing     *)
(* that is kept here), a finish, or its end.                               *)
OtherReports(r) ==
  /\ "other" \in room.players /\ Quiet
  /\ \/ r = room
     \/ role = "host" /\ r = [room EXCEPT !.ready = ~@]
     \/ /\ room.started /\ room.count = Off /\ r = [room EXCEPT !.done = @ \cup {"other"}]
     \/ r = [room EXCEPT !.players = @ \ {"other"}, !.done = @ \ {"other"}]
  /\ Changed(r)
  /\ UNCHANGED <<solo, role, ticks, bot>>

(* The button of the host's lobby, or the message of a guest's host.       *)
HostStarts ==
  /\ room.words # NoWords /\ room.count = Off /\ Quiet
  /\ \/ /\ screen = "multiplayerLobby" /\ Free /\ "start" \in Sections /\ ticks = 0
        /\ room.players # {"me"} /\ ("other" \in room.players => room.ready)
        /\ ticks' = Count /\ bot' = [bot EXCEPT !.due = TRUE]
     \/ /\ role = "guest" /\ "other" \in room.players /\ ~game.multi
        /\ UNCHANGED <<ticks, bot>>
  /\ Changed([room EXCEPT !.started = TRUE, !.count = Count])
  /\ UNCHANGED <<solo, role>>

Begun_Zero(r) == [r EXCEPT !.count = 0, !.done = {}]     \* a bug: the count is left at zero

Begun(r) == [r EXCEPT !.count = Off, !.done = {}]

(* The interval, or the host's messages; the last tick begins the race.    *)
CountdownTick ==
  /\ \/ ticks > 0 /\ ticks' = ticks - 1
     \/ role = "guest" /\ "other" \in room.players /\ room.count > 0 /\ UNCHANGED ticks
  /\ LET left == (IF role = "guest" THEN room.count ELSE ticks) - 1
         r    == [room EXCEPT !.count = left]
     IN Changed(IF left = 0 THEN Begun(r) ELSE r)
  /\ UNCHANGED <<solo, role, bot>>

(* startFakePlayerSimulation, four seconds after the start.                *)
StartFakePlayers ==
  /\ bot.due
  /\ LET on == room.started /\ room.count = Off /\ "bot" \in room.players
     IN /\ bot' = [due |-> FALSE, moving |-> on, clicks |-> 0]
        /\ room' = IF on THEN [room EXCEPT !.done = @ \ {"bot"}] ELSE room
  /\ UNCHANGED <<game, screen, modals, overlay, shown, loads, solo, role, ticks, crossed>>

SimulateMove(finish) ==
  /\ bot.moving /\ Quiet
  /\ finish => bot.clicks >= BotClicks
  /\ IF "bot" \in room.done \/ ~room.started
     THEN /\ bot' = [bot EXCEPT !.moving = FALSE]
          /\ UNCHANGED <<game, screen, modals, overlay, shown, loads, room, crossed>>
     ELSE /\ bot' = [bot EXCEPT !.moving = ~finish,
                                !.clicks = IF @ < BotClicks THEN @ + 1 ELSE @]
          /\ Changed([room EXCEPT !.done = IF finish THEN @ \cup {"bot"} ELSE @])
  /\ UNCHANGED <<solo, role, ticks>>

-----------------------------------------------------------------------------
(* Screens and dialogs.                                                    *)

ShowScreen(s) ==
  /\ Free
  /\ \/ screen = "home" /\ s \in {"practiceSetup", "history"}
     \/ screen \in {"practiceSetup", "history"} /\ s = "home"
  /\ screen' = s
  /\ UNCHANGED <<game, modals, shown, loads, solo, hall, crossed>>

ToggleDebug ==
  /\ screen = "home" /\ Free /\ debug' = ~debug
  /\ UNCHANGED <<game, screen, modals, shown, loads, history, checking, joining, hall, crossed>>

(* The home button: it leaves the room only in a race.                     *)
GoHome ==
  /\ screen = "game" /\ Free
  /\ IF game.multi THEN Left ELSE UNCHANGED <<role, room, bot>>
  /\ game' = Reset(game) /\ shown' = None /\ screen' = "home"
  /\ UNCHANGED <<modals, overlay, loads, solo, ticks, crossed>>

CloseVictory(next) ==
  /\ "victory" \in modals /\ ~overlay
  /\ modals' = modals \ {"victory"} /\ screen' = next
  /\ next \in {screen, "practiceSetup"}
  /\ UNCHANGED <<game, shown, loads, solo, hall, crossed>>

(* The results: back to the lobby, or away.                                *)
CloseResults(stay) ==
  /\ "results" \in modals /\ ~overlay
  /\ modals' = modals \ {"results"}
  /\ screen' = IF stay THEN "multiplayerLobby" ELSE "home"
  /\ IF stay THEN UNCHANGED <<role, room, bot>> ELSE Left
  /\ UNCHANGED <<game, overlay, shown, loads, solo, ticks, crossed>>

-----------------------------------------------------------------------------
Alone ==
  \/ StartDailyChallenge \/ ToggleDebug \/ GoHome
  \/ \E words \in Choice : StartPracticeMode(words)
  \/ \E b \in BOOLEAN : PracticeAnswer(b)
  \/ \E w \in Typed : DebugNavigate(w)
  \/ \E i \in 1..Len(game.path) : BackTo(i)
  \/ \E w \in Word : ClickLink(w)
  \/ \E i \in 1..Len(loads), ok \in BOOLEAN : LoadAnswer(i, ok)
  \/ \E s \in {"home", "practiceSetup", "history"} : ShowScreen(s)
  \/ \E s \in {screen, "practiceSetup"} : CloseVictory(s)

Together ==
  \/ ToggleMultiplayer \/ CreateRoom \/ GenerateJoinCode \/ JoinCodeMade \/ LeaveLobby
  \/ \E words \in Choice, phase \in {"lobby", "countdown", "race"} : CompleteJoin(words, phase)
  \/ \E words \in Choice : SetChallengeWords(words)
  \/ AcceptPlayer \/ AddFakePlayer \/ HostStarts \/ CountdownTick \/ StartFakePlayers
  \/ \E r \in {room, [room EXCEPT !.ready = ~@], [room EXCEPT !.done = @ \cup {"other"}],
               [room EXCEPT !.players = @ \ {"other"}, !.done = @ \ {"other"}]} : OtherReports(r)
  \/ \E b \in BOOLEAN : SimulateMove(b)
  \/ \E stay \in BOOLEAN : CloseResults(stay)

PageNext == Alone \/ Together

PageSpec == PageInit /\ [][PageNext]_pageVars /\ WF_pageVars(CountdownTick)

-----------------------------------------------------------------------------
(* The records are of games that were played: whatever answers, races and  *)
(* dialogs came between, each is of a game of one's own, runs from its     *)
(* start word to its target, has a click for every step and keeps within   *)
(* the cap (saveCompletion).                                               *)
RecordsTrue ==
  /\ Len(history) <= HistoryCap
  /\ \A i \in 1..Len(history) :
       LET e == history[i]
       IN /\ e.mode \in {"daily", "practice"}
          /\ e.path[1] = e.start /\ Same(e.path[Len(e.path)], e.target)
          /\ e.clicks = Len(e.path) - 1

(* "Race from word to word by clicking links": every step of the path is a *)
(* link of the page before it, up to the target (links stay alive after a  *)
(* victory), as long as no two requests were in flight together: a late    *)
(* answer shows the page of another word than the current one.             *)
PathIsRoute ==
  ~crossed /\ ~game.nav =>
    \A i \in 1..Len(game.path) - 1 :
      (\A j \in 2..i : ~Same(game.path[j], game.target)) => game.path[i + 1] \in Links[game.path[i]]

(* The overlay of the countdown covers every button, so it must lift: it   *)
(* does, unless the page is a guest's and its host has gone.  As long as   *)
(* it is up a tick is to come, each tick brings the end nearer and nothing *)
(* puts it off; and no interval outlives the countdown it was set for.     *)
Abandoned == role = "guest" /\ "other" \notin room.players
Covered ==
  /\ overlay => (IF role = "host" THEN ticks ELSE room.count) > 0
  /\ ticks > 0 => overlay /\ role = "host"
CountsDown ==
  [][/\ Covered'
     /\ overlay => room'.count <= room.count /\ (CountdownTick => room'.count < room.count)]_pageVars
OverlayLifts == CountsDown /\ (overlay ~> (~overlay \/ Abandoned))

(* "Start the game if countdown just ended" (handleMultiplayerStateChange):  *)
(* after a race, the next one of the room begins from a countdown.         *)
StartsAtCountdown ==
  [][role # "none" /\ game.mode = "multiplayer" /\ ~game.multi /\ game'.multi
       => room.count # Off]_pageVars
=============================================================================
