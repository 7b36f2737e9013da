------------------------------ MODULE RaceLobby ------------------------------
(***************************************************************************)
(* The multiplayer lobby of Wiktionary Racing                              *)
(* (wiktionaryRacingV2/multiplayer.js, with the state-change handler and   *)
(* the moves of game.js): one host, and guests that reach it over one      *)
(* ordered data channel each.  The host owns the lobby and sends it whole, *)
(* or what changed, to every guest; each page keeps a copy, and starts its *)
(* race when its copy says that the countdown is over.                     *)
(*                                                                         *)
(* A guest is a page's visit to the room (a new visit has a new id).  A    *)
(* player's path is abstracted to its length, the challenge to a number;   *)
(* names, colours and the bots of the debug mode are left out.             *)
(***************************************************************************)
EXTENDS Integers, Sequences, Functions

CONSTANTS
  Guest, host,
  Count,       \* where the countdown starts: 3 in startGame
  MaxClicks,   \* bound: clicks in a race
  MaxWords,    \* bound: challenges the host chooses from
  MaxRaces,    \* bound: countdowns
  MaxOut,      \* bound: departures and failed connections
  MaxWire      \* bound: messages in flight when a user acts

ASSUME LobbyAssumption ==
  /\ host \notin Guest /\ Count \in Nat \ {0}
  /\ {MaxClicks, MaxWords, MaxRaces, MaxOut, MaxWire} \subseteq Nat

Person == Guest \cup {host}
None == -1                        \* countdown: null

VARIABLES
  lobby,      \* lobbyState of each page
  status,     \* of each guest: "asking", "accepted", "in", "alone", "gone"
  code,       \* the lobby inside the accept code of each guest
  here,       \* whether the host's page is in the room
  peers,      \* the host's connections
  heard,      \* those whose channel is open at the host
  linked,     \* guests whose channel is open on their side
  broken,     \* connections that have failed or were closed
  up, down,   \* messages on their way to the host, and to the guest
  timer,      \* what is left of startGame's interval
  racing,     \* pages in a race: gameState.isMultiplayer
  clicks,     \* gameState.clickCount
  raced,      \* history: pages that have started a race
  races, outs \* history, for the bounds

vars == <<lobby, status, code, here, peers, heard, linked, broken, up, down,
          timer, racing, clicks, raced, races, outs>>
game == <<racing, clicks, raced>>
door == <<status, code, here>>
net  == <<peers, heard, linked, broken>>

Score == [ready : BOOLEAN, clicks : 0..MaxClicks, done : BOOLEAN]
Lobbies ==
  [players : UNION {[P -> Score] : P \in SUBSET Person}, words : 0..MaxWords,
   started : BOOLEAN, count : None..Count]

-----------------------------------------------------------------------------
(* Lobby states.                                                           *)

Blank == [ready |-> FALSE, clicks |-> 0, done |-> FALSE]
Empty == [players |-> [p \in {} |-> Blank], words |-> 0, started |-> FALSE, count |-> None]

With(L, g) ==
  [L EXCEPT !.players = [p \in DOMAIN @ \cup {g} |-> IF p = g THEN Blank ELSE @[p]]]

Without(L, g) == [L EXCEPT !.players = [p \in DOMAIN @ \ {g} |-> @[p]]]

Begun(L) ==
  [L EXCEPT !.count = None,
            !.players = [p \in DOMAIN @ |-> [@[p] EXCEPT !.clicks = 0, !.done = FALSE]]]

AllDone(L) == DOMAIN L.players # {} /\ \A p \in DOMAIN L.players : L.players[p].done

(* A report is about one player; a copy that does not have it stays.       *)
Reported(L, m) ==
  IF m.player \notin DOMAIN L.players THEN L
  ELSE CASE m.type = "info"   -> L
         [] m.type = "ready"  -> [L EXCEPT !.players[m.player].ready = m.ready]
         [] m.type = "move"   -> [L EXCEPT !.players[m.player].clicks = m.clicks]
         [] m.type = "finish" -> [L EXCEPT !.players[m.player].clicks = m.clicks,
                                           !.players[m.player].done = TRUE]

Apply_EagerStart(L, m) ==          \* a bug: the start message leaves the countdown null
  CASE m.type = "state" -> m.lobby
    [] m.type = "start" -> [L EXCEPT !.started = TRUE, !.words = m.words]
    [] m.type = "tick"  -> [L EXCEPT !.count = m.count]
    [] m.type = "begin" -> Begun(L)
    [] m.type = "bye"   -> Without(L, m.player)
    [] OTHER -> Reported(L, m)

(* What a message does to the copy of the page that gets it.               *)
Apply(L, m) ==
  CASE m.type = "state" -> m.lobby
    [] m.type = "start" -> [L EXCEPT !.started = TRUE, !.words = m.words, !.count = m.count]
    [] m.type = "tick"  -> [L EXCEPT !.count = m.count]
    [] m.type = "begin" -> Begun(L)
    [] m.type = "bye"   -> Without(L, m.player)
    [] OTHER -> Reported(L, m)

(* The copies a page holds from L on, as the messages of q arrive.         *)
Copies(L, q) ==
  LET copy[i \in 0..Len(q)] == IF i = 0 THEN L ELSE Apply(copy[i - 1], q[i]) IN copy
View(L, q) == Copies(L, q)[Len(q)]

-----------------------------------------------------------------------------
Init ==
  /\ lobby = [p \in Person |-> IF p = host THEN With(Empty, host) ELSE Empty]   \* createRoom
  /\ status = [g \in Guest |-> "asking"] /\ code = [g \in Guest |-> Empty] /\ here = TRUE
  /\ peers = {} /\ heard = {} /\ linked = {} /\ broken = {}
  /\ up = [g \in Guest |-> <<>>] /\ down = [g \in Guest |-> <<>>]
  /\ timer = 0
  /\ racing = {} /\ clicks = [p \in Person |-> 0] /\ raced = {}
  /\ races = 0 /\ outs = 0

(* broadcast and broadcastExcept: only open channels carry anything.       *)
Sent(ms, to) == [g \in Guest |-> IF g \in to \ broken THEN down[g] \o ms ELSE down[g]]

State(L) == <<[type |-> "state", lobby |-> L]>>

(* notifyStateChange: p's page is shown its new copy L.  It starts a race  *)
(* if the countdown is over, and ends it if all have finished.             *)
Shown(p, L) ==
  LET begins == L.started /\ L.count = None /\ p \notin racing
      plays  == p \in racing \/ begins
  IN /\ racing' = IF plays /\ ~AllDone(L) THEN racing \cup {p} ELSE racing \ {p}
     /\ raced' = IF begins THEN raced \cup {p} ELSE raced
     /\ clicks' = IF begins THEN [clicks EXCEPT ![p] = 0] ELSE clicks

Update(p, L) == lobby' = [lobby EXCEPT ![p] = L]

InFlight == FoldFunction(+, 0, [g \in Guest |-> Len(up[g]) + Len(down[g])])
RoomToAct == InFlight < MaxWire

-----------------------------------------------------------------------------
(* Joining: the codes are carried by hand.  A guest has made its join code *)
(* (joinRoom), which changes nothing for anybody else.                     *)

AcceptJoin_Quiet(g) ==             \* a bug: the others are not told
  /\ here /\ status[g] = "asking" /\ RoomToAct
  /\ LET L == With(lobby[host], g) IN
       /\ Update(host, L) /\ Shown(host, L)
       /\ code' = [code EXCEPT ![g] = L]
  /\ peers' = peers \cup {g}
  /\ status' = [status EXCEPT ![g] = "accepted"]
  /\ UNCHANGED <<here, heard, linked, broken, up, down, timer, races, outs>>

(* The new guest's own channel is not open yet.                            *)
AcceptJoin(g) ==
  /\ here /\ status[g] = "asking" /\ RoomToAct
  /\ LET L == With(lobby[host], g) IN
       /\ Update(host, L) /\ Shown(host, L)
       /\ code' = [code EXCEPT ![g] = L]
       /\ down' = Sent(State(L), heard)
  /\ peers' = peers \cup {g}
  /\ status' = [status EXCEPT ![g] = "accepted"]
  /\ UNCHANGED <<here, heard, linked, broken, up, timer, races, outs>>

(* The accept code holds the lobby as it was when it was made.             *)
CompleteJoin(g) ==
  /\ status[g] = "accepted"
  /\ status' = [status EXCEPT ![g] = "in"]
  /\ Update(g, code[g]) /\ Shown(g, code[g])
  /\ code' = [code EXCEPT ![g] = Empty]
  /\ UNCHANGED <<here, net, up, down, timer, races, outs>>

OpenAtHost(g) ==
  /\ status[g] = "in" /\ g \in peers \ (heard \cup broken)
  /\ heard' = heard \cup {g}
  /\ UNCHANGED <<lobby, door, peers, linked, broken, up, down, timer, game, races, outs>>

(* onopen of a guest: it presents itself.                                  *)
OpenAtGuest(g) ==
  /\ status[g] = "in" /\ g \notin linked \cup broken
  /\ linked' = linked \cup {g}
  /\ up' = [up EXCEPT ![g] = Append(@, [type |-> "info", player |-> g])]
  /\ UNCHANGED <<lobby, door, peers, heard, broken, down, timer, game, races, outs>>

-----------------------------------------------------------------------------
(* The host's page.                                                        *)

(* handlePeerDisconnect.                                                   *)
Drop(g) ==
  LET L == Without(lobby[host], g) IN
    /\ Update(host, L) /\ Shown(host, L)
    /\ down' = Sent(State(L), heard \ {g})
    /\ peers' = peers \ {g} /\ heard' = heard \ {g} /\ broken' = broken \cup {g}

HostReceives_Deaf(g) ==            \* a bug: player-info is not answered with the lobby
  /\ here /\ g \in heard /\ up[g] # <<>>
  /\ up' = [up EXCEPT ![g] = Tail(@)]
  /\ LET m == Head(up[g])
         L == Apply(lobby[host], m)
     IN IF m.type = "bye" THEN Drop(g)
        ELSE /\ Update(host, L) /\ Shown(host, L)
             /\ down' = IF m.type \in {"move", "finish"} THEN Sent(<<m>>, heard \ {g})
                        ELSE IF m.type = "ready" THEN Sent(State(L), heard) ELSE down
             /\ UNCHANGED <<peers, heard, broken>>
  /\ UNCHANGED <<door, linked, timer, races, outs>>

(* A report of a guest is relayed to the others; anything else brings the  *)
(* whole lobby to everyone.                                                *)
HostReceives(g) ==
  /\ here /\ g \in heard /\ up[g] # <<>>
  /\ up' = [up EXCEPT ![g] = Tail(@)]
  /\ LET m == Head(up[g])
         L == Apply(lobby[host], m)
     IN IF m.type = "bye" THEN Drop(g)
        ELSE /\ Update(host, L) /\ Shown(host, L)
             /\ down' = IF m.type \in {"move", "finish"}
                        THEN Sent(<<m>>, heard \ {g}) ELSE Sent(State(L), heard)
             /\ UNCHANGED <<peers, heard, broken>>
  /\ UNCHANGED <<door, linked, timer, races, outs>>

(* onclose, or a connection that is disconnected or failed: what had not   *)
(* arrived is lost.                                                        *)
HostLoses(g) ==
  /\ here /\ g \in peers \cap broken
  /\ Drop(g)
  /\ up' = [up EXCEPT ![g] = <<>>]
  /\ UNCHANGED <<door, linked, timer, races, outs>>

(* The challenge may come from a fetch begun earlier, whatever has         *)
(* happened since.                                                         *)
SetChallengeWords(w) ==
  /\ here /\ RoomToAct /\ w # lobby[host].words
  /\ LET L == [lobby[host] EXCEPT !.words = w] IN
       /\ Update(host, L) /\ Shown(host, L)
       /\ down' = Sent(State(L), heard)
  /\ UNCHANGED <<door, net, up, timer, races, outs>>

(* The button is in the lobby, behind the overlay of the countdown.        *)
StartGame ==
  /\ here /\ timer = 0 /\ host \notin racing /\ races < MaxRaces
  /\ \E g \in Guest : g \in DOMAIN lobby[host].players
  /\ lobby[host].words # 0
  /\ \A g \in DOMAIN lobby[host].players \ {host} : lobby[host].players[g].ready
  /\ LET L == [lobby[host] EXCEPT !.started = TRUE, !.count = Count] IN
       /\ Update(host, L) /\ Shown(host, L)
       /\ down' = Sent(<<[type |-> "start", words |-> L.words, count |-> Count]>>, heard)
  /\ timer' = Count /\ races' = races + 1
  /\ UNCHANGED <<door, net, up, outs>>

(* The interval: a tick to everyone and, with the last, the beginning.  It *)
(* goes on when the host has left.                                         *)
CountdownTick ==
  /\ timer > 0
  /\ timer' = timer - 1
  /\ LET L    == [lobby[host] EXCEPT !.count = timer - 1]
         tick == [type |-> "tick", count |-> timer - 1]
     IN IF timer > 1
        THEN Update(host, L) /\ Shown(host, L) /\ down' = Sent(<<tick>>, heard)
        ELSE /\ Update(host, Begun(L)) /\ Shown(host, Begun(L))
             /\ down' = Sent(<<tick, [type |-> "begin"]>>, heard)
  /\ UNCHANGED <<door, net, up, races, outs>>

(* leave, which closes every connection behind its farewell.               *)
HostLeave ==
  /\ here /\ outs < MaxOut /\ outs' = outs + 1
  /\ here' = FALSE
  /\ down' = Sent(<<[type |-> "bye", player |-> host]>>, heard)
  /\ broken' = broken \cup peers /\ peers' = {} /\ heard' = {}
  /\ Update(host, Empty) /\ racing' = racing \ {host}
  /\ UNCHANGED <<status, code, linked, up, timer, clicks, raced, races>>

-----------------------------------------------------------------------------
(* A guest's page.                                                         *)

(* handlePeerDisconnect of the host.                                       *)
Abandoned(g) ==
  /\ status' = [status EXCEPT ![g] = "alone"]
  /\ linked' = linked \ {g} /\ broken' = broken \cup {g}
  /\ LET L == Without(lobby[g], host) IN Update(g, L) /\ Shown(g, L)

GuestReceives(g) ==
  /\ g \in linked /\ down[g] # <<>>
  /\ LET m == Head(down[g])
         L == Apply(lobby[g], m)
     IN IF m.type = "bye"
        THEN Abandoned(g) /\ down' = [down EXCEPT ![g] = <<>>]
        ELSE /\ Update(g, L) /\ Shown(g, L)
             /\ down' = [down EXCEPT ![g] = Tail(@)]
             /\ UNCHANGED <<status, linked, broken>>
  /\ UNCHANGED <<code, here, peers, heard, up, timer, races, outs>>

GuestLoses(g) ==
  /\ status[g] = "in" /\ g \in broken
  /\ Abandoned(g)
  /\ down' = [down EXCEPT ![g] = <<>>]
  /\ UNCHANGED <<code, here, peers, heard, up, timer, races, outs>>

(* What a page reports: the host to everyone, a guest to the host.         *)
Report(p, m) ==
  IF p = host
  THEN down' = Sent(<<m>>, heard) /\ UNCHANGED up
  ELSE /\ up' = IF p \in linked \ broken THEN [up EXCEPT ![p] = Append(@, m)] ELSE up
       /\ UNCHANGED down

ToggleReady(g) ==
  /\ status[g] = "in" /\ g \in DOMAIN lobby[g].players /\ RoomToAct
  /\ g \notin racing /\ lobby[g].count = None
  /\ LET m == [type |-> "ready", player |-> g, ready |-> ~lobby[g].players[g].ready] IN
       Update(g, Apply(lobby[g], m)) /\ Report(g, m)
  /\ UNCHANGED <<door, net, timer, game, races, outs>>

(* A link is clicked, the target's or another.                             *)
Click(p, kind) ==
  /\ p \in racing /\ clicks[p] < MaxClicks /\ RoomToAct
  /\ LET m == [type |-> kind, player |-> p, clicks |-> clicks[p] + 1]
         L == Apply(lobby[p], m)
     IN /\ Update(p, L) /\ Report(p, m)
        /\ racing' = IF AllDone(L) THEN racing \ {p} ELSE racing
  /\ clicks' = [clicks EXCEPT ![p] = @ + 1]
  /\ UNCHANGED <<door, net, timer, raced, races, outs>>

Leave(g) ==
  /\ status[g] \in {"in", "alone"} /\ outs < MaxOut /\ outs' = outs + 1
  /\ status' = [status EXCEPT ![g] = "gone"]
  /\ up' = IF g \in linked \ broken THEN [up EXCEPT ![g] = Append(@, [type |-> "bye", player |-> g])] ELSE up
  /\ down' = [down EXCEPT ![g] = <<>>]
  /\ linked' = linked \ {g} /\ broken' = broken \cup {g}
  /\ Update(g, Empty) /\ racing' = racing \ {g}
  /\ UNCHANGED <<code, here, peers, heard, timer, clicks, raced, races>>

(* A connection fails; each side finds out by itself.                      *)
Break(g) ==
  /\ g \in peers \ broken /\ outs < MaxOut /\ outs' = outs + 1
  /\ broken' = broken \cup {g}
  /\ UNCHANGED <<lobby, door, peers, heard, linked, up, down, timer, game, races>>

System(g) ==
  OpenAtHost(g) \/ OpenAtGuest(g) \/ HostReceives(g) \/ HostLoses(g)
  \/ GuestReceives(g) \/ GuestLoses(g)

User(g) ==
  AcceptJoin(g) \/ CompleteJoin(g) \/ ToggleReady(g) \/ Leave(g) \/ Break(g)

Next ==
  \/ \E g \in Guest : System(g) \/ User(g)
  \/ \E w \in 1..MaxWords : SetChallengeWords(w)
  \/ StartGame \/ CountdownTick \/ HostLeave
  \/ \E p \in Person, kind \in {"move", "finish"} : Click(p, kind)

Spec == Init /\ [][Next]_vars

-----------------------------------------------------------------------------
Reports == [type : {"move", "finish"}, player : Person, clicks : 0..MaxClicks]

UpMessages ==
  Reports \cup [type : {"info", "bye"}, player : Guest]
  \cup [type : {"ready"}, player : Guest, ready : BOOLEAN]

DownMessages ==
  Reports \cup [type : {"state"}, lobby : Lobbies] \cup [type : {"begin"}]
  \cup [type : {"start"}, words : 0..MaxWords, count : {Count}]
  \cup [type : {"tick"}, count : 0..Count] \cup [type : {"bye"}, player : {host}]

LobbyTypeOK ==
  /\ lobby \in [Person -> Lobbies] /\ code \in [Guest -> Lobbies]
  /\ status \in [Guest -> {"asking", "accepted", "in", "alone", "gone"}] /\ here \in BOOLEAN
  /\ peers \subseteq Guest /\ heard \subseteq Guest /\ linked \subseteq Guest /\ broken \subseteq Guest
  /\ up \in [Guest -> Seq(UpMessages)] /\ down \in [Guest -> Seq(DownMessages)]
  /\ timer \in 0..Count
  /\ racing \subseteq Person /\ clicks \in [Person -> 0..MaxClicks] /\ raced \subseteq Person
  /\ races \in 0..MaxRaces /\ outs \in 0..MaxOut

(* "Full lobby state sync from host" (handleMessage): once a guest has     *)
(* presented itself, what is on its way makes its copy of the room and of  *)
(* every other player the host's, however joins, reports, departures and   *)
(* the countdown overtake each other.                                      *)
Known(g) ==
  /\ here /\ g \in (linked \cap heard) \ broken
  /\ \A i \in 1..Len(up[g]) : up[g][i].type # "info"

Agree(g, L, N) ==
  /\ L.words = N.words /\ L.started = N.started /\ L.count = N.count
  /\ DOMAIN L.players = DOMAIN N.players
  /\ \A p \in DOMAIN L.players \ {g} : L.players[p] = N.players[p]

ViewsConverge ==
  \A g \in Guest : Known(g) => Agree(g, View(lobby[g], down[g]), lobby[host])

(* Nobody races before the host's countdown is over, not even a guest that *)
(* joined during it or whose messages are late (first race of a room).     *)
NobodyEarly ==
  races <= 1 /\ raced # {} /\ here => lobby[host].started /\ lobby[host].count = None

(* Nobody is left behind: when the countdown has run out and nothing is on *)
(* its way to a guest, that guest has started its race, even if its        *)
(* channel opened during the countdown or after it.                        *)
NobodyLeftBehind ==
  \A g \in Guest :
    Known(g) /\ down[g] = <<>> /\ races > 0 /\ timer = 0 => g \in raced
=============================================================================
