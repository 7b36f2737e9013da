------------------------------ MODULE WordPage ------------------------------
(***************************************************************************)
(* What Wiktionary Racing makes of a dictionary page before it shows it    *)
(* (loadWiktionaryPage in game.js): where its pictures come from and what  *)
(* its links do; with the order of the results and the state of the        *)
(* lobby's start button.                                                   *)
(*                                                                         *)
(* A reference is a record of the parts the code tells apart.  The host is *)
(* a whole host, a title is decoded; the text after the name of a page is  *)
(* its tail: nothing, "#..." or "?...".                                    *)
(***************************************************************************)
EXTENDS Integers, Sequences, SequencesExt, FiniteSetsExt

Home == "en.wiktionary.org"
Nowhere == ""

Refs(hosts, areas, titles) ==
  [scheme : {"", "http", "https", "data"}, host : hosts \cup {Nowhere}, rooted : BOOLEAN,
   area : areas, title : titles \cup {""}, tail : {"", "#", "?"}]

(* No address at all, and one of a place in the same page.                 *)
Missing == [scheme |-> "", host |-> Nowhere, rooted |-> FALSE, area |-> "", title |-> "", tail |-> ""]
Here == [Missing EXCEPT !.tail = "#"]

(* An address that has a scheme or a host has a path from the root.        *)
WellFormed(u) ==
  /\ u.scheme \in {"http", "https"} => u.host # Nowhere
  /\ u.scheme = "data" => u.host = Nowhere /\ ~u.rooted
  /\ u.host # Nowhere => u.rooted
  /\ u.title = "" => u.tail = "" \/ u = Here

-----------------------------------------------------------------------------
(* Pictures: src, data-src and the candidates of srcset.                   *)
Absolute(u) ==
  IF u.scheme # "" \/ u = Missing THEN u
  ELSE IF u.host # Nowhere THEN [u EXCEPT !.scheme = "https"]
  ELSE [u EXCEPT !.scheme = "https", !.host = Home, !.rooted = TRUE]

Srcset(candidates) ==
  [i \in DOMAIN candidates |-> [candidates[i] EXCEPT !.url = Absolute(@)]]

Picture(img) ==
  [img EXCEPT !.src = Absolute(@), !.dataSrc = Absolute(@), !.srcset = Srcset(@)]

-----------------------------------------------------------------------------
(* Links: [ref, external: by its class, names: whether its title attribute *)
(* speaks of Wikipedia].  The outcome is a word to go to, with or without  *)
(* the query of the address, "dead" (dimmed and without a click) or "left" *)
(* to the browser.                                                         *)
Dead == [act |-> "dead", word |-> "", query |-> FALSE]
LeftAlone == [act |-> "left", word |-> "", query |-> FALSE]
Go(t, q) == [act |-> "go", word |-> t, query |-> q]

IsWikipedia(l) == l.ref.host = "en.wikipedia.org" \/ l.names
Internal(u) == u.rooted /\ u.area \in {"wiki", "w"}

(* The name ends at "#", in an absolute address also at "?".               *)
LinkOutcome(l) ==
  LET u == l.ref
      inside == u.scheme = "" /\ u.host = Nowhere /\ Internal(u)
  IN CASE u = Missing -> LeftAlone
       [] u.scheme \in {"http", "https"} ->
            IF u.host = Home /\ Internal(u) /\ u.title # "" THEN Go(u.title, FALSE) ELSE Dead
       [] u.scheme \in {"", "data"} /\ u # Missing ->
            IF IsWikipedia(l) \/ l.external THEN Dead
            ELSE IF u = Here \/ (inside /\ u.title = "") THEN LeftAlone
            ELSE IF inside THEN Go(u.title, u.tail = "?")
            ELSE Dead

-----------------------------------------------------------------------------
(* The results: a stable sort by Compare.  A player: [finished, time].     *)
Compare(a, b) ==
  IF a.finished # b.finished THEN (IF a.finished THEN -1 ELSE 1)
  ELSE IF ~a.finished THEN 0 ELSE a.time - b.time

Insert(sorted, p) ==
  LET n == Cardinality({i \in DOMAIN sorted : Compare(sorted[i], p) <= 0})
  IN InsertAt(sorted, n + 1, p)

Ranked(players) ==
  LET ranked[i \in 0..Len(players)] ==
        IF i = 0 THEN <<>> ELSE Insert(ranked[i - 1], players[i])
  IN ranked[Len(players)]

(* What the lobby shows of a player; the host itself need not be ready.    *)
Badge(p) == IF p.host THEN "host" ELSE IF p.ready THEN "ready" ELSE "waiting"

AllReady(players) == \A i \in DOMAIN players : players[i].host \/ players[i].ready

(* The host's start button, and the line below it.                         *)
Startable(players, words) ==
  AllReady(players) /\ words[1] # "" /\ words[2] # "" /\ Len(players) >= 2

StartStatus(players, words) ==
  IF Len(players) < 2 THEN "alone"
  ELSE IF words[1] = "" \/ words[2] = "" THEN "no challenge"
  ELSE IF ~AllReady(players) THEN "not all ready" ELSE "ready"

(* The panel of opponents: everyone but the page's own player, with the    *)
(* time of those who are done and where the others are.                    *)
Opponent(p) ==
  [id |-> p.id, done |-> p.finished, path |-> p.path,
   current |-> IF p.path = <<>> THEN "-" ELSE Last(p.path)]

Opponents(players, me) ==
  LET panel[i \in 0..Len(players)] ==
        IF i = 0 THEN <<>>
        ELSE IF players[i].id = me THEN panel[i - 1] ELSE Append(panel[i - 1], Opponent(players[i]))
  IN panel[Len(players)]

-----------------------------------------------------------------------------
(* The laws, each over a bounded set of inputs.                            *)

(* Where a browser would go from the page of a word, /wiki/...: a path     *)
(* that does not begin at the root begins there.                           *)
Resolved(u) ==
  [host |-> IF u.scheme = "data" THEN Nowhere ELSE IF u.host = Nowhere THEN Home ELSE u.host,
   below |-> IF u.rooted \/ u.scheme = "data" THEN "" ELSE "wiki",
   area |-> u.area, title |-> u.title, query |-> u.tail = "?"]

(* "Allow absolute URLs to en.wiktionary.org", "block all other external   *)
(* URLs": a live link stays in the dictionary and, unless its address has  *)
(* a query, goes to the very word it points to; one that leaves the        *)
(* dictionary is dead, whatever its form; and a plain relative link to a   *)
(* word is live.  (With a query there is no such word: what is looked up   *)
(* is the name in the path, to which a relative link adds the query.)      *)
LinksStay(l) ==
  LET u == l.ref
      to == Resolved(u)
      o == LinkOutcome(l)
  IN /\ o.act = "go" => to.host = Home /\ to.below = "" /\ to.area \in {"wiki", "w"}
     /\ o.act = "go" /\ ~to.query => o.word = to.title /\ ~o.query
     /\ to.host # Home => o = Dead
     /\ o.act = "left" => u.title = ""
     /\ Internal(u) /\ u.host = Nowhere /\ u.title # "" /\ ~l.external /\ ~l.names => o.act = "go"

(* A picture whose address has a scheme, a host or a path from the root is *)
(* asked for where the dictionary's own page would ask, every other one at *)
(* the root of the dictionary; only its address changes, and doing it      *)
(* again changes nothing.  (From /wiki/... a browser would take a path     *)
(* that does not begin at the root to begin at /wiki/.)                    *)
AskedAs(v, u) ==
  /\ u # Missing => v.scheme # ""
  /\ (u.rooted \/ u.scheme # "") => Resolved(v) = Resolved(u)
  /\ Resolved(v).host = Resolved(u).host
  /\ v.area = u.area /\ v.title = u.title /\ v.tail = u.tail

PicturesResolve(img) ==
  LET p == Picture(img)
  IN /\ AskedAs(p.src, img.src) /\ AskedAs(p.dataSrc, img.dataSrc)
     /\ Picture(p) = p
     /\ Len(p.srcset) = Len(img.srcset)
     /\ \A i \in DOMAIN p.srcset :
          /\ p.srcset[i].size = img.srcset[i].size
          /\ AskedAs(p.srcset[i].url, img.srcset[i].url)

(* The button, the line below it and the badges tell the same: the button  *)
(* is on exactly if the line says so, and a line that blames the players   *)
(* has one to blame.                                                       *)
LobbyTells(players, words) ==
  LET status == StartStatus(players, words)
      badges == {Badge(players[i]) : i \in DOMAIN players}
  IN /\ Startable(players, words) <=> status = "ready"
     /\ status = "not all ready" => "waiting" \in badges
     /\ status = "ready" => "waiting" \notin badges

(* "Sort players by finish time (DNF at the end)": everyone is ranked, by  *)
(* the number of those before, ties in the order of the lobby; and who is  *)
(* ranked, but for the page's own player, is in the panel, as far as he    *)
(* has come.                                                               *)
RankingFair(players) ==
  LET p == players
      ahead(j, i) ==
        \/ p[j].finished /\ (p[i].finished => p[j].time < p[i].time)
        \/ j < i /\ p[j].finished = p[i].finished /\ (p[i].finished => p[j].time = p[i].time)
      place(i) == 1 + Cardinality({j \in DOMAIN players : ahead(j, i)})
      panel == Opponents(players, 1)
  IN /\ Len(Ranked(players)) = Len(players)
     /\ \A i \in DOMAIN players : Ranked(players)[place(i)] = players[i]
     /\ Len(panel) = Cardinality({i \in DOMAIN players : players[i].id # 1})
     /\ \A who \in ToSet(Ranked(players)) : who.id # 1 =>
          \E k \in DOMAIN panel :
            /\ panel[k].id = who.id /\ panel[k].done = who.finished
            /\ panel[k].current = IF who.path = <<>> THEN "-" ELSE who.path[Len(who.path)]
=============================================================================
