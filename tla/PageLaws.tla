------------------------------ MODULE PageLaws ------------------------------
(***************************************************************************)
(* The laws of WordPage and HspText, looked at one bounded input at a time. *)
(***************************************************************************)
EXTENDS WordPage, HspText

CONSTANTS
  Hosts, Areas, Titles,         \* of references
  Chars, MaxChars,              \* texts for the wrapping
  Marks, MaxMarks,              \* texts for the escapes
  Places                        \* where elements may stand

VARIABLE law                    \* [kind, of]

Addresses == {u \in Refs(Hosts, Areas, Titles) : WellFormed(u)}

LawLink == {[kind |-> "link", of |-> [ref |-> u, external |-> e, names |-> n]] :
              u \in Addresses, e, n \in BOOLEAN}

LawImage == {[kind |-> "image", of |-> [src |-> u, dataSrc |-> v, srcset |-> <<[url |-> u, size |-> 1],
                                                                       [url |-> v, size |-> 2]>>]] :
               u, v \in {w \in Addresses : w.tail = "" /\ w.area = ""}}

LawRanking == {[kind |-> "ranking", of |-> q] :
                 q \in BoundedSeq([finished : BOOLEAN, time : {1, 2}, id : {1, 2},
                                       path : {<<>>, <<"a", "b">>}], 3)}

LawWrap == {[kind |-> "wrap", of |-> [text |-> t, width |-> w]] :
              t \in BoundedSeq(Chars, MaxChars), w \in {2, 5, 8}}

LawPaint == {[kind |-> "paint", of |-> [text |-> t, shown |-> n, width |-> w, align |-> a]] :
               t \in BoundedSeq(Chars, MaxChars - 1), n \in {0, 1, MaxChars - 2},
               w \in {3, 8}, a \in 0..2}

LawLobby == {[kind |-> "lobby", of |-> [players |-> q, words |-> ws]] :
               q \in BoundedSeq([host : BOOLEAN, ready : BOOLEAN], 3),
               ws \in {"", "a"} \X {"", "b"}}

LawEscape == {[kind |-> "escape", of |-> t] : t \in BoundedSeq(Marks, MaxMarks)}

LawOrder == {[kind |-> "order", of |-> q] : q \in BoundedSeq(Places, 3)}

LawAnchor ==
  {[kind |-> "anchor", of |-> ls] :
     ls \in SUBSET {[NoLink EXCEPT !.url = u, !.page = p, !.anchor = a] :
                      u \in {"", "u"}, p \in {"", "p"}, a \in {"", "1", "2"}}}

LawInit ==
  law \in LawLink \cup LawImage \cup LawRanking \cup LawWrap \cup LawPaint \cup LawLobby \cup LawEscape \cup LawOrder
          \cup LawAnchor

AFont == MakeFont(Chars, Chars \ {" "}, "i" :> 1, 2, 1, 8, -1)

(* What the two pages show of what they are given is what it says: links,  *)
(* pictures and results in the race; lines, escapes, order and anchors on  *)
(* the Hypnospace pages.                                                   *)
PageLawsHold ==
  CASE law.kind = "link"    -> LinksStay(law.of)
    [] law.kind = "image"   -> PicturesResolve(law.of)
    [] law.kind = "ranking" -> RankingFair(law.of)
    [] law.kind = "wrap"    -> WrapSound(AFont, law.of.text, law.of.width)
    [] law.kind = "paint"   ->
         law.of.shown <= Len(law.of.text) =>
           PaintSound(AFont, law.of.text, law.of.shown, law.of.width, law.of.align)
    [] law.kind = "lobby"   -> LobbyTells(law.of.players, law.of.words)
    [] law.kind = "escape"  -> EscapesRead(law.of)
    [] law.kind = "order"   -> OrderFair(law.of)
    [] law.kind = "anchor"  -> LinksLand(law.of)
    [] OTHER -> TRUE
=============================================================================
