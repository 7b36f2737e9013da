------------------------------ MODULE HspText -------------------------------
(***************************************************************************)
(* How the Hypnospace page renderer (hsptohtml/README/lib/hsp.js) lays out *)
(* a page: the escapes of a text, Construct 2's line breaking, the glyphs  *)
(* of a line, the order elements are read in, and what an element links to *)
(* and is called.                                                          *)
(*                                                                         *)
(* A text is a sequence of characters.  A font is a record [width: of each *)
(* character, sheet: those it can paint, spacing, ch, lineHeight]; where a *)
(* glyph is on the sheet, the markup and rounding to pixels are left out.  *)
(***************************************************************************)
EXTENDS Integers, Sequences, SequencesExt, FiniteSetsExt

NL == "NL"                        \* a newline
Tab == "TAB"                      \* the tab glyph
Name(player) == <<"mark">> \o player

-----------------------------------------------------------------------------
(* replaceText: the doubled forms are set aside, the single ones expanded, *)
(* and the doubled ones put back, letter by letter.                        *)
Substitute(text, form, by) ==
  FoldLeft(LAMBDA out, c :
             LET all == Append(out, c)
             IN IF IsSuffix(form, all) THEN SubSeq(all, 1, Len(all) - Len(form)) \o by ELSE all,
           <<>>, text)

Letters == <<<<"n", "N">>, <<"t", "T">>, <<"p", "P">>>>
Aside(c) == <<"aside-" \o c>>

Expand(text, cs, by) ==
  LET kept == FoldLeft(LAMBDA s, c : Substitute(s, <<"/", "/", c>>, Aside(c)), text, cs)
  IN FoldLeft(LAMBDA s, c : Substitute(s, <<"/", c>>, by), kept, cs)

ReplaceText(text, player) ==
  LET by == <<<<NL>>, <<Tab>>, Name(player)>>
      expanded == FoldLeft(LAMBDA s, k : Expand(s, Letters[k], by[k]), text, <<1, 2, 3>>)
  IN FoldLeft(LAMBDA s, c : Substitute(s, Aside(c), <<"/", c>>), expanded,
              <<"n", "N", "t", "T", "p", "P">>)

Plain(text) ==
  FoldLeft(LAMBDA s, c : IF c = "mark" THEN s ELSE Append(s, IF c = Tab THEN "TABCHAR" ELSE c),
           <<>>, text)

-----------------------------------------------------------------------------
(* Font, with the widths the runtime adds.                                 *)
TabWidth == 8

MakeFont(chars, sheet, special, cw, spacing, ch, lineHeight) ==
  LET w(c) == IF c \in DOMAIN special THEN special[c] ELSE cw
  IN [width |-> [c \in chars |-> CASE c = Tab -> w(" ") * (TabWidth - 1)
                                   [] c = "mark" -> 0
                                   [] OTHER -> w(c)],
      sheet |-> sheet, spacing |-> spacing, ch |-> ch, lineHeight |-> lineHeight]

Measure(font, text) ==
  LET w == FoldLeft(LAMBDA sum, c : sum + font.width[c] + font.spacing, 0, text)
  IN IF w > 0 THEN w - font.spacing ELSE 0

Blank(c) == c \in {" ", "TABCHAR"}

(* tokenise: breaks after a run of blanks, which may begin with a dash.    *)
Tokenise(text) ==
  LET flush(s) == IF s.cur = <<>> THEN s.words ELSE Append(s.words, s.cur)
      step(s, c) ==
        CASE c = NL -> [words |-> Append(flush(s), <<NL>>), cur |-> <<>>, run |-> FALSE]
          [] Blank(c) /\ s.run ->
               [s EXCEPT !.words = Append(SubSeq(@, 1, Len(@) - 1), Append(Last(@), c))]
          [] (Blank(c) /\ ~s.run) \/ c = "-" ->
               [words |-> Append(s.words, Append(s.cur, c)), cur |-> <<>>, run |-> TRUE]
          [] OTHER -> [s EXCEPT !.cur = Append(@, c), !.run = FALSE]
  IN flush(FoldLeft(step, [words |-> <<>>, cur |-> <<>>, run |-> FALSE], text))

White(c) == Blank(c) \/ c = NL

TrimRight(text) ==
  LET solid == {i \in DOMAIN text : ~White(text[i])}
  IN SubSeq(text, 1, IF solid = {} THEN 0 ELSE Max(solid))

Line(font, t) == [text |-> t, width |-> Measure(font, TrimRight(t))]

WrapStep_DropsLong(font, width, s, w) ==   \* a bug: the word that did not fit is lost
  LET cur == s.cur \o w
  IN IF w = <<NL>>
     THEN [lines |-> IF s.ignore THEN s.lines ELSE Append(s.lines, Line(font, s.cur)),
           cur |-> <<>>, ignore |-> FALSE]
     ELSE IF Measure(font, TrimRight(cur)) <= width THEN [s EXCEPT !.cur = cur, !.ignore = FALSE]
     ELSE [lines |-> Append(s.lines, Line(font, IF s.cur = <<>> THEN cur ELSE s.cur)),
           cur |-> <<>>, ignore |-> TRUE]

(* A word that is longer than the line stands alone on one, and the        *)
(* newline behind it does not make another.                                *)
WrapStep(font, width, s, w) ==
  LET cur == s.cur \o w
  IN IF w = <<NL>>
     THEN [lines |-> IF s.ignore THEN s.lines ELSE Append(s.lines, Line(font, s.cur)),
           cur |-> <<>>, ignore |-> FALSE]
     ELSE IF Measure(font, TrimRight(cur)) <= width THEN [s EXCEPT !.cur = cur, !.ignore = FALSE]
     ELSE IF s.cur = <<>>
     THEN [lines |-> Append(s.lines, Line(font, cur)), cur |-> <<>>, ignore |-> TRUE]
     ELSE [lines |-> Append(s.lines, Line(font, s.cur)), cur |-> w, ignore |-> FALSE]

Wrap(font, text, width) ==
  LET all == Measure(font, text)
      s   == FoldLeft(LAMBDA t, w : WrapStep(font, width, t, w),
                      [lines |-> <<>>, cur |-> <<>>, ignore |-> FALSE], Tokenise(text))
  IN IF text = <<>> \/ width <= 2 THEN <<>>
     ELSE IF all <= width /\ ~Contains(text, NL) THEN <<[text |-> text, width |-> all]>>
     ELSE IF TrimRight(s.cur) # <<>> THEN Append(s.lines, Line(font, s.cur)) ELSE s.lines

TextHeight(font, n) ==
  n * (font.ch + font.lineHeight) - (IF font.lineHeight < 0 THEN font.lineHeight ELSE 0)

(* eachGlyph: where a line begins, and those of its glyphs that fit in the *)
(* box.                                                                    *)
Start(line, boxW, align) ==
  (align * (IF boxW > line.width THEN boxW - line.width ELSE 0)) \div 2

Top(font, i) ==
  (i - 1) * (font.ch + font.lineHeight) + (IF font.lineHeight > 0 THEN font.lineHeight ELSE 0)

Glyphs(font, line, boxW, align) ==
  LET step(s, c) ==
        IF s.full \/ s.x + font.width[c] > boxW THEN [s EXCEPT !.full = TRUE]
        ELSE [x |-> s.x + font.width[c] + font.spacing, full |-> FALSE,
              out |-> IF c \in font.sheet THEN Append(s.out, [char |-> c, x |-> s.x]) ELSE s.out]
  IN FoldLeft(step, [x |-> Start(line, boxW, align), full |-> FALSE, out |-> <<>>], line.text).out

(* buildText: what is read aloud, found and selected.                      *)
BuildText(font, lines, boxW, align) ==
  [i \in DOMAIN lines |-> [text |-> Plain(lines[i].text), x |-> Start(lines[i], boxW, align),
                           y |-> Top(font, i)]]

(* buildGlyphs: what is seen.                                              *)
BuildGlyphs(font, lines, boxW, align) ==
  FlattenSeq([i \in DOMAIN lines |->
    LET glyphs == Glyphs(font, lines[i], boxW, align)
    IN [k \in DOMAIN glyphs |-> [char |-> glyphs[k].char, x |-> glyphs[k].x, y |-> Top(font, i)]]])

(* TextEl.paint: a typewriter's text is laid out as far as it is shown.    *)
Paint(font, full, typing, shown, boxW, align) ==
  LET lines == Wrap(font, IF typing THEN SubSeq(full, 1, shown) ELSE full, boxW)
  IN [read |-> BuildText(font, lines, boxW, align), seen |-> BuildGlyphs(font, lines, boxW, align)]

-----------------------------------------------------------------------------
(* readingOrder: rows of eight pixels, each from left to right.            *)
Before(a, b) ==
  \/ a.y \div 8 < b.y \div 8
  \/ a.y \div 8 = b.y \div 8 /\ a.x <= b.x

Sorted(sorted, e) ==
  InsertAt(sorted, 1 + Cardinality({i \in DOMAIN sorted : Before(sorted[i], e)}), e)

ReadingOrder(elements) ==
  LET sorted[i \in 0..Len(elements)] ==
        IF i = 0 THEN <<>> ELSE Sorted(sorted[i - 1], elements[i])
  IN sorted[Len(elements)]

(* linkHref and makeNode.  A link: [url, page, anchor, tooltip, title,     *)
(* href], each "" when there is none; NoLink is no link.                   *)
NoLink == [url |-> "", page |-> "", anchor |-> "", tooltip |-> "", title |-> "", href |-> ""]

LinkHref(link) ==
  CASE link.url # ""    -> <<"out", link.url>>
    [] link.url = "" /\ link.page # "" -> <<"page", link.page>>
    [] link.url = "" /\ link.page = "" /\ link.anchor # "" -> <<"here", link.anchor>>
    [] OTHER -> <<>>

Node(link) ==
  [tag |-> IF LinkHref(link) = <<>> THEN "div" ELSE "a", href |-> LinkHref(link),
   newTab |-> LinkHref(link) # <<>> /\ link.url # "", note |-> link.url # ""]

(* anchors: one target for every height an in-page link goes to.           *)
Anchors(links) == {l.anchor : l \in {k \in links : k.anchor # "" /\ k.page = ""}}

(* gifAlt: [kind, decoration: whether the name says so].                   *)
GifAlt(link, kind, decoration) ==
  CASE link.tooltip # "" -> "tooltip"
    [] link.tooltip = "" /\ link.title # "" -> "link to"
    [] link.tooltip = "" /\ link.title = "" /\ link.href # "" -> "name"
    [] OTHER -> IF kind = "shape" \/ decoration THEN ""
                ELSE IF kind \in {"gif", "wordart", "static"} THEN "name" ELSE ""

-----------------------------------------------------------------------------
(* The laws, each over a bounded set of inputs.                            *)

(* "Protect the doubled forms, expand the single forms, then restore": as  *)
(* one reading from left to right would.                                   *)
Read(text, player) ==
  LET letter(c) == \E k \in 1..3 : c \in ToSet(Letters[k])
      means(c) == CASE c \in {"n", "N"} -> <<NL>> [] c \in {"t", "T"} -> <<Tab>>
                    [] OTHER -> Name(player)
      (* A letter takes the slashes that are still before it: two stand    *)
      (* for one, one for an escape.                                       *)
      step(out, c) ==
        IF ~letter(c) THEN Append(out, c)
        ELSE IF IsSuffix(<<"/", "/">>, out) THEN Append(SubSeq(out, 1, Len(out) - 1), "keep-" \o c)
        ELSE IF IsSuffix(<<"/">>, out) THEN SubSeq(out, 1, Len(out) - 1) \o means(c)
        ELSE Append(out, c)
      done == FoldLeft(step, <<>>, text)
  IN FoldLeft(LAMBDA s, c : Substitute(s, <<"keep-" \o c>>, <<c>>), done,
              <<"n", "N", "t", "T", "p", "P">>)

EscapesRead(text) == ReplaceText(text, <<"x">>) = Read(text, <<"x">>)

Solid(text) == SelectSeq(text, LAMBDA c : ~White(c))

(* Wrapping loses nothing that can be seen and keeps its order; a line is  *)
(* wider than the box only if it is one word, and a line is not broken     *)
(* where the next word would have fit.                                     *)
WrapSound(font, text, width) ==
  LET lines == Wrap(font, text, width)
      words(t) == Tokenise(t)
  IN width > 2 =>
       /\ Solid(FlattenSeq([i \in DOMAIN lines |-> lines[i].text])) = Solid(text)
       /\ \A i \in DOMAIN lines : lines[i].width > width => Len(words(lines[i].text)) = 1
       /\ ~Contains(text, NL) =>
            \A i \in 1..Len(lines) - 1 :
              Measure(font, TrimRight(lines[i].text \o words(lines[i + 1].text)[1])) > width

(* "Two layers over the same box": all of what is typed so far, and no     *)
(* more, can be read; where every word fits, the same letters are seen, in *)
(* the same order, and in any case side by side within the element's box.  *)
PaintSound(font, full, shown, boxW, align) ==
  LET p     == Paint(font, full, TRUE, shown, boxW, align)
      typed == Solid(SubSeq(full, 1, shown))
      inked(t) == SelectSeq(t, LAMBDA c : c \in font.sheet)
  IN boxW > 2 =>
       /\ Solid(FlattenSeq([i \in DOMAIN p.read |-> p.read[i].text])) = typed
       /\ (\A w \in ToSet(Tokenise(full)) : Measure(font, TrimRight(w)) <= boxW) =>
            Solid([k \in DOMAIN p.seen |-> p.seen[k].char]) = inked(typed)
       /\ \A g \in ToSet(p.seen) :
            /\ g.x >= 0 /\ g.x + font.width[g.char] <= boxW
            /\ g.y >= 0 /\ g.y + font.ch <= TextHeight(font, Len(p.read))
       /\ \A k \in 2..Len(p.seen) :
            LET a == p.seen[k - 1]  b == p.seen[k]
            IN b.y > a.y \/ (b.y = a.y /\ b.x >= a.x + font.width[a.char] + font.spacing)

(* "Top to bottom and left to right": every element once, at the place     *)
(* given by how many come before it, ties as they were drawn.              *)
OrderFair(elements) ==
  LET earlier(j, i) ==
        LET a == <<elements[j].y \div 8, elements[j].x, j>>
            b == <<elements[i].y \div 8, elements[i].x, i>>
        IN \/ a[1] < b[1] \/ (a[1] = b[1] /\ a[2] < b[2])
           \/ (a[1] = b[1] /\ a[2] = b[2] /\ j < i)
      place(i) == 1 + Cardinality({j \in DOMAIN elements : earlier(j, i)})
  IN /\ Len(ReadingOrder(elements)) = Len(elements)
     /\ \A i \in DOMAIN elements : ReadingOrder(elements)[place(i)] = elements[i]

(* A link within the page has its target, and what opens a new tab says so.*)
LinksLand(links) ==
  \A l \in links :
    /\ LinkHref(l) # <<>> /\ LinkHref(l)[1] = "here" => LinkHref(l)[2] \in Anchors(links)
    /\ Node(l).newTab => Node(l).note
=============================================================================
