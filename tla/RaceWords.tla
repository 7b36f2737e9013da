----------------------------- MODULE RaceWords ------------------------------
(***************************************************************************)
(* The random challenge of Wiktionary Racing (getRandomChallenge,          *)
(* handleMpRandomChallenge and fetchRandomWord in game.js): two words are  *)
(* looked for together, each in a bounded number of tries, and in practice *)
(* mode that is repeated, keeping what was found, until they differ.       *)
(*                                                                         *)
(* The requests of one try (a random title, whether it exists, whether it  *)
(* is English, if that was asked for) are one step; each may fail.         *)
(***************************************************************************)
EXTENDS Integers

CONSTANTS
  Title,        \* what the server may draw
  Spelling,     \* Spelling[t]: the title without its case
  Ordinary,     \* titles of no namespace, or of Appendix:
  Existing,
  English,      \* titles whose page has a section "English"
  MaxTries,     \* of fetchRandomWord: 5
  MaxAttempts   \* of getRandomChallenge: 10

ASSUME RaceWordsAssumption ==
  /\ DOMAIN Spelling = Title /\ Ordinary \cup Existing \cup English \subseteq Title
  /\ MaxTries \in Nat /\ MaxAttempts \in Nat \ {0}

VARIABLES
  hunt,      \* the handler that is running: [on, mp, english: englishOnly, attempts,
             \*   start, target; blind: history, a check of the language has failed]
  fetches,   \* its two calls of fetchRandomWord
  filled,    \* the words that were put in for the user
  failed     \* where an error is displayed

huntVars == <<hunt, fetches, filled, failed>>

Null == "null"
Asking == [tries |-> 0, done |-> FALSE, word |-> Null]
Idle == [on |-> FALSE, mp |-> FALSE, english |-> FALSE, attempts |-> 0,
         start |-> Null, target |-> Null, blind |-> FALSE]

HuntInit ==
  hunt = Idle /\ fetches = <<Asking, Asking>> /\ filled = <<Null, Null>> /\ failed = {}

Differ(v, w) == v # Null /\ w # Null /\ Spelling[v] # Spelling[w]

(* The button; it is disabled while the handler runs.                      *)
Hunt(mp, english) ==
  /\ ~hunt.on
  /\ hunt' = [Idle EXCEPT !.on = TRUE, !.mp = mp, !.english = english, !.attempts = 1]
  /\ fetches' = <<Asking, Asking>>
  /\ failed' = IF mp THEN failed ELSE failed \ {"practice"}
  /\ UNCHANGED filled

(* validateWordExists: what cannot be looked up does not exist.            *)
WordExists(t, fails) == ~fails /\ t \in Existing

(* checkEnglishSection: what cannot be looked up is let through.           *)
EnglishSection(t, fails) == fails \/ t \in English

(* What is asked of a title, when the requests of down fail.               *)
Valid(t, down) ==
  /\ t \in Ordinary /\ WordExists(t, "exists" \in down)
  /\ hunt.english => EnglishSection(t, "english" \in down)

(* An error, or a title that will not do, leads to the next try.           *)
Tried(f, answer, down) ==
  IF f.tries >= MaxTries THEN [f EXCEPT !.done = TRUE]
  ELSE IF ~Valid(answer, down) THEN [f EXCEPT !.tries = @ + 1]
  ELSE [f EXCEPT !.done = TRUE, !.word = answer]

Try(i, answer, down) ==
  /\ hunt.on /\ ~fetches[i].done
  /\ fetches' = [fetches EXCEPT ![i] = Tried(@, answer, down)]
  /\ hunt' = [hunt EXCEPT !.blind = @ \/ (hunt.english /\ Valid(answer, down) /\ "english" \in down)]
  /\ UNCHANGED <<filled, failed>>

(* What the handler holds after an attempt that drew v and w.              *)
Kept(v, w) ==
  IF Differ(v, w) THEN [hunt EXCEPT !.start = v, !.target = w]
  ELSE IF hunt.mp THEN hunt
  ELSE IF v # Null /\ hunt.start = Null THEN [hunt EXCEPT !.start = v]
  ELSE IF w # Null /\ hunt.target = Null THEN [hunt EXCEPT !.target = w]
  ELSE hunt

Drawn_Uncounted ==                         \* a bug: the attempts are not counted
  /\ hunt.on /\ fetches[1].done /\ fetches[2].done
  /\ LET h    == Kept(fetches[1].word, fetches[2].word)
         good == Differ(h.start, h.target)
     IN IF ~good /\ ~h.mp
        THEN hunt' = h /\ fetches' = <<Asking, Asking>> /\ UNCHANGED <<filled, failed>>
        ELSE /\ hunt' = Idle /\ fetches' = <<Asking, Asking>>
             /\ filled' = IF good THEN <<h.start, h.target>> ELSE filled
             /\ failed' = IF good THEN failed ELSE failed \cup {"lobby"}

Drawn ==
  /\ hunt.on /\ fetches[1].done /\ fetches[2].done
  /\ LET h    == Kept(fetches[1].word, fetches[2].word)
         good == Differ(h.start, h.target)
     IN IF ~good /\ ~h.mp /\ h.attempts < MaxAttempts
        THEN /\ hunt' = [h EXCEPT !.attempts = @ + 1]
             /\ fetches' = <<Asking, Asking>>
             /\ UNCHANGED <<filled, failed>>
        ELSE /\ hunt' = Idle /\ fetches' = <<Asking, Asking>>
             /\ filled' = IF good THEN <<h.start, h.target>> ELSE filled
             /\ failed' = IF good THEN failed ELSE failed \cup {IF h.mp THEN "lobby" ELSE "practice"}

HuntStep ==
  \/ \E i \in {1, 2}, t \in Title \cup {Null}, down \in SUBSET {"exists", "english"} : Try(i, t, down)
  \/ Drawn

HuntNext == HuntStep \/ \E mp, english \in BOOLEAN : Hunt(mp, english)

HuntSpec == HuntInit /\ [][HuntNext]_huntVars /\ WF_huntVars(HuntStep)

-----------------------------------------------------------------------------
(* "Keep trying until we get two different valid words" (getRandomChallenge): *)
(* what is put in for the user is two entries of the dictionary that are   *)
(* not the same word, whichever attempts they come from; and where English *)
(* words were asked for, and every check of the language was answered,     *)
(* nothing else is held on to.                                             *)
Drafts == {hunt.start, hunt.target, fetches[1].word, fetches[2].word} \ {Null}

HuntSound ==
  /\ filled # <<Null, Null>> =>
       /\ {filled[1], filled[2]} \subseteq Ordinary \cap Existing
       /\ Spelling[filled[1]] # Spelling[filled[2]]
  /\ hunt.on /\ hunt.english /\ ~hunt.blind => Drafts \subseteq English

(* And it does not try for ever: whatever the server answers, the handler  *)
(* ends and its button comes back.  Every answer leaves less to be asked,  *)
(* counting the tries of both words and the attempts that may follow.      *)
TriesLeft(f) == IF f.done THEN 0 ELSE MaxTries + 1 - f.tries
AskedPerAttempt == 2 * (MaxTries + 1)
LeftToAsk ==
  TriesLeft(fetches[1]) + TriesLeft(fetches[2])
    + (MaxAttempts - hunt.attempts) * (AskedPerAttempt + 1)
HuntShortens ==
  [][hunt.on => LeftToAsk \in Nat /\ (~hunt'.on \/ LeftToAsk' < LeftToAsk)]_huntVars
HuntSettles == []HuntSound /\ HuntShortens /\ (hunt.on ~> ~hunt.on)
=============================================================================
