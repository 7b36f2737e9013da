------------------------------ MODULE FortuneFile ------------------------------
(***************************************************************************)
(* One fortune file and its index (cgi/fortunes.cgi), and the page that    *)
(* draws from it (cgi/cookie.cgi).  Every request is a process.  Adds and  *)
(* removals change the file under its flock; the .dat index is rebuilt     *)
(* after the lock is released and renamed into place; the page that draws  *)
(* takes no lock at all.                                                   *)
(*                                                                         *)
(* The file is abstracted to where its fortunes start: file[o] is the      *)
(* fortune at offset o, named by the add that brought it.  Lengths count   *)
(* lines, and a delimiter is one.  Reading a file is one step: fortune     *)
(* files fit into a read buffer.                                           *)
(***************************************************************************)
EXTENDS Integers, FiniteSets, Functions

CONSTANTS
  Adder, Remover, Reader,   \* requests
  Creator,                  \* the request that made the file, if it still runs
  Length,                   \* Length[a]: the length of what a adds
  Junk                      \* a text that nobody added

ASSUME RequestAssumption ==
  /\ Adder \cap Remover = {} /\ Creator \cap (Adder \cup Remover) = {}
  /\ Junk \notin Adder
  /\ Length \in [Adder -> Nat \ {0}]

Writer == Adder \cup Remover \cup Creator
Editor == Adder \cup Remover

VARIABLES
  file,      \* the fortunes by their offsets
  size,      \* the length of the file
  locked,    \* the editor that holds the flock, if any
  pc,        \* of each writer
  index,     \* the .dat in place
  built,     \* the index each writer is about to rename into place
  saw,       \* the file as each editor last read it
  chosen,    \* the offsets each remover's user has ticked
  look,      \* of each reader: where it is, and the length or the offsets it has
  added,     \* history: fortunes appended
  took,      \* history: fortunes ticked in a removal that was carried out
  epoch      \* history: counts the halves of removals; odd within one

fortuneVars == <<file, size, locked, pc, index, built, saw, chosen, look, added, took, epoch>>
disk == <<file, size, epoch, added, took>>
form == <<saw, chosen>>

Place  == {"new", "listed", "locked", "cut", "read", "rename", "done"}
Texts  == Adder \cup {Junk}
Index  == [offs : SUBSET Nat, size : Nat, epoch : Nat]
NoIndex == [offs |-> {}, size |-> 0, epoch |-> 0]
Unread  == [file |-> [o \in {} |-> Junk], size |-> 0]
Away   == [at |-> "new", size |-> 0, offs |-> {}, epoch |-> 0]

IsFile(F) == DOMAIN F \subseteq Nat /\ F \in [DOMAIN F -> Texts]

FortuneTypeOK ==
  /\ IsFile(file) /\ size \in Nat
  /\ locked \subseteq Editor
  /\ pc \in [Writer -> Place]
  /\ index \in Index /\ built \in [Writer -> Index]
  /\ DOMAIN saw = Editor /\ \A e \in Editor : IsFile(saw[e].file) /\ saw[e].size \in Nat
  /\ chosen \in [Remover -> SUBSET Nat]
  /\ look \in [Reader -> [at : {"new", "sized", "picked"}, size : Nat,
                          offs : SUBSET Nat, epoch : Nat]]
  /\ added \subseteq Adder /\ took \subseteq Texts /\ epoch \in Nat

(* The file is empty, and so is its index; the request that created the    *)
(* file may still be about to write that.                                  *)
FortuneInit ==
  /\ file = [o \in {} |-> Junk] /\ size = 0
  /\ locked = {}
  /\ pc = [w \in Writer |-> IF w \in Creator THEN "read" ELSE "new"]
  /\ index = NoIndex /\ built = [w \in Writer |-> NoIndex]
  /\ saw = [e \in Editor |-> Unread]
  /\ chosen = [r \in Remover |-> {}]
  /\ look = [r \in Reader |-> Away]
  /\ added = {} /\ took = {} /\ epoch = 0

Go(w, place) == pc' = [pc EXCEPT ![w] = place]
See(e) == saw' = [saw EXCEPT ![e] = [file |-> file, size |-> size]]

(* A process keeps nothing it has no more use for.                         *)
Unsee(w) ==
  /\ saw' = [e \in Editor |-> IF e = w THEN Unread ELSE saw[e]]
  /\ chosen' = [r \in Remover |-> IF r = w THEN {} ELSE chosen[r]]

-----------------------------------------------------------------------------
(* Adding.  The end of the file is found under the lock.                   *)
LockAdd(a) ==
  /\ pc[a] = "new" /\ locked = {}
  /\ locked' = {a} /\ Go(a, "locked") /\ See(a)
  /\ UNCHANGED <<disk, index, built, chosen, look>>

(* A delimiter goes before the fortune unless the file is empty.  Closing  *)
(* releases the lock.                                                      *)
AppendText(a) ==
  LET start == IF saw[a].size = 0 THEN 0 ELSE saw[a].size + 1 IN
    /\ pc[a] = "locked" /\ Go(a, "read")
    /\ file' = [o \in DOMAIN file \cup {start} |-> IF o = start THEN a ELSE file[o]]
    /\ size' = start + Length[a]
    /\ added' = added \cup {a}
    /\ locked' = locked \ {a}
    /\ saw' = [saw EXCEPT ![a] = Unread]
    /\ UNCHANGED <<index, built, chosen, look, took, epoch>>

-----------------------------------------------------------------------------
(* Removing.  The page lists the file, and its user ticks fortunes.        *)
List(r) ==
  /\ pc[r] = "new" /\ Go(r, "listed") /\ See(r)
  /\ \E R \in SUBSET DOMAIN file \ {{}} : chosen' = [chosen EXCEPT ![r] = R]
  /\ UNCHANGED <<disk, locked, index, built, look>>

(* Under the lock: the listing's SHA-1 must be the file's, or the page is  *)
(* shown again.                                                            *)
LockRemove_NoSum(r) ==             \* a bug: the listing may be an old one
  /\ pc[r] = "listed" /\ locked = {}
  /\ IF chosen[r] \subseteq DOMAIN file
     THEN Go(r, "locked") /\ locked' = {r}
     ELSE Go(r, "new") /\ UNCHANGED locked
  /\ UNCHANGED <<disk, index, built, form, look>>

LockRemove(r) ==
  /\ pc[r] = "listed" /\ locked = {}
  /\ IF saw[r] = [file |-> file, size |-> size]
     THEN Go(r, "locked") /\ locked' = {r}
     ELSE Go(r, "new") /\ UNCHANGED locked
  /\ UNCHANGED <<disk, index, built, form, look>>

End(F, o) == o + Length[F[o]]

(* A fortune goes with the delimiter after it, or before it if it is last. *)
Stretch(F, S, o) ==
  IF End(F, o) = S THEN (o .. S - 1) \cup ({o - 1} \cap Nat) ELSE o .. End(F, o)

(* How many of the first n lines of a file of length S stay without R.     *)
Left(F, S, R, n) == Cardinality((0 .. n - 1) \ UNION {Stretch(F, S, o) : o \in R})

Remaining(F, S, R) ==
  [n \in {Left(F, S, R, o) : o \in DOMAIN F \ R} |->
     F[CHOOSE o \in DOMAIN F \ R : Left(F, S, R, o) = n]]

Shorter(F, S, R) == Left(F, S, R, S)

(* The new contents written over the old, whose tail is still there: what  *)
(* lies across the seam is junk.                                           *)
Overlaid(F, S, R) ==
  LET new  == Remaining(F, S, R)
      n    == Shorter(F, S, R)
      neat == n \in {End(F, o) : o \in DOMAIN F}      \* the tail begins with a delimiter
      seam == {o \in DOMAIN new : End(new, o) = n}
      lone == IF neat \/ seam # {} THEN {} ELSE {n}
  IN IF n = 0 THEN F
     ELSE [o \in DOMAIN new \cup {p \in DOMAIN F : p > n} \cup lone |->
             IF o \in DOMAIN F /\ o > n THEN F[o]
             ELSE IF o \in DOMAIN new /\ (neat \/ o \notin seam) THEN new[o] ELSE Junk]

(* Rewritten in place: the file keeps its length until it is truncated.    *)
(* The process is assumed to live from the one to the other.               *)
Rewrite(r) ==
  /\ pc[r] = "locked" /\ Go(r, "cut")
  /\ file' = Overlaid(file, size, chosen[r])
  /\ took' = took \cup {saw[r].file[o] : o \in chosen[r]}
  /\ epoch' = epoch + 1
  /\ See(r)
  /\ UNCHANGED <<size, locked, index, built, chosen, look, added>>

Truncate(r) ==
  /\ pc[r] = "cut" /\ Go(r, "read")
  /\ file' = Remaining(saw[r].file, saw[r].size, chosen[r])
  /\ size' = Shorter(saw[r].file, saw[r].size, chosen[r])
  /\ epoch' = epoch + 1
  /\ locked' = locked \ {r}
  /\ Unsee(r)
  /\ UNCHANGED <<index, built, look, added, took>>

-----------------------------------------------------------------------------
(* write_dat, after the lock is gone: the file is read, and the index of   *)
(* what was read is renamed into place.                                    *)
Scanned_Delimiter ==               \* a bug: a fortune starts with the delimiter before it
  [offs |-> {IF o = 0 THEN 0 ELSE o - 1 : o \in DOMAIN file}, size |-> size, epoch |-> epoch]

Scanned == [offs |-> DOMAIN file, size |-> size, epoch |-> epoch]

ReadFile(w) ==
  /\ pc[w] = "read" /\ Go(w, "rename")
  /\ built' = [built EXCEPT ![w] = Scanned]
  /\ UNCHANGED <<disk, locked, index, form, look>>

Rename(w) ==
  /\ pc[w] = "rename" /\ Go(w, "done")
  /\ index' = built[w]
  /\ built' = [built EXCEPT ![w] = NoIndex]
  /\ UNCHANGED <<disk, locked, form, look>>

(* A step fails under the lock, or the process is killed: the lock goes    *)
(* with it, and its user may try again.  One that stops at another place   *)
(* is one that takes no step any more.                                     *)
FortuneFail(e) ==
  /\ pc[e] = "locked" /\ Go(e, "new")
  /\ locked' = locked \ {e}
  /\ Unsee(e)
  /\ UNCHANGED <<disk, index, built, look>>

-----------------------------------------------------------------------------
(* Drawing (cookie.cgi): the file's length, the offsets, one fortune.      *)
Size(r) ==
  /\ look[r].at = "new"
  /\ look' = [look EXCEPT ![r] = [at |-> "sized", size |-> size, offs |-> {}, epoch |-> epoch]]
  /\ UNCHANGED <<disk, locked, pc, index, built, form>>

Earlier(m, n) == IF m < n THEN m ELSE n

Source_Unchecked(s) == index       \* a bug: any index will do

(* The index is taken for current if it ends where the file did; otherwise *)
(* the file is scanned.                                                    *)
Source(s) == IF index.size = s THEN index ELSE Scanned

Pick(r) ==
  /\ look[r].at = "sized"
  /\ LET s == Source(look[r].size) IN
       look' = [look EXCEPT ![r] =
                  IF s.offs = {} THEN Away
                  ELSE [at |-> "picked", size |-> look[r].size, offs |-> s.offs,
                        epoch |-> Earlier(look[r].epoch, s.epoch)]]
  /\ UNCHANGED <<disk, locked, pc, index, built, form>>

(* What stands at an offset, up to the next delimiter.                     *)
TextAt(o) == IF o \in DOMAIN file THEN file[o] ELSE Junk

(* One of the offsets is read from, and the page is served.                *)
Draw(r) ==
  /\ look[r].at = "picked"
  /\ look' = [look EXCEPT ![r] = Away]
  /\ UNCHANGED <<disk, locked, pc, index, built, form>>

-----------------------------------------------------------------------------
FortuneNext ==
  \/ \E a \in Adder : LockAdd(a) \/ AppendText(a)
  \/ \E r \in Remover : List(r) \/ LockRemove(r) \/ Rewrite(r) \/ Truncate(r)
  \/ \E w \in Writer : ReadFile(w) \/ Rename(w)
  \/ \E e \in Editor : FortuneFail(e)
  \/ \E r \in Reader : Size(r) \/ Pick(r) \/ Draw(r)

FortuneSpec == FortuneInit /\ [][FortuneNext]_fortuneVars

-----------------------------------------------------------------------------
(* "An add waiting on this flock holds the same inode and must append to   *)
(* the new contents", and "a remove against a file that has changed since  *)
(* is refused rather than hitting the wrong fortunes": outside of a        *)
(* rewrite the file holds exactly what was added and not ticked, once      *)
(* each, whatever adds, listings and removals overtake one another.        *)
BooksBalance ==
  epoch % 2 = 0 =>
    /\ Range(file) = added \ took
    /\ Cardinality(DOMAIN file) = Cardinality(added \ took)

(* The page that draws locks nothing, and yet what it prints is a whole    *)
(* fortune, unless a removal has touched the file since the offsets it     *)
(* went by were read from it, or is half way.                              *)
DrawsWhole ==
  \A r \in Reader :
    look[r].at = "picked" /\ look[r].epoch = epoch /\ epoch % 2 = 0
      => \A o \in look[r].offs : TextAt(o) \in added \ took

(* cookie.cgi takes "its .dat if that is current": whichever index is in   *)
(* place, late and overtaken as it may be, every fortune in the file when  *)
(* the draw began can be drawn, with the same exception.                   *)
DrawsFromAll ==
  \A r \in Reader :
    look[r].at = "picked" /\ look[r].epoch = epoch
      => {o \in DOMAIN file : o < look[r].size} \subseteq look[r].offs

(* "Two near-simultaneous adds to one file each rebuild from the whole     *)
(* file, so the last rename wins with a .dat that covers both."            *)
LastRenameCovers ==
  (\A w \in Writer : pc[w] = "done") => index.offs = DOMAIN file
=============================================================================
