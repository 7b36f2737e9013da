-------------------------- MODULE FortuneFile_proofs --------------------------
(***************************************************************************)
(* For any number of adds, removals and readers, and fortunes of any       *)
(* length: the file holds what was added and not ticked, and the page that *)
(* draws without a lock serves whole fortunes and offers all there are,    *)
(* unless a removal overtakes it.                                          *)
(*                                                                         *)
(* The argument is that of a version number.  Whatever was read from the   *)
(* file, the indexes in place and on their way and the offsets a reader    *)
(* holds, is stamped with the epoch it was read in; while the epoch lasts  *)
(* the file only grows, at its end (Snap).  That a removal leaves no       *)
(* ticked fortune behind needs the lock (Locks), the listing checked under *)
(* it (Listings), and that no fortune is in the file twice (Books).  That  *)
(* none is lost needs more: how the fortunes lie between their delimiters  *)
(* (Laid), and that what stays keeps its distance when it moves together   *)
(* (RemainingApart).                                                       *)
(***************************************************************************)
EXTENDS FortuneFile, FiniteSetTheorems, TLAPS

(* One editor at a time is between taking the lock and releasing it.       *)
Locks ==
  /\ \A e, f \in locked : e = f
  /\ \A w \in Writer : pc[w] \in {"locked", "cut"} <=> w \in locked
  /\ \A r \in Remover : pc[r] = "cut" => epoch % 2 = 1
  /\ epoch % 2 = 1 => \E r \in Remover : pc[r] = "cut"

(* What the editor read under the lock is the file; what is ticked is in   *)
(* the listing.                                                            *)
Listings ==
  /\ \A e \in Editor : pc[e] = "locked" => saw[e] = [file |-> file, size |-> size]
  /\ \A r \in Remover : pc[r] \in {"listed", "locked", "cut"} => chosen[r] \subseteq DOMAIN saw[r].file

(* Each offset in P holds a fortune of its own, and one of T.              *)
Sound(F, P, T) ==
  /\ \A o \in P : F[o] \in T
  /\ \A o, q \in P : F[o] = F[q] => o = q

Books ==
  /\ took \subseteq added
  /\ \A a \in Adder : pc[a] \in {"new", "locked"} => a \notin added
  /\ epoch % 2 = 0 => Sound(file, DOMAIN file, added \ took)
  /\ \A r \in Remover : pc[r] = "cut" =>
       Sound(saw[r].file, DOMAIN saw[r].file \ chosen[r], added \ took)

(* A reading of the file: while its epoch lasts, it lacks only what was    *)
(* appended since.                                                         *)
Snap(s) ==
  /\ s.epoch \leq epoch
  /\ s.epoch = epoch =>
       /\ s.size \leq size
       /\ s.offs \subseteq DOMAIN file
       /\ {o \in DOMAIN file : o < s.size} \subseteq s.offs

Snaps ==
  /\ Snap(index)
  /\ \A w \in Writer : Snap(built[w])
  /\ \A r \in Reader : look[r].at = "picked" => Snap(look[r])
  /\ \A r \in Reader : look[r].at = "sized" =>
       look[r].epoch \leq epoch /\ (look[r].epoch = epoch => look[r].size \leq size)

IInv == FortuneTypeOK /\ Locks /\ Listings /\ Books /\ Snaps

(* Fortunes lie in a file of length S one after another, each pair with a  *)
(* delimiter between.                                                      *)
Laid(F, S) ==
  /\ \A o \in DOMAIN F : F[o] \in Adder /\ End(F, o) \leq S
  /\ \A o, q \in DOMAIN F : o < q => End(F, o) < q

(* Every fortune of T stands at an offset in P.                            *)
Holds(F, P, T) == \A t \in T : \E o \in P : F[o] = t

Kept ==
  /\ epoch % 2 = 0 => Laid(file, size) /\ Holds(file, DOMAIN file, added \ took)
  /\ \A r \in Remover : pc[r] = "cut" =>
       /\ Laid(saw[r].file, saw[r].size)
       /\ Holds(saw[r].file, DOMAIN saw[r].file \ chosen[r], added \ took)

-----------------------------------------------------------------------------
(* What a removal makes of a file, whole or half way, is a file.           *)
LEMMA LeftType ==
  ASSUME NEW F, NEW S, NEW R, NEW n \in Nat
  PROVE  Left(F, S, R, n) \in Nat
<1>1. IsFiniteSet(0 .. n - 1)
  BY FS_Interval
<1>2. IsFiniteSet((0 .. n - 1) \ UNION {Stretch(F, S, o) : o \in R})
  BY <1>1, FS_Subset
<1> QED BY <1>2, FS_CardinalityType DEF Left

LEMMA RemainingType ==
  ASSUME NEW F, IsFile(F), NEW S, NEW R
  PROVE  IsFile(Remaining(F, S, R))
<1> DEFINE L(o) == Left(F, S, R, o)
           D == {L(o) : o \in DOMAIN F \ R}
           N == Remaining(F, S, R)
<1>1. N = [n \in D |-> F[CHOOSE o \in DOMAIN F \ R : L(o) = n]]
  BY DEF Remaining
<1>2. D \subseteq Nat
  BY LeftType DEF IsFile
<1>3. \A n \in D : F[CHOOSE o \in DOMAIN F \ R : L(o) = n] \in Texts
  BY DEF IsFile
<1> QED BY <1>1, <1>2, <1>3 DEF IsFile

LEMMA OverlaidType ==
  ASSUME NEW F, IsFile(F), NEW S \in Nat, NEW R
  PROVE  IsFile(Overlaid(F, S, R))
<1> DEFINE new  == Remaining(F, S, R)
           n    == Shorter(F, S, R)
           neat == n \in {End(F, o) : o \in DOMAIN F}
           seam == {o \in DOMAIN new : End(new, o) = n}
           lone == IF neat \/ seam # {} THEN {} ELSE {n}
           D    == DOMAIN new \cup {p \in DOMAIN F : p > n} \cup lone
           V(o) == IF o \in DOMAIN F /\ o > n THEN F[o]
                   ELSE IF o \in DOMAIN new /\ (neat \/ o \notin seam) THEN new[o] ELSE Junk
<1>1. Overlaid(F, S, R) = IF n = 0 THEN F ELSE [o \in D |-> V(o)]
  BY DEF Overlaid
<1>2. n \in Nat /\ IsFile(new)
  BY LeftType, RemainingType DEF Shorter
<1>3. D \subseteq Nat
  BY <1>2 DEF IsFile
<1>4. \A o \in D : V(o) \in Texts
  BY <1>2 DEF IsFile, Texts
<1>5. IsFile([o \in D |-> V(o)])
  <2> HIDE DEF D, V
  <2> QED BY <1>3, <1>4 DEF IsFile
<1> HIDE DEF D, V, n
<1> QED BY <1>1, <1>5

(* No fortune left in the file is one that was ticked, nor in it twice.    *)
LEMMA RemainingSound ==
  ASSUME NEW F, NEW S, NEW R, NEW T, Sound(F, DOMAIN F \ R, T)
  PROVE  Sound(Remaining(F, S, R), DOMAIN Remaining(F, S, R), T)
<1> DEFINE P == DOMAIN F \ R
           L(o) == Left(F, S, R, o)
           D == {L(o) : o \in P}
           At(n) == CHOOSE o \in P : L(o) = n
           N == Remaining(F, S, R)
<1>1. N = [n \in D |-> F[At(n)]]
  BY DEF Remaining
<1>2. \A n \in D : At(n) \in P /\ L(At(n)) = n
  OBVIOUS
<1> HIDE DEF At, L
<1>3. DOMAIN N = D /\ \A n \in D : N[n] = F[At(n)]
  BY <1>1
<1>4. \A n \in D : N[n] \in T
  BY <1>2, <1>3 DEF Sound
<1>5. \A m, n \in D : N[m] = N[n] => m = n
  BY <1>2, <1>3 DEF Sound
<1> HIDE DEF N, D
<1> QED BY <1>3, <1>4, <1>5 DEF Sound, N

-----------------------------------------------------------------------------
LEMMA InitInvariant == FortuneInit => IInv
<1> SUFFICES ASSUME FortuneInit PROVE IInv
  OBVIOUS
<1> USE RequestAssumption DEF FortuneInit
<1>1. FortuneTypeOK
  BY DEF FortuneTypeOK, IsFile, Place, Index, NoIndex, Unread, Away, Texts
<1>2. Locks /\ Listings
  BY DEF Locks, Listings, Writer, Editor
<1>3. Books
  BY DEF Books, Sound, Writer, Editor
<1>4. Snaps
  BY DEF Snaps, Snap, NoIndex, Away
<1> QED BY <1>1, <1>2, <1>3, <1>4 DEF IInv

-----------------------------------------------------------------------------
LEMMA TypeStep ==
  ASSUME FortuneTypeOK, Listings, [FortuneNext]_fortuneVars
  PROVE  FortuneTypeOK'
<1> USE RequestAssumption DEF FortuneTypeOK, Place, Writer, Editor, disk, form, Go, See
<1>1. ASSUME NEW a \in Adder, LockAdd(a) PROVE FortuneTypeOK'
  BY <1>1 DEF LockAdd
<1>2. ASSUME NEW a \in Adder, AppendText(a) PROVE FortuneTypeOK'
  <2> DEFINE start == IF saw[a].size = 0 THEN 0 ELSE saw[a].size + 1
  <2>1. start \in Nat /\ start + Length[a] \in Nat
    OBVIOUS
  <2>2. IsFile([o \in DOMAIN file \cup {start} |-> IF o = start THEN a ELSE file[o]])
    BY <2>1 DEF IsFile, Texts
  <2>3. IsFile(file') /\ size' \in Nat
    BY <1>2, <2>1, <2>2 DEF AppendText
  <2>4. \A e \in Editor : IsFile(saw'[e].file) /\ saw'[e].size \in Nat
    BY <1>2 DEF AppendText, Unread, IsFile
  <2> QED BY <1>2, <2>3, <2>4 DEF AppendText
<1>3. ASSUME NEW r \in Remover, List(r) PROVE FortuneTypeOK'
  <2>1. \A R \in SUBSET DOMAIN file : R \in SUBSET Nat
    BY DEF IsFile
  <2> QED BY <1>3, <2>1 DEF List
<1>4. ASSUME NEW r \in Remover, LockRemove(r) PROVE FortuneTypeOK'
  BY <1>4 DEF LockRemove
<1>5. ASSUME NEW r \in Remover, Rewrite(r) PROVE FortuneTypeOK'
  <2>1. IsFile(file')
    BY <1>5, OverlaidType DEF Rewrite
  <2>2. took' \subseteq Texts
    BY <1>5 DEF Rewrite, IsFile, Listings
  <2> QED BY <1>5, <2>1, <2>2 DEF Rewrite
<1>6. ASSUME NEW r \in Remover, Truncate(r) PROVE FortuneTypeOK'
  <2>1. IsFile(file') /\ size' \in Nat
    BY <1>6, RemainingType, LeftType DEF Truncate, Shorter
  <2>2. \A e \in Editor : IsFile(saw'[e].file) /\ saw'[e].size \in Nat
    BY <1>6 DEF Truncate, Unsee, Unread, IsFile
  <2>3. DOMAIN saw' = Editor /\ chosen' \in [Remover -> SUBSET Nat]
    BY <1>6 DEF Truncate, Unsee
  <2>4. locked' \subseteq Editor /\ pc' \in [Writer -> Place] /\ epoch' \in Nat
    BY <1>6 DEF Truncate
  <2> QED BY <1>6, <2>1, <2>2, <2>3, <2>4 DEF Truncate
<1>7. ASSUME NEW w \in Writer, ReadFile(w) PROVE FortuneTypeOK'
  <2>1. Scanned \in Index
    BY DEF Scanned, Index, IsFile
  <2> QED BY <1>7, <2>1 DEF ReadFile
<1>8. ASSUME NEW w \in Writer, Rename(w) PROVE FortuneTypeOK'
  BY <1>8 DEF Rename, NoIndex, Index
<1>9. ASSUME NEW e \in Editor, FortuneFail(e) PROVE FortuneTypeOK'
  <2>1. \A f \in Editor : IsFile(saw'[f].file) /\ saw'[f].size \in Nat
    BY <1>9 DEF FortuneFail, Unsee, Unread, IsFile
  <2> QED BY <1>9, <2>1 DEF FortuneFail, Unsee
<1>10. ASSUME NEW r \in Reader, Size(r) PROVE FortuneTypeOK'
  BY <1>10 DEF Size
<1>11. ASSUME NEW r \in Reader, Pick(r) PROVE FortuneTypeOK'
  <2> DEFINE s == Source(look[r].size)
  <2>1. s.offs \subseteq Nat /\ s.epoch \in Nat
    BY DEF Source, Scanned, Index, IsFile
  <2> QED BY <1>11, <2>1 DEF Pick, Away, Earlier
<1>12. ASSUME NEW r \in Reader, Draw(r) PROVE FortuneTypeOK'
  BY <1>12 DEF Draw, Away
<1>13. CASE UNCHANGED fortuneVars
  BY <1>13 DEF fortuneVars
<1> QED
  BY <1>1, <1>2, <1>3, <1>4, <1>5, <1>6, <1>7, <1>8, <1>9, <1>10, <1>11, <1>12, <1>13 DEF FortuneNext

LEMMA Alternate == \A n \in Nat : /\ n % 2 \in {0, 1}
                                /\ (n + 1) % 2 = 1 <=> n % 2 # 1
OBVIOUS

LEMMA LockStep ==
  ASSUME FortuneTypeOK, Locks, [FortuneNext]_fortuneVars
  PROVE  Locks'
<1> USE RequestAssumption DEF FortuneTypeOK, Locks, Writer, Editor, disk, form, Go
<1>1. ASSUME NEW a \in Adder, LockAdd(a) \/ AppendText(a) PROVE Locks'
  BY <1>1 DEF LockAdd, AppendText
<1>2. ASSUME NEW r \in Remover, List(r) \/ LockRemove(r) PROVE Locks'
  BY <1>2 DEF List, LockRemove
<1>3. ASSUME NEW r \in Remover, Rewrite(r) PROVE Locks'
  <2>1. \A q \in Remover : pc[q] # "cut"
    BY <1>3 DEF Rewrite
  <2>2. epoch % 2 # 1 /\ epoch' = epoch + 1
    BY <1>3, <2>1 DEF Rewrite
  <2>3. epoch' % 2 = 1
    BY <2>2, Alternate
  <2> QED BY <1>3, <2>1, <2>3 DEF Rewrite
<1>4. ASSUME NEW r \in Remover, Truncate(r) PROVE Locks'
  <2>1. epoch % 2 = 1 /\ epoch' = epoch + 1
    BY <1>4 DEF Truncate
  <2>2. epoch' % 2 # 1
    BY <2>1, Alternate
  <2>3. \A q \in Remover : pc'[q] # "cut"
    BY <1>4 DEF Truncate
  <2> QED BY <1>4, <2>2, <2>3 DEF Truncate
<1>5. ASSUME NEW w \in Writer, ReadFile(w) \/ Rename(w) PROVE Locks'
  BY <1>5 DEF ReadFile, Rename
<1>6. ASSUME NEW e \in Editor, FortuneFail(e) PROVE Locks'
  BY <1>6 DEF FortuneFail
<1>7. ASSUME NEW r \in Reader, Size(r) \/ Pick(r) \/ Draw(r) PROVE Locks'
  BY <1>7 DEF Size, Pick, Draw
<1>8. CASE UNCHANGED fortuneVars
  BY <1>8 DEF fortuneVars
<1> QED
  BY <1>1, <1>2, <1>3, <1>4, <1>5, <1>6, <1>7, <1>8 DEF FortuneNext

LEMMA ListingStep ==
  ASSUME FortuneTypeOK, Locks, Listings, [FortuneNext]_fortuneVars
  PROVE  Listings'
<1> USE RequestAssumption DEF FortuneTypeOK, Locks, Listings, Writer, Editor, disk, form, Go, See
<1>1. ASSUME NEW a \in Adder, LockAdd(a) PROVE Listings'
  BY <1>1 DEF LockAdd
<1>2. ASSUME NEW a \in Adder, AppendText(a) PROVE Listings'
  <2>1. \A e \in Editor : pc'[e] # "locked"
    BY <1>2 DEF AppendText
  <2> QED BY <1>2, <2>1 DEF AppendText
<1>3. ASSUME NEW r \in Remover, List(r) PROVE Listings'
  BY <1>3 DEF List
<1>4. ASSUME NEW r \in Remover, LockRemove(r) PROVE Listings'
  BY <1>4 DEF LockRemove
<1>5. ASSUME NEW r \in Remover, Rewrite(r) PROVE Listings'
  <2>1. \A e \in Editor : pc'[e] # "locked"
    BY <1>5 DEF Rewrite
  <2> QED BY <1>5, <2>1 DEF Rewrite
<1>6. ASSUME NEW r \in Remover, Truncate(r) PROVE Listings'
  <2>1. \A e \in Editor : pc'[e] # "locked"
    BY <1>6 DEF Truncate
  <2> QED BY <1>6, <2>1 DEF Truncate, Unsee
<1>7. ASSUME NEW w \in Writer, ReadFile(w) \/ Rename(w) PROVE Listings'
  BY <1>7 DEF ReadFile, Rename
<1>8. ASSUME NEW e \in Editor, FortuneFail(e) PROVE Listings'
  BY <1>8 DEF FortuneFail, Unsee
<1>9. ASSUME NEW r \in Reader, Size(r) \/ Pick(r) \/ Draw(r) PROVE Listings'
  BY <1>9 DEF Size, Pick, Draw
<1>10. CASE UNCHANGED fortuneVars
  BY <1>10 DEF fortuneVars
<1> QED
  BY <1>1, <1>2, <1>3, <1>4, <1>5, <1>6, <1>7, <1>8, <1>9, <1>10 DEF FortuneNext

LEMMA BookStep ==
  ASSUME FortuneTypeOK, Locks, Listings, Books, [FortuneNext]_fortuneVars
  PROVE  Books'
<1> USE RequestAssumption DEF FortuneTypeOK, Books, Writer, Editor, disk, form, Go, See
<1>1. ASSUME NEW a \in Adder, LockAdd(a) PROVE Books'
  BY <1>1 DEF LockAdd
<1>2. ASSUME NEW a \in Adder, AppendText(a) PROVE Books'
  <2> DEFINE start == IF saw[a].size = 0 THEN 0 ELSE saw[a].size + 1
  <2>1. \A r \in Remover : pc[r] # "cut" /\ pc'[r] # "cut"
    BY <1>2 DEF AppendText, Locks
  <2>2. a \notin added /\ a \notin took /\ added' = added \cup {a} /\ took' = took
    BY <1>2 DEF AppendText
  <2>3. DOMAIN file' = DOMAIN file \cup {start}
        /\ \A o \in DOMAIN file' : file'[o] = IF o = start THEN a ELSE file[o]
    BY <1>2 DEF AppendText
  <2>4. Sound(file, DOMAIN file, added \ took)
    BY <2>1, Alternate DEF Locks
  <2>5. Sound(file', DOMAIN file', added' \ took')
    <3> HIDE DEF start
    <3> QED BY <2>2, <2>3, <2>4 DEF Sound
  <2>6. \A b \in Adder : pc'[b] \in {"new", "locked"} => b # a /\ pc[b] \in {"new", "locked"}
    BY <1>2 DEF AppendText
  <2> QED BY <2>1, <2>2, <2>5, <2>6
<1>3. ASSUME NEW r \in Remover, List(r) PROVE Books'
  BY <1>3 DEF List
<1>4. ASSUME NEW r \in Remover, LockRemove(r) PROVE Books'
  BY <1>4 DEF LockRemove
<1>5. ASSUME NEW r \in Remover, Rewrite(r) PROVE Books'
  <2>1. \A q \in Remover : pc[q] # "cut" /\ (pc'[q] = "cut" => q = r)
    BY <1>5 DEF Rewrite, Locks
  <2>2. epoch % 2 = 0 /\ epoch' % 2 # 0
    BY <1>5, <2>1, Alternate DEF Rewrite, Locks
  <2>3. Sound(file, DOMAIN file, added \ took)
    BY <2>2
  <2>4. saw[r].file = file /\ saw'[r].file = file /\ chosen' = chosen /\ chosen[r] \subseteq DOMAIN file
    BY <1>5 DEF Rewrite, Listings
  <2>5. took' = took \cup {file[o] : o \in chosen[r]} /\ added' = added
    BY <1>5, <2>4 DEF Rewrite
  <2>6. took' \subseteq added
    BY <2>3, <2>4, <2>5 DEF Sound
  <2>7. Sound(file, DOMAIN file \ chosen[r], added' \ took')
    BY <2>3, <2>4, <2>5 DEF Sound
  <2>8. \A b \in Adder : pc'[b] \in {"new", "locked"} => pc[b] \in {"new", "locked"}
    BY <1>5 DEF Rewrite
  <2> QED BY <2>1, <2>2, <2>4, <2>5, <2>6, <2>7, <2>8
<1>6. ASSUME NEW r \in Remover, Truncate(r) PROVE Books'
  <2>1. Sound(saw[r].file, DOMAIN saw[r].file \ chosen[r], added \ took)
    BY <1>6 DEF Truncate
  <2>2. Sound(file', DOMAIN file', added \ took)
    BY <1>6, <2>1, RemainingSound DEF Truncate
  <2>3. \A q \in Remover : pc'[q] # "cut"
    BY <1>6 DEF Truncate, Locks
  <2>4. added' = added /\ took' = took
        /\ \A b \in Adder : pc'[b] \in {"new", "locked"} => pc[b] \in {"new", "locked"}
    BY <1>6 DEF Truncate
  <2> QED BY <2>2, <2>3, <2>4
<1>7. ASSUME NEW w \in Writer, ReadFile(w) \/ Rename(w) PROVE Books'
  BY <1>7 DEF ReadFile, Rename
<1>8. ASSUME NEW e \in Editor, FortuneFail(e) PROVE Books'
  BY <1>8 DEF FortuneFail, Unsee
<1>9. ASSUME NEW r \in Reader, Size(r) \/ Pick(r) \/ Draw(r) PROVE Books'
  BY <1>9 DEF Size, Pick, Draw
<1>10. CASE UNCHANGED fortuneVars
  BY <1>10 DEF fortuneVars
<1> QED
  BY <1>1, <1>2, <1>3, <1>4, <1>5, <1>6, <1>7, <1>8, <1>9, <1>10 DEF FortuneNext

-----------------------------------------------------------------------------
(* The next state's Snap, and the readings there can be.                   *)
Later(s) ==
  /\ s.epoch \leq epoch'
  /\ s.epoch = epoch' =>
       /\ s.size \leq size'
       /\ s.offs \subseteq DOMAIN file'
       /\ {o \in DOMAIN file' : o < s.size} \subseteq s.offs

Readings == [at : {"new", "sized", "picked"}, size : Nat, offs : SUBSET Nat, epoch : Nat] \cup Index

(* A step that lets every reading stand keeps those that are kept.         *)
LEMMA SnapsKept ==
  ASSUME FortuneTypeOK, Snaps, UNCHANGED <<index, built, look>>,
         \A s \in Readings : Snap(s) => Later(s),
         epoch \leq epoch', epoch' = epoch => size \leq size', epoch' \in Nat, size' \in Nat
  PROVE  Snaps'
<1>1. index \in Readings /\ (\A w \in Writer : built[w] \in Readings) /\ (\A r \in Reader : look[r] \in Readings)
  BY DEF FortuneTypeOK, Readings
<1>2. Later(index') /\ \A w \in Writer : Later(built'[w])
  BY <1>1 DEF Snaps
<1>3. \A r \in Reader : look'[r].at = "picked" => Later(look'[r])
  BY <1>1 DEF Snaps
<1>4. ASSUME NEW r \in Reader, look'[r].at = "sized"
      PROVE  look'[r].epoch \leq epoch' /\ (look'[r].epoch = epoch' => look'[r].size \leq size')
  <2>1. look[r].epoch \in Nat /\ look[r].size \in Nat /\ epoch \in Nat /\ size \in Nat
    BY DEF FortuneTypeOK
  <2>2. look'[r] = look[r] /\ epoch \leq epoch' /\ (epoch' = epoch => size \leq size')
    OBVIOUS
  <2>3. look[r].epoch \leq epoch /\ (look[r].epoch = epoch => look[r].size \leq size)
    BY <1>4, <2>2 DEF Snaps
  <2> QED BY <2>1, <2>2, <2>3
<1> QED BY <1>2, <1>3, <1>4 DEF Snaps, Snap, Later

LEMMA SnapStep ==
  ASSUME FortuneTypeOK, Locks, Listings, Snaps, FortuneTypeOK', [FortuneNext]_fortuneVars
  PROVE  Snaps'
<1> USE DEF disk, form
<1>1. ASSUME UNCHANGED disk, UNCHANGED <<index, built, look>> PROVE Snaps'
  BY <1>1 DEF Snaps, Snap
<1>2. ASSUME NEW a \in Adder, AppendText(a) PROVE Snaps'
  <2> DEFINE start == IF saw[a].size = 0 THEN 0 ELSE saw[a].size + 1
  <2>1. size \in Nat /\ saw[a].size = size /\ Length[a] \in Nat
    BY <1>2, RequestAssumption DEF AppendText, Listings, Editor, FortuneTypeOK
  <2>2. start \in Nat /\ start \geq size /\ size' \geq size /\ epoch' = epoch
    BY <1>2, <2>1 DEF AppendText
  <2>3. DOMAIN file' = DOMAIN file \cup {start}
    BY <1>2 DEF AppendText
  <2>4. \A s \in Readings : s.size \in Nat
    BY DEF Readings, Index
  <2>5. \A s \in Readings : Snap(s) => Later(s)
    <3> HIDE DEF start
    <3> QED BY <2>1, <2>2, <2>3, <2>4 DEF Snap, Later, FortuneTypeOK
  <2> QED BY <1>2, <2>2, <2>5, SnapsKept DEF AppendText, FortuneTypeOK
<1>3. ASSUME NEW r \in Remover, Rewrite(r) \/ Truncate(r) PROVE Snaps'
  <2>1. epoch' = epoch + 1 /\ epoch \in Nat /\ UNCHANGED <<index, built, look>>
    BY <1>3 DEF Rewrite, Truncate, FortuneTypeOK
  <2>2. \A s \in Readings : s.epoch \in Nat
    BY DEF Readings, Index
  <2>3. \A s \in Readings : Snap(s) => Later(s)
    BY <2>1, <2>2 DEF Snap, Later
  <2> QED BY <2>1, <2>3, SnapsKept DEF FortuneTypeOK
<1>4. ASSUME NEW w \in Writer, ReadFile(w) PROVE Snaps'
  <2>1. Snap(Scanned)
    BY DEF Snap, Scanned, FortuneTypeOK
  <2>2. \A v \in Writer : Snap(built'[v])
    BY <1>4, <2>1 DEF ReadFile, Snaps, FortuneTypeOK
  <2> QED BY <1>4, <2>2 DEF ReadFile, Snaps, Snap
<1>5. ASSUME NEW w \in Writer, Rename(w) PROVE Snaps'
  <2>1. Snap(NoIndex)
    BY DEF Snap, NoIndex, FortuneTypeOK, IsFile
  <2>2. Snap(index') /\ \A v \in Writer : Snap(built'[v])
    BY <1>5, <2>1 DEF Rename, Snaps, FortuneTypeOK
  <2> QED BY <1>5, <2>2 DEF Rename, Snaps, Snap
<1>6. ASSUME NEW r \in Reader, Size(r) PROVE Snaps'
  BY <1>6 DEF Size, Snaps, Snap, FortuneTypeOK
<1>7. ASSUME NEW r \in Reader, Pick(r) PROVE Snaps'
  <2> DEFINE k == look[r]
             s == Source(k.size)
  <2>1. k.size \in Nat /\ k.epoch \in Nat /\ s.epoch \in Nat /\ epoch \in Nat /\ size \in Nat
    BY DEF FortuneTypeOK, Source, Scanned, Index
  <2>2. k.epoch \leq epoch /\ (k.epoch = epoch => k.size \leq size)
    BY <1>7 DEF Pick, Snaps
  <2>3. s.epoch = epoch => s.offs \subseteq DOMAIN file /\ {o \in DOMAIN file : o < k.size} \subseteq s.offs
    BY DEF Source, Scanned, Snaps, Snap
  <2>4. look'[r] = IF s.offs = {} THEN Away
                   ELSE [at |-> "picked", size |-> k.size, offs |-> s.offs, epoch |-> Earlier(k.epoch, s.epoch)]
    BY <1>7 DEF Pick, FortuneTypeOK
  <2>5. s.epoch \leq epoch
    BY <2>1 DEF Source, Scanned, Snaps, Snap
  <2>6. look'[r].at = "picked" => Snap(look'[r])
    <3> HIDE DEF k, s
    <3> QED BY <2>1, <2>2, <2>3, <2>4, <2>5 DEF Snap, Earlier, Away
  <2>7. look'[r].at # "sized"
    BY <2>4 DEF Away
  <2>8. \A q \in Reader \ {r} : look'[q] = look[q]
    BY <1>7 DEF Pick, FortuneTypeOK
  <2> QED BY <1>7, <2>6, <2>7, <2>8 DEF Pick, Snaps, Snap
<1>8. ASSUME NEW r \in Reader, Draw(r) PROVE Snaps'
  BY <1>8 DEF Draw, Away, Snaps, Snap, FortuneTypeOK
<1>9. CASE UNCHANGED fortuneVars
  BY <1>1, <1>9 DEF fortuneVars
<1>10. ASSUME NEW a \in Adder, LockAdd(a) PROVE Snaps'
  BY <1>1, <1>10 DEF LockAdd
<1>11. ASSUME NEW r \in Remover, List(r) \/ LockRemove(r) PROVE Snaps'
  BY <1>1, <1>11 DEF List, LockRemove
<1>12. ASSUME NEW e \in Editor, FortuneFail(e) PROVE Snaps'
  BY <1>1, <1>12 DEF FortuneFail
<1> QED
  BY <1>2, <1>3, <1>4, <1>5, <1>6, <1>7, <1>8, <1>9, <1>10, <1>11, <1>12 DEF FortuneNext

-----------------------------------------------------------------------------
(* The invariant holds of the file, its index and the requests (all of     *)
(* fortunes.cgi and cookie.cgi).                                           *)
THEOREM FortuneInvariant == FortuneSpec => []IInv
<1>1. IInv /\ [FortuneNext]_fortuneVars => IInv'
  BY TypeStep, LockStep, ListingStep, BookStep, SnapStep DEF IInv
<1> QED BY <1>1, InitInvariant, PTL DEF FortuneSpec

(* cookie.cgi, which takes no lock, prints a whole fortune that was added  *)
(* and not ticked, unless a removal overtook it.                           *)
THEOREM WholeFortunes == FortuneSpec => []DrawsWhole
<1>1. IInv => DrawsWhole
  <2> SUFFICES ASSUME IInv, NEW r \in Reader,
                      look[r].at = "picked", look[r].epoch = epoch, epoch % 2 = 0,
                      NEW o \in look[r].offs
               PROVE  TextAt(o) \in added \ took
    BY DEF DrawsWhole
  <2>1. o \in DOMAIN file
    BY DEF IInv, Snaps, Snap
  <2>2. file[o] \in added \ took
    BY <2>1 DEF IInv, Books, Sound
  <2> QED BY <2>1, <2>2 DEF TextAt
<1> QED BY <1>1, FortuneInvariant, PTL

(* Whichever index it took, cookie.cgi can draw every fortune that was in  *)
(* the file when it looked, with the same exception.                       *)
THEOREM AllFortunes == FortuneSpec => []DrawsFromAll
<1>1. IInv => DrawsFromAll
  BY DEF IInv, Snaps, Snap, DrawsFromAll
<1> QED BY <1>1, FortuneInvariant, PTL

-----------------------------------------------------------------------------
(* Lines that stay keep their distance; others come no closer than 0.      *)
LEMMA LeftAdds ==
  ASSUME NEW F, NEW S, NEW R, NEW m \in Nat, NEW n \in Nat, m \leq n
  PROVE  /\ Left(F, S, R, m) \leq Left(F, S, R, n)
         /\ (m .. n - 1) \cap UNION {Stretch(F, S, o) : o \in R} = {}
              => Left(F, S, R, n) = Left(F, S, R, m) + (n - m)
<1> DEFINE G == UNION {Stretch(F, S, o) : o \in R}
           A == (0 .. m - 1) \ G
           B == (m .. n - 1) \ G
<1> HIDE DEF G
<1>1. IsFiniteSet(A) /\ IsFiniteSet(B)
  <2>1. 0 \in Int /\ m - 1 \in Int /\ m \in Int /\ n - 1 \in Int
    OBVIOUS
  <2>2. IsFiniteSet(0 .. m - 1) /\ IsFiniteSet(m .. n - 1)
    BY <2>1, FS_Interval
  <2> QED BY <2>2, FS_Difference
<1>2. Left(F, S, R, m) = Cardinality(A) /\ Left(F, S, R, n) = Cardinality((0 .. n - 1) \ G)
  BY DEF Left, G
<1>3. (0 .. n - 1) \ G = A \cup B /\ A \cap B = {}
  OBVIOUS
<1>4. Cardinality(A \cup B) = Cardinality(A) + Cardinality(B) - Cardinality(A \cap B)
  BY <1>1, FS_Union
<1>5. Cardinality(A) \in Nat /\ Cardinality(B) \in Nat /\ Cardinality(A \cap B) = 0
  BY <1>1, <1>3, FS_CardinalityType, FS_EmptySet
<1>6. ASSUME (m .. n - 1) \cap G = {} PROVE Cardinality(B) = n - m
  <2>1. B = m .. n - 1
    BY <1>6
  <2>2. Cardinality(m .. n - 1) = IF m > n - 1 THEN 0 ELSE (n - 1) - m + 1
    BY FS_Interval
  <2>3. (IF m > n - 1 THEN 0 ELSE (n - 1) - m + 1) = n - m
    OBVIOUS
  <2> HIDE DEF B
  <2> QED BY <2>1, <2>2, <2>3
<1> HIDE DEF A, B
<1>7. Left(F, S, R, n) = Left(F, S, R, m) + Cardinality(B)
  BY <1>2, <1>3, <1>4, <1>5
<1>8. Left(F, S, R, m) \in Nat
  BY LeftType
<1> QED BY <1>5, <1>6, <1>7, <1>8 DEF G

(* What stays of a laid file, as it is moved together.                     *)
LEMMA RemainingApart ==
  ASSUME NEW F, NEW S \in Nat, NEW R, IsFile(F), Laid(F, S), R \subseteq DOMAIN F,
         NEW o \in DOMAIN F \ R
  PROVE  /\ Left(F, S, R, End(F, o)) = Left(F, S, R, o) + Length[F[o]]
         /\ Left(F, S, R, End(F, o)) \leq Left(F, S, R, S)
         /\ \A q \in DOMAIN F \ R : o < q => Left(F, S, R, End(F, o)) < Left(F, S, R, q)
<1> DEFINE G == UNION {Stretch(F, S, p) : p \in R}
<1>1. \A p \in DOMAIN F : /\ p \in Nat /\ Length[F[p]] \in Nat /\ Length[F[p]] > 0
                           /\ End(F, p) = p + Length[F[p]] /\ End(F, p) \in Nat /\ End(F, p) \leq S
  BY RequestAssumption DEF IsFile, Laid, End
<1>2. \A p, q \in DOMAIN F : p < q => End(F, p) < q
  BY DEF Laid
<1>3. \A p \in R : \A l \in Stretch(F, S, p) :
         /\ l \in Nat /\ l \geq p - 1 /\ l \leq End(F, p)
         /\ l = p - 1 => End(F, p) = S
         /\ l = End(F, p) => End(F, p) # S
  BY <1>1 DEF Stretch
<1>4. (o .. End(F, o) - 1) \cap G = {}
  <2> SUFFICES ASSUME NEW p \in R, NEW l \in Stretch(F, S, p), l \geq o, l < End(F, o)
               PROVE  FALSE
    BY <1>1
  <2>1. CASE p < o
    BY <2>1, <1>1, <1>2, <1>3
  <2>2. CASE o < p
    BY <2>2, <1>1, <1>2, <1>3
  <2> QED BY <2>1, <2>2, <1>1
<1>5. Left(F, S, R, End(F, o)) = Left(F, S, R, o) + Length[F[o]]
  BY <1>1, <1>4, LeftAdds
<1>6. Left(F, S, R, End(F, o)) \leq Left(F, S, R, S)
  BY <1>1, LeftAdds
<1>7. ASSUME NEW q \in DOMAIN F \ R, o < q
      PROVE  Left(F, S, R, End(F, o)) < Left(F, S, R, q)
  <2> DEFINE e == End(F, o)
  <2>1. e \in Nat /\ e + 1 \leq q /\ q \in Nat
    BY <1>1, <1>2, <1>7
  <2>2. e \notin G
    <3> SUFFICES ASSUME NEW p \in R, e \in Stretch(F, S, p) PROVE FALSE
      OBVIOUS
    <3>1. CASE p < o
      BY <3>1, <1>1, <1>2, <1>3
    <3>2. CASE o < p
      <4>1. e = p - 1 /\ End(F, p) = S
        BY <3>2, <1>1, <1>2, <1>3
      <4>2. p < q
        BY <4>1, <2>1, <1>1
      <4> QED BY <4>1, <4>2, <1>1, <1>2
    <3> QED BY <3>1, <3>2, <1>1
  <2>3. (e .. (e + 1) - 1) \cap G = {}
    BY <2>1, <2>2
  <2> HIDE DEF e
  <2>4. Left(F, S, R, e + 1) = Left(F, S, R, e) + ((e + 1) - e)
    BY <2>1, <2>3, LeftAdds
  <2>5. Left(F, S, R, e + 1) \leq Left(F, S, R, q)
    BY <2>1, LeftAdds
  <2>6. Left(F, S, R, e) \in Nat /\ Left(F, S, R, q) \in Nat
    BY <2>1, LeftType
  <2> QED BY <2>1, <2>4, <2>5, <2>6 DEF e
<1> QED BY <1>5, <1>6, <1>7

(* A removal leaves a laid file, with all that was not ticked.             *)
LEMMA RemainingLaid ==
  ASSUME NEW F, NEW S \in Nat, NEW R, NEW T, IsFile(F), Laid(F, S), R \subseteq DOMAIN F,
         Holds(F, DOMAIN F \ R, T)
  PROVE  /\ Laid(Remaining(F, S, R), Shorter(F, S, R))
         /\ Holds(Remaining(F, S, R), DOMAIN Remaining(F, S, R), T)
<1> DEFINE P == DOMAIN F \ R
           L(o) == Left(F, S, R, o)
           D == {L(o) : o \in P}
           At(n) == CHOOSE o \in P : L(o) = n
           N == Remaining(F, S, R)
<1>1. N = [n \in D |-> F[At(n)]]
  BY DEF Remaining
<1>2. \A o \in P : o \in Nat /\ F[o] \in Adder /\ End(F, o) = o + Length[F[o]]
  BY DEF IsFile, Laid, End
<1>3. \A o \in P : L(o) \in Nat /\ Length[F[o]] \in Nat /\ Length[F[o]] > 0
  BY <1>2, LeftType, RequestAssumption
<1>4. \A o \in P : /\ L(End(F, o)) = L(o) + Length[F[o]]
                   /\ L(End(F, o)) \leq Shorter(F, S, R)
                   /\ \A q \in P : o < q => L(End(F, o)) < L(q)
  BY RemainingApart DEF Shorter
<1>5. \A n \in D : At(n) \in P /\ L(At(n)) = n
  OBVIOUS
<1> HIDE DEF L, At
<1>6. \A o, q \in P : o < q => L(o) < L(q)
  <2> SUFFICES ASSUME NEW o \in P, NEW q \in P, o < q PROVE L(o) < L(q)
    OBVIOUS
  <2>1. L(o) + Length[F[o]] < L(q)
    BY <1>4
  <2> QED BY <2>1, <1>3
<1>7. \A o, q \in P : L(o) = L(q) => o = q
  BY <1>2, <1>3, <1>6
<1>8. DOMAIN N = D /\ \A n \in D : N[n] = F[At(n)]
  BY <1>1
<1>9. \A o \in P : L(o) \in D /\ N[L(o)] = F[o]
  BY <1>5, <1>7, <1>8
<1> HIDE DEF N
<1>10. \A o \in P : End(N, L(o)) = L(End(F, o))
  BY <1>4, <1>9 DEF End
<1>11. ASSUME NEW n \in D PROVE N[n] \in Adder /\ End(N, n) \leq Shorter(F, S, R)
  BY <1>2, <1>4, <1>5, <1>8, <1>10
<1>12. ASSUME NEW m \in D, NEW n \in D, m < n PROVE End(N, m) < n
  <2>1. At(m) \in P /\ At(n) \in P /\ L(At(m)) = m /\ L(At(n)) = n
    BY <1>5
  <2>2. At(m) < At(n)
    BY <2>1, <1>2, <1>3, <1>6, <1>12
  <2> QED BY <2>1, <2>2, <1>4, <1>10
<1>13. Laid(N, Shorter(F, S, R))
  BY <1>8, <1>11, <1>12 DEF Laid
<1>14. Holds(N, DOMAIN N, T)
  <2> HIDE DEF D
  <2> QED BY <1>8, <1>9 DEF Holds
<1> QED BY <1>13, <1>14 DEF N

LEMMA KeptStep ==
  ASSUME IInv, Kept, [FortuneNext]_fortuneVars
  PROVE  Kept'
<1> USE RequestAssumption DEF IInv, FortuneTypeOK, Writer, Editor, disk, form, Go, See
<1>1. ASSUME NEW a \in Adder, LockAdd(a) PROVE Kept'
  BY <1>1 DEF LockAdd, Kept
<1>2. ASSUME NEW a \in Adder, AppendText(a) PROVE Kept'
  <2> DEFINE start == IF saw[a].size = 0 THEN 0 ELSE saw[a].size + 1
  <2>1. saw[a].size = size /\ size \in Nat /\ Length[a] \in Nat /\ Length[a] > 0
    BY <1>2 DEF AppendText, Listings
  <2>2. \A r \in Remover : pc[r] # "cut" /\ pc'[r] # "cut"
    BY <1>2 DEF AppendText, Locks
  <2>3. Laid(file, size) /\ Holds(file, DOMAIN file, added \ took)
    BY <2>2, Alternate DEF Locks, Kept
  <2>4. /\ DOMAIN file' = DOMAIN file \cup {start}
        /\ \A o \in DOMAIN file' : file'[o] = IF o = start THEN a ELSE file[o]
        /\ size' = start + Length[a] /\ added' = added \cup {a} /\ took' = took
    BY <1>2 DEF AppendText
  <2>5. \A o \in DOMAIN file : /\ o \in Nat /\ o < End(file, o) /\ End(file, o) \in Nat
                              /\ file[o] \in Adder /\ End(file, o) \leq size
    BY <2>3 DEF Laid, End, IsFile
  <2>6. \A o \in DOMAIN file : End(file, o) < start /\ o # start
    BY <2>1, <2>5
  <2>7. start \in Nat /\ size \leq start + Length[a] /\ start + Length[a] \in Nat
    BY <2>1
  <2> HIDE DEF start
  <2>8. \A o \in DOMAIN file : file'[o] = file[o] /\ End(file', o) = End(file, o)
    BY <2>4, <2>6 DEF End
  <2>9. file'[start] = a /\ End(file', start) = size'
    BY <2>4 DEF End
  <2>10. Laid(file', size')
    <3>1. \A o \in DOMAIN file' : file'[o] \in Adder /\ End(file', o) \leq size'
      BY <2>1, <2>4, <2>5, <2>7, <2>8, <2>9
    <3>2. \A o, q \in DOMAIN file' : o < q => End(file', o) < q
      <4> SUFFICES ASSUME NEW o \in DOMAIN file', NEW q \in DOMAIN file', o < q
                   PROVE  End(file', o) < q
        OBVIOUS
      <4>1. CASE o = start
        BY <4>1, <2>4, <2>5, <2>6, <2>7
      <4>2. CASE o \in DOMAIN file
        BY <4>2, <2>3, <2>4, <2>6, <2>8 DEF Laid
      <4> QED BY <4>1, <4>2, <2>4
    <3> QED BY <3>1, <3>2 DEF Laid
  <2>11. Holds(file', DOMAIN file', added' \ took')
    BY <2>3, <2>4, <2>8, <2>9 DEF Holds
  <2> QED BY <2>2, <2>10, <2>11 DEF Kept
<1>3. ASSUME NEW r \in Remover, List(r) PROVE Kept'
  BY <1>3 DEF List, Kept
<1>4. ASSUME NEW r \in Remover, LockRemove(r) PROVE Kept'
  BY <1>4 DEF LockRemove, Kept
<1>5. ASSUME NEW r \in Remover, Rewrite(r) PROVE Kept'
  <2>1. \A q \in Remover : pc[q] # "cut" /\ (pc'[q] = "cut" => q = r)
    BY <1>5 DEF Rewrite, Locks
  <2>2. epoch % 2 = 0 /\ epoch' % 2 # 0
    BY <1>5, <2>1, Alternate DEF Rewrite, Locks
  <2>3. Laid(file, size) /\ Holds(file, DOMAIN file, added \ took)
    BY <2>2 DEF Kept
  <2>4. /\ saw[r].file = file /\ saw'[r].file = file /\ saw'[r].size = size
        /\ chosen' = chosen /\ added' = added
        /\ took' = took \cup {file[o] : o \in chosen[r]}
    BY <1>5 DEF Rewrite, Listings
  <2>5. Holds(file, DOMAIN file \ chosen[r], added' \ took')
    BY <2>3, <2>4 DEF Holds
  <2> QED BY <2>1, <2>2, <2>3, <2>4, <2>5 DEF Kept
<1>6. ASSUME NEW r \in Remover, Truncate(r) PROVE Kept'
  <2>1. /\ Laid(saw[r].file, saw[r].size)
        /\ Holds(saw[r].file, DOMAIN saw[r].file \ chosen[r], added \ took)
    BY <1>6 DEF Truncate, Kept
  <2>2. IsFile(saw[r].file) /\ saw[r].size \in Nat /\ chosen[r] \subseteq DOMAIN saw[r].file
    BY <1>6 DEF Truncate, Listings
  <2>3. Laid(file', size') /\ Holds(file', DOMAIN file', added \ took)
    BY <1>6, <2>1, <2>2, RemainingLaid DEF Truncate
  <2>4. \A q \in Remover : pc'[q] # "cut"
    BY <1>6 DEF Truncate, Locks
  <2> QED BY <1>6, <2>3, <2>4 DEF Truncate, Kept
<1>7. ASSUME NEW w \in Writer, ReadFile(w) \/ Rename(w) PROVE Kept'
  BY <1>7 DEF ReadFile, Rename, Kept
<1>8. ASSUME NEW e \in Editor, FortuneFail(e) PROVE Kept'
  BY <1>8 DEF FortuneFail, Unsee, Kept
<1>9. ASSUME NEW r \in Reader, Size(r) \/ Pick(r) \/ Draw(r) PROVE Kept'
  BY <1>9 DEF Size, Pick, Draw, Kept
<1>10. CASE UNCHANGED fortuneVars
  BY <1>10 DEF fortuneVars, Kept
<1> QED
  BY <1>1, <1>2, <1>3, <1>4, <1>5, <1>6, <1>7, <1>8, <1>9, <1>10 DEF FortuneNext

(* fortunes.cgi loses no fortune and removes none that was not ticked,     *)
(* whatever adds and removals wait for one another.                        *)
THEOREM NothingLost == FortuneSpec => []BooksBalance
<1>1. FortuneInit => Kept
  BY DEF FortuneInit, Kept, Laid, Holds, Writer
<1>2. IInv /\ Kept => BooksBalance
  <2> SUFFICES ASSUME IInv, Kept, epoch % 2 = 0
               PROVE  /\ Range(file) = added \ took
                      /\ Cardinality(DOMAIN file) = Cardinality(added \ took)
    BY DEF BooksBalance
  <2>1. Sound(file, DOMAIN file, added \ took) /\ Laid(file, size) /\ Holds(file, DOMAIN file, added \ took)
    BY DEF IInv, Books, Kept
  <2>2. Range(file) = added \ took
    BY <2>1 DEF Range, Sound, Holds
  <2>3. file \in Bijection(DOMAIN file, added \ took)
    <3>1. file \in [DOMAIN file -> added \ took]
      BY <2>1 DEF Sound, IInv, FortuneTypeOK, IsFile
    <3>2. \A o, q \in DOMAIN file : file[o] = file[q] => o = q
      BY <2>1 DEF Sound
    <3>3. \A t \in added \ took : \E o \in DOMAIN file : file[o] = t
      BY <2>1 DEF Holds
    <3> QED BY <3>1, <3>2, <3>3 DEF Bijection, Injection, Surjection, IsInjective
  <2>4. DOMAIN file \subseteq 0 .. size
    <3>1. \A o \in DOMAIN file : o \in Nat /\ Length[file[o]] \in Nat /\ o + Length[file[o]] \leq size
      BY <2>1, RequestAssumption DEF Laid, End, IInv, FortuneTypeOK, IsFile
    <3> QED BY <3>1 DEF IInv, FortuneTypeOK
  <2>5. IsFiniteSet(DOMAIN file)
    <3>1. 0 \in Int /\ size \in Int
      BY DEF IInv, FortuneTypeOK
    <3>2. IsFiniteSet(0 .. size)
      BY <3>1, FS_Interval
    <3> QED BY <3>2, <2>4, FS_Subset
  <2>6. ExistsBijection(DOMAIN file, added \ took)
    BY <2>3 DEF ExistsBijection
  <2> QED BY <2>2, <2>5, <2>6, FS_Bijection
<1> QED BY <1>1, <1>2, KeptStep, FortuneInvariant, PTL DEF FortuneSpec
=============================================================================
