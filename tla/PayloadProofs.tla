----------------------------- MODULE PayloadProofs -----------------------------
(***************************************************************************)
(* Theorems about PayloadResolution, for any files, repositories, targets  *)
(* and budgets.                                                            *)
(***************************************************************************)
EXTENDS PayloadResolution, TLAPS

Reading == {"stat", "read", "after", "name"}

\* Where the resolver is, and what it has put aside of its budgets.
Place ==
    /\ pc \in Reading => item <= Len(target) /\ this.kind = "file"
    /\ pc = "objects" => item <= Len(target) /\ this.kind = "snapshot"
    /\ pc = "check" => item > Len(target)
    /\ pc \in Reading \ {"stat"} => before \in Prints /\ before.size <= bytes
    /\ pc = "objects" => before \in Commits /\ Objects[before] <= bytes /\ Objects[before] <= members
    /\ pc # "check" => checked = {} /\ verdict = "none"
    /\ verdict = "unchanged" => checked = parts

\* A state of a file and a later or the same one.
earlier(old, new) == old.stamp <= new.stamp /\ (old.stamp = new.stamp => old = new)

\* What is open is an earlier state of the path, and while it does not change what was
\* read is the beginning of it.
OpenedEarlier ==
    pc \in Reading => earlier(opened, files[this.path])
isPrefix(blocks, file) ==
    \A b \in 1..Len(blocks) : b <= Len(file.blocks) /\ blocks[b] = file.blocks[b]
ReadsPrefix ==
    IF pc \in Reading \ {"stat"}
    THEN /\ before.stamp <= opened.stamp
         /\ before.stamp = opened.stamp => isPrefix(content, opened)
    ELSE content = <<>>

\* A part is what its path has shown at the change time of its fingerprint.
isOf(p, file) == p.print.stamp <= file.stamp /\ (p.print.stamp = file.stamp => file.blocks = p.blocks)
PartsEarlier ==
    \A p \in parts : p.kind = "file" =>
        p.path \in Files /\ p.print \in Prints /\ isOf(p, files[p.path])
HeldBetween ==
    pc = "check" =>
        /\ \A f \in Files : earlier(held[f], files[f])
        /\ \A p \in parts : p.kind = "file" => isOf(p, held[p.path])
CheckedWereHeld ==
    verdict # "changed" =>
        \A p \in checked : p.kind = "file" => held[p.path].blocks = p.blocks

\* Nothing is missing of what was visited so far, or something is known to be.
isWhole(n) ==
    IF target[n].kind = "collection"
    THEN target[n].complete /\ n \in expanded /\ target[n].members <= MaxMembers
    ELSE \E p \in parts : p.node = n
WholeSoFar == needs = {} => \A n \in 1..Len(target) : n < item => isWhole(n)

Typed == TypeOK /\ Place
IInv  == Typed /\ OpenedEarlier /\ ReadsPrefix /\ PartsEarlier /\ HeldBetween /\ CheckedWereHeld

-------------------------------------------------------------------------------
(* Types *)

\* What is known of the item that the resolver is at.
LEMMA ThisItem ==
    ASSUME TypeOK, item <= Len(target)
    PROVE  /\ this \in Items
           /\ target \in Seq(Items)
           /\ this.kind = "file" => this.path \in Files
           /\ this.kind = "snapshot" => this.path \in Repositories
<1>1. item \in 1..Len(target)
  BY TargetsAssumption DEF TypeOK
<1> QED  BY <1>1, TargetsAssumption DEF TypeOK, this

\* Sequences of blocks that an edit makes from others.
LEMMA EditedBlocks ==
    ASSUME NEW blocks \in Seq(Nat), NEW new \in Nat
    PROVE  /\ \A b \in DOMAIN blocks : [blocks EXCEPT ![b] = new] \in Seq(Nat)
           /\ Append(blocks, new) \in Seq(Nat)
           /\ Len(blocks) > 0 => SubSeq(blocks, 1, Len(blocks) - 1) \in Seq(Nat)
           /\ [b \in DOMAIN blocks |-> new] \in Seq(Nat)
OBVIOUS

LEMMA NewBlocks == \A n \in Nat : [b \in 1..n |-> 0] \in Seq(Nat)
OBVIOUS

LEMMA InitTyped == Init => Typed
<1> SUFFICES ASSUME Init PROVE Typed
  OBVIOUS
<1>1. files \in [Files -> FileStates]
  BY NewBlocks, BoundAssumption DEF Init, FileStates
<1>2. Unread \in FileStates /\ Unprinted \in Prints
  BY DEF Unread, Unprinted, FileStates, Prints, fingerprint
<1>3. TypeOK
  BY <1>1, <1>2, BoundAssumption DEF Init, TypeOK
<1>4. Place
  BY DEF Init, Place, Reading
<1> QED  BY <1>3, <1>4 DEF Typed

\* Every change of a file advances its change time and leaves the other files alone;
\* an open file follows its path or stays.
LEMMA EditStep ==
    ASSUME TypeOK, NEW f \in Files, Edit(f)
    PROVE  \E file \in FileStates :
            /\ file.stamp = files[f].stamp + 1
            /\ files' = [files EXCEPT ![f] = file]
            /\ opened' = IF pc \in Reading /\ this.path = f /\ opened.inode = files[f].inode
                         THEN file ELSE opened
            /\ UNCHANGED <<heads, pc, target, item, before, after, content, found, check>>
<1> DEFINE blocks == files[f].blocks
           new == files[f].stamp + 1
           edited(b) == [files[f] EXCEPT !.stamp = @ + 1, !.blocks = b]
<1>1. files[f] \in FileStates /\ blocks \in Seq(Nat) /\ new \in Nat
  BY DEF TypeOK, FileStates
<1>2. PICK b \in Seq(Nat) : write(f, b)
  <2>1. CASE \E b \in DOMAIN blocks : write(f, [blocks EXCEPT ![b] = new])
    BY <1>1, <2>1, EditedBlocks
  <2>2. CASE write(f, Append(blocks, new))
    BY <1>1, <2>2, EditedBlocks
  <2>3. CASE Len(blocks) > 0 /\ write(f, SubSeq(blocks, 1, Len(blocks) - 1))
    BY <1>1, <2>3, EditedBlocks
  <2> QED  BY <2>1, <2>2, <2>3 DEF Edit
<1>3. edited(b) \in FileStates /\ edited(b).stamp = files[f].stamp + 1
  BY <1>1 DEF FileStates
<1>4. /\ files' = [files EXCEPT ![f] = edited(b)]
      /\ opened' = IF pc \in Reading /\ this.path = f /\ opened.inode = files[f].inode
                   THEN edited(b) ELSE opened
  BY <1>2 DEF write, Reading, this
<1> QED  BY <1>3, <1>4 DEF Edit

LEMMA ReplaceStep ==
    ASSUME TypeOK, NEW f \in Files, Replace(f)
    PROVE  \E file \in FileStates :
            /\ file.stamp = files[f].stamp + 1
            /\ files' = [files EXCEPT ![f] = file]
            /\ UNCHANGED <<heads, pc, target, item, reading, found, check>>
<1> DEFINE file == [inode |-> files[f].inode + 1, stamp |-> files[f].stamp + 1,
                    blocks |-> [b \in DOMAIN files[f].blocks |-> files[f].stamp + 1]]
<1>1. files[f] \in FileStates
  BY DEF TypeOK
<1>2. file \in FileStates
  BY <1>1, EditedBlocks DEF FileStates
<1>3. files' = [files EXCEPT ![f] = file]
  BY <1>1 DEF Replace
<1> QED  BY <1>2, <1>3 DEF Replace

LEMMA NoBlocks == <<>> \in Seq(Nat)
OBVIOUS

LEMMA LackTypes ==
    ASSUME TypeOK, lack \/ UNCHANGED needs
    PROVE  needs' \subseteq Nat
BY DEF lack, TypeOK

\* A part that is added for the item.
LEMMA PartTypes ==
    ASSUME TypeOK, item <= Len(target), NEW mark \in Prints \cup Commits, NEW blocks \in Seq(Nat),
           part(this.path, mark, blocks)
    PROVE  parts' \subseteq [node: Nat, kind: Kinds, path: Files \cup Repositories,
                             print: Prints \cup Commits, blocks: Seq(Nat)]
<1>1. this \in Items
  BY ThisItem
<1> QED  BY <1>1 DEF part, TypeOK, Items

\* A budget covers what is taken from it, and nothing is open outside of read_file().
LEMMA TypedStep == Typed /\ [Next]_vars => Typed'
<1> SUFFICES ASSUME TypeOK, Place, [Next]_vars PROVE TypeOK' /\ Place'
  BY DEF Typed
<1> USE DEF Reading, Place
<1>0. Unread \in FileStates /\ Unprinted \in Prints
  BY DEF Unread, Unprinted, FileStates, Prints, fingerprint
<1>1. ASSUME NEW f \in Files, Edit(f) PROVE TypeOK' /\ Place'
  BY <1>1, EditStep DEF TypeOK, found, check, this
<1>2. ASSUME NEW f \in Files, Replace(f) PROVE TypeOK' /\ Place'
  BY <1>2, ReplaceStep DEF TypeOK, reading, found, check, this
<1>3. ASSUME NEW r \in Repositories, Move(r) PROVE TypeOK' /\ Place'
  BY <1>3 DEF Move, TypeOK, reading, found, check, this
<1>4. CASE PassOver
  BY <1>4 DEF PassOver, visiting, next, goto, world, reading, found, check, TypeOK, this
<1>5. CASE Refuse
  BY <1>5 DEF Refuse, visiting, lack, next, goto, world, reading, check, TypeOK, this
<1>6. CASE Expand
  <2>1. members' \in Nat /\ expanded' \subseteq Nat
    BY <1>6 DEF Expand, visit, spent, TypeOK
  <2>2. needs' \subseteq Nat
    BY <1>6, LackTypes DEF Expand
  <2> QED  BY <1>6, <2>1, <2>2 DEF Expand, visit, visiting, next, goto, world, reading, check, TypeOK, this
<1>7. CASE Value
  <2>1. item <= Len(target) /\ this.size \in Nat /\ members' \in Nat
    BY <1>7, ThisItem DEF Value, visit, visiting, spent, TypeOK, Items
  <2>2. bytes' \in Nat /\ needs' \subseteq Nat
    BY <1>7, <2>1, LackTypes DEF Value, TypeOK
  <2>3. parts' \subseteq [node: Nat, kind: Kinds, path: Files \cup Repositories,
                          print: Prints \cup Commits, blocks: Seq(Nat)]
    BY <1>7, <2>1, <1>0, PartTypes, NoBlocks DEF Value, TypeOK
  <2> QED  BY <1>7, <2>1, <2>2, <2>3 DEF Value, visit, visiting, next, goto, world, reading, check, TypeOK, this
<1>8. CASE Unsupported
  BY <1>8 DEF Unsupported, visit, visiting, spent, lack, next, goto, world, reading, check, TypeOK, this
<1>9. CASE Open
  <2>1. this.path \in Files /\ item <= Len(target) /\ this.kind = "file"
    BY <1>9, ThisItem DEF Open, visit, visiting
  <2> QED  BY <1>9, <2>1 DEF Open, visit, spent, goto, world, check, TypeOK, this
<1>10. CASE Stat
  <2>1. fingerprint(opened) \in Prints /\ fingerprint(opened).size = Len(opened.blocks)
    BY DEF fingerprint, TypeOK, FileStates, Prints
  <2>2. CASE Len(opened.blocks) > bytes
    <3>1. lack /\ close
      BY <1>10, <2>2 DEF Stat
    <3> QED  BY <1>0, <1>10, <3>1, LackTypes DEF Stat, close, next, goto, world, check, TypeOK, this
  <2>3. CASE ~(Len(opened.blocks) > bytes)
    <3>1. Len(opened.blocks) <= bytes
      BY <2>3 DEF TypeOK, FileStates
    <3> QED  BY <1>10, <2>1, <2>3, <3>1 DEF Stat, goto, world, check, TypeOK, this
  <2> QED  BY <2>2, <2>3
<1>11. CASE Read
  <2>1. content' \in Seq(Nat)
    <3> DEFINE b == Len(content) + 1
    <3>1. content \in Seq(Nat) /\ opened.blocks \in Seq(Nat) /\ b \in Nat \ {0}
      BY DEF TypeOK, FileStates
    <3>2. CASE b <= Len(opened.blocks) /\ content' = Append(content, opened.blocks[b])
      <4>1. opened.blocks[b] \in Nat
        BY <3>1, <3>2
      <4> QED  BY <3>1, <3>2, <4>1
    <3> QED  BY <1>11, <3>1, <3>2 DEF Read
  <2> QED  BY <1>11, <2>1 DEF Read, goto, world, found, check, TypeOK, this
<1>12. CASE After
  <2>1. fingerprint(opened) \in Prints
    BY DEF fingerprint, TypeOK, FileStates, Prints
  <2> QED  BY <1>12, <2>1 DEF After, goto, world, found, check, TypeOK, this
<1>13. CASE Name
  <2>1. item <= Len(target)
    BY <1>13 DEF Name
  <2>2. bytes' \in Nat /\ needs' \subseteq Nat
    <3>1. bytes \in Nat /\ before \in Prints /\ before.size <= bytes
      BY <1>13 DEF Name, TypeOK
    <3>2. bytes' = bytes \/ (Len(content) = before.size /\ bytes' = bytes - Len(content))
      BY <1>13 DEF Name, sameThroughout
    <3>3. lack \/ UNCHANGED needs
      BY <1>13 DEF Name
    <3> QED  BY <3>1, <3>2, <3>3, LackTypes DEF Prints
  <2>3. parts' \subseteq [node: Nat, kind: Kinds, path: Files \cup Repositories,
                          print: Prints \cup Commits, blocks: Seq(Nat)]
    BY <1>13, <2>1, PartTypes DEF Name, TypeOK
  <2> QED  BY <1>0, <1>13, <2>2, <2>3 DEF Name, close, next, goto, world, check, TypeOK, this
<1>14. CASE Unreadable
  BY <1>0, <1>14 DEF Unreadable, lack, close, next, goto, world, check, TypeOK, this
<1>15. CASE Revision
  <2>1. this.path \in Repositories /\ item <= Len(target) /\ this.kind = "snapshot"
    BY <1>15, ThisItem DEF Revision, visit, visiting
  <2>2. heads[this.path] \in Commits /\ Objects[heads[this.path]] \in Nat
    BY <2>1, ObjectsAssumption DEF TypeOK, Commits
  <2>3. members' = members - 1 /\ members' \in Nat
    BY <1>15 DEF Revision, visit, spent, TypeOK
  <2> DEFINE head == heads[this.path]
  <2>4. CASE Objects[head] > members - 1 \/ Objects[head] > bytes
    <3>1. lack /\ next("visit") /\ UNCHANGED before
      BY <1>15, <2>4 DEF Revision
    <3> QED
      BY <1>15, <2>3, <3>1, LackTypes DEF Revision, visit, visiting, next, goto, world, check, TypeOK, this
  <2>5. CASE ~(Objects[head] > members - 1 \/ Objects[head] > bytes)
    <3>1. Objects[head] <= members' /\ Objects[head] <= bytes
      BY <2>2, <2>3, <2>5 DEF TypeOK
    <3>2. before' = head /\ goto("objects") /\ UNCHANGED <<needs, item>>
      BY <1>15, <2>5 DEF Revision
    <3> QED
      BY <1>15, <2>1, <2>2, <2>3, <3>1, <3>2 DEF Revision, goto, world, check, TypeOK, this
  <2> QED  BY <2>4, <2>5
<1>16. CASE ObjectsRead
  <2>1. item <= Len(target) /\ before \in Commits /\ Objects[before] \in Nat
    BY <1>16, ObjectsAssumption DEF ObjectsRead, Commits
  <2>2. bytes' \in Nat /\ members' \in Nat /\ needs' \subseteq Nat
    BY <1>16, <2>1, LackTypes DEF ObjectsRead, keepObjects, TypeOK
  <2>3. parts' \subseteq [node: Nat, kind: Kinds, path: Files \cup Repositories,
                          print: Prints \cup Commits, blocks: Seq(Nat)]
    BY <1>16, <2>1, PartTypes, NoBlocks DEF ObjectsRead, keepObjects, TypeOK
  <2> QED  BY <1>0, <1>16, <2>2, <2>3 DEF ObjectsRead, close, next, goto, world, check, TypeOK, this
<1>17. CASE Resolved
  BY <1>17 DEF Resolved, goto, world, reading, found, TypeOK, this
<1>18. CASE CheckPart
  BY <1>18 DEF CheckPart, world, reading, found, TypeOK, this
<1>19. CASE AllChecked \/ ContextChanged \/ CheckAgain
  BY <1>19 DEF AllChecked, ContextChanged, CheckAgain, world, reading, found, TypeOK, this
<1>20. CASE UNCHANGED vars
  BY <1>20 DEF vars, world, reading, found, check, TypeOK, this
<1> QED
  BY <1>1, <1>2, <1>3, <1>4, <1>5, <1>6, <1>7, <1>8, <1>9, <1>10, <1>11, <1>12, <1>13, <1>14,
     <1>15, <1>16, <1>17, <1>18, <1>19, <1>20
  DEF Next, WorldStep, ResolverStep, CheckStep

\* Every value has its type, and no budget is overdrawn.
THEOREM TypeCorrect == Spec => []TypeOK
<1>1. Typed => TypeOK
  BY DEF Typed
<1> QED  BY InitTyped, TypedStep, <1>1, PTL DEF Spec

-------------------------------------------------------------------------------
(* Parts are what the files were *)

LEMMA FilesAreStates == TypeOK => \A f \in Files : files[f] \in FileStates /\ held[f] \in FileStates
BY DEF TypeOK

LEMMA EarlierReflexive == \A a \in FileStates : earlier(a, a)
BY DEF earlier, FileStates

LEMMA EarlierTransitive ==
    ASSUME NEW a \in FileStates, NEW b \in FileStates, NEW c \in FileStates, earlier(a, b), earlier(b, c)
    PROVE  earlier(a, c)
BY DEF earlier, FileStates

\* What an older file was, a newer one of the same change time is.
LEMMA IsOfAdvances ==
    ASSUME NEW p, p.print \in Prints, NEW old \in FileStates, NEW new \in FileStates,
           isOf(p, old), earlier(old, new)
    PROVE  isOf(p, new)
BY DEF isOf, earlier, FileStates, Prints

\* The world moves without the resolver.
LEMMA WorldSteps ==
    ASSUME TypeOK, WorldStep
    PROVE  UNCHANGED <<pc, target, item, before, after, content, found, check>>
<1>1. ASSUME NEW f \in Files, Edit(f)
      PROVE UNCHANGED <<pc, target, item, before, after, content, found, check>>
  BY <1>1 DEF Edit
<1>2. ASSUME NEW f \in Files, Replace(f)
      PROVE UNCHANGED <<pc, target, item, before, after, content, found, check>>
  BY <1>2 DEF Replace, reading
<1>3. ASSUME NEW r \in Repositories, Move(r)
      PROVE UNCHANGED <<pc, target, item, before, after, content, found, check>>
  BY <1>3 DEF Move, reading
<1> QED  BY <1>1, <1>2, <1>3 DEF WorldStep

LEMMA ResolverLeavesFiles ==
    ASSUME ResolverStep \/ CheckStep \/ UNCHANGED vars
    PROVE  UNCHANGED <<files, heads, target>>
BY DEF ResolverStep, CheckStep, PassOver, Refuse, Expand, Value, Unsupported, Open, Stat, Read, After,
   Name, Unreadable, Revision, ObjectsRead, Resolved, CheckPart, AllChecked, ContextChanged, CheckAgain,
   vars, world

LEMMA OneAdvances ==
    ASSUME TypeOK, NEW g \in Files, NEW file \in FileStates, file.stamp = files[g].stamp + 1,
           files' = [files EXCEPT ![g] = file]
    PROVE  \A f \in Files : earlier(files[f], files'[f])
<1> SUFFICES ASSUME NEW f \in Files PROVE earlier(files[f], files'[f])
  OBVIOUS
<1>1. files[f] \in FileStates
  BY DEF TypeOK
<1>2. CASE f = g
  BY <1>1, <1>2 DEF earlier, TypeOK, FileStates
<1>3. CASE f # g
  BY <1>1, <1>3, EarlierReflexive DEF TypeOK
<1> QED  BY <1>2, <1>3

\* Whoever changes a file advances its change time.
LEMMA FilesAdvance ==
    ASSUME TypeOK, [Next]_vars
    PROVE  \A f \in Files : earlier(files[f], files'[f])
<1>1. ASSUME NEW g \in Files, Edit(g) PROVE \A f \in Files : earlier(files[f], files'[f])
  BY <1>1, EditStep, OneAdvances
<1>2. ASSUME NEW g \in Files, Replace(g) PROVE \A f \in Files : earlier(files[f], files'[f])
  BY <1>2, ReplaceStep, OneAdvances
<1>3. CASE UNCHANGED files
  BY <1>3, FilesAreStates, EarlierReflexive
<1>4. UNCHANGED files \/ \E g \in Files : Edit(g) \/ Replace(g)
  BY ResolverLeavesFiles DEF Next, WorldStep, Move
<1> QED  BY <1>1, <1>2, <1>3, <1>4

\* An open file is an earlier state of its path, or the same one.
LEMMA OpenedStep == IInv /\ [Next]_vars => OpenedEarlier'
<1> SUFFICES ASSUME IInv, [Next]_vars, pc' \in Reading PROVE earlier(opened, files[this.path])'
  BY DEF OpenedEarlier
<1>1. TypeOK /\ Place /\ TypeOK'
  BY TypedStep DEF IInv, Typed
<1>2. CASE WorldStep
  <2>1. UNCHANGED <<pc, target, item>> /\ this' = this /\ pc \in Reading
    BY <1>1, <1>2, WorldSteps DEF this
  <2>2. this.path \in Files /\ files[this.path] \in FileStates /\ files'[this.path] \in FileStates
    BY <1>1, <2>1, ThisItem, FilesAreStates DEF Place, TypeOK
  <2>3. earlier(opened, files[this.path]) /\ earlier(files[this.path], files'[this.path])
    BY <1>1, <2>1, <2>2, FilesAdvance DEF IInv, OpenedEarlier
  <2>4. opened' = opened \/ opened' = files'[this.path]
    <3>1. ASSUME NEW f \in Files, Edit(f) PROVE opened' = opened \/ opened' = files'[this.path]
      BY <1>1, <3>1, EditStep DEF TypeOK
    <3>2. ASSUME NEW f \in Files, Replace(f) PROVE opened' = opened
      BY <3>2 DEF Replace, reading
    <3>3. ASSUME NEW r \in Repositories, Move(r) PROVE opened' = opened
      BY <3>3 DEF Move, reading
    <3> QED  BY <1>2, <3>1, <3>2, <3>3 DEF WorldStep
  <2>5. CASE opened' = opened
    BY <1>1, <2>1, <2>2, <2>3, <2>5, EarlierTransitive DEF TypeOK
  <2>6. CASE opened' = files'[this.path]
    BY <2>1, <2>2, <2>6, EarlierReflexive
  <2> QED  BY <2>4, <2>5, <2>6
<1>3. CASE Open
  <2>1. this.path \in Files
    BY <1>1, <1>3, ThisItem DEF Open, visit, visiting
  <2>2. opened' = files'[this.path] /\ this' = this /\ files'[this.path] \in FileStates
    BY <1>1, <1>3, <2>1 DEF Open, world, this, TypeOK
  <2> QED  BY <2>2, EarlierReflexive
<1>4. CASE Stat \/ Read \/ After
  <2>1. pc \in Reading /\ UNCHANGED <<files, target, item, opened>>
    BY <1>4 DEF Stat, Read, After, close, next, goto, world, Reading
  <2> QED  BY <2>1 DEF IInv, OpenedEarlier, this
<1>5. CASE UNCHANGED vars
  BY <1>5 DEF IInv, OpenedEarlier, this, vars, world, reading
<1>6. pc' \notin Reading \/ WorldStep \/ Open \/ Stat \/ Read \/ After \/ UNCHANGED vars
  BY DEF Next, ResolverStep, CheckStep, PassOver, Refuse, Expand, Value, Unsupported, visit, visiting,
     Name, Unreadable, Revision, ObjectsRead, Resolved, close, next, goto, Reading,
     CheckPart, AllChecked, ContextChanged, CheckAgain
<1> QED  BY <1>2, <1>3, <1>4, <1>5, <1>6

\* What is written while a file is open gives it a later change time.
LEMMA OpenedAdvances ==
    ASSUME IInv, WorldStep, pc \in Reading
    PROVE  opened' = opened \/ opened'.stamp > opened.stamp
<1>1. TypeOK /\ Place
  BY DEF IInv, Typed
<1>2. ASSUME NEW f \in Files, Edit(f) PROVE opened' = opened \/ opened'.stamp > opened.stamp
  <2>1. PICK file \in FileStates :
            /\ file.stamp = files[f].stamp + 1
            /\ opened' = IF pc \in Reading /\ this.path = f /\ opened.inode = files[f].inode
                         THEN file ELSE opened
    BY <1>1, <1>2, EditStep
  <2>2. CASE opened' = file /\ this.path = f
    <3>1. opened.stamp <= files[f].stamp /\ opened.stamp \in Nat /\ files[f].stamp \in Nat
      BY <1>1, <2>2 DEF IInv, OpenedEarlier, earlier, TypeOK, FileStates
    <3> QED  BY <2>1, <2>2, <3>1
  <2> QED  BY <2>1, <2>2
<1>3. ASSUME NEW f \in Files, Replace(f) PROVE opened' = opened
  BY <1>3 DEF Replace, reading
<1>4. ASSUME NEW r \in Repositories, Move(r) PROVE opened' = opened
  BY <1>4 DEF Move, reading
<1> QED  BY <1>2, <1>3, <1>4 DEF WorldStep

LEMMA BlockAdded ==
    ASSUME NEW blocks \in Seq(Nat), NEW x \in Nat, NEW n \in 1..Len(Append(blocks, x))
    PROVE  IF n = Len(blocks) + 1
           THEN Append(blocks, x)[n] = x
           ELSE n \in 1..Len(blocks) /\ Append(blocks, x)[n] = blocks[n]
OBVIOUS

\* While the file does not change, each block that is read is the next one of it.
LEMMA ReadsStep == IInv /\ [Next]_vars => ReadsPrefix'
<1> SUFFICES ASSUME IInv, [Next]_vars PROVE ReadsPrefix'
  OBVIOUS
<1>1. TypeOK /\ Place /\ OpenedEarlier /\ ReadsPrefix
  BY DEF IInv, Typed
<1>2. CASE WorldStep
  <2>1. UNCHANGED <<pc, before, content>>
    BY <1>1, <1>2, WorldSteps
  <2>2. CASE pc \in Reading \ {"stat"}
    <3>1. opened' = opened \/ opened'.stamp > opened.stamp
      BY <1>2, <2>2, OpenedAdvances
    <3>2. opened.stamp \in Nat /\ before.stamp \in Nat /\ opened'.stamp \in Nat
      BY <1>1, <2>2, TypedStep DEF IInv, Typed, Place, TypeOK, FileStates, Prints
    <3>3. CASE opened' = opened
      BY <1>1, <2>1, <3>3 DEF ReadsPrefix
    <3>4. CASE opened'.stamp > opened.stamp
      BY <1>1, <2>1, <2>2, <3>2, <3>4 DEF ReadsPrefix
    <3> QED  BY <3>1, <3>3, <3>4
  <2>3. CASE pc \notin Reading \ {"stat"}
    BY <1>1, <2>1, <2>3 DEF ReadsPrefix
  <2> QED  BY <2>2, <2>3
<1>3. CASE Stat
  <2>1. CASE Len(opened.blocks) > bytes
    BY <1>3, <2>1 DEF Stat, close, next, goto, ReadsPrefix, Reading
  <2>2. CASE ~(Len(opened.blocks) > bytes)
    <3>1. /\ before' = fingerprint(opened) /\ pc' = "read" /\ opened' = opened
          /\ content' = content /\ content = <<>>
      BY <1>1, <1>3, <2>2 DEF Stat, goto, ReadsPrefix, Reading
    <3>2. before'.stamp = opened.stamp /\ opened.stamp \in Nat
      BY <1>1, <3>1 DEF fingerprint, TypeOK, FileStates
    <3>3. isPrefix(content', opened')
      BY <3>1 DEF isPrefix
    <3> QED  BY <3>1, <3>2, <3>3 DEF ReadsPrefix, Reading
  <2> QED  BY <2>1, <2>2
<1>4. CASE Read
  <2> DEFINE b == Len(content) + 1
  <2>1. UNCHANGED <<before, opened>> /\ pc \in Reading \ {"stat"} /\ pc' \in Reading \ {"stat"}
    BY <1>4 DEF Read, goto, Reading
  <2>2. content' = content \/ (b <= Len(opened.blocks) /\ content' = Append(content, opened.blocks[b]))
    BY <1>4 DEF Read
  <2>3. content \in Seq(Nat) /\ opened.blocks \in Seq(Nat)
    BY <1>1 DEF TypeOK, FileStates
  <2>4. isPrefix(content, opened) => isPrefix(content', opened)
    <3> SUFFICES ASSUME isPrefix(content, opened), NEW n \in 1..Len(content')
                 PROVE  n <= Len(opened.blocks) /\ content'[n] = opened.blocks[n]
      BY DEF isPrefix
    <3>1. CASE content' = content
      BY <3>1 DEF isPrefix
    <3>2. CASE b <= Len(opened.blocks) /\ content' = Append(content, opened.blocks[b])
      <4>1. opened.blocks[b] \in Nat
        BY <2>3, <3>2
      <4>2. IF n = b THEN content'[n] = opened.blocks[b]
                     ELSE n \in 1..Len(content) /\ content'[n] = content[n]
        BY <2>3, <3>2, <4>1, BlockAdded
      <4> QED  BY <3>2, <4>2 DEF isPrefix
    <3> QED  BY <2>2, <3>1, <3>2
  <2> QED  BY <1>1, <2>1, <2>4 DEF ReadsPrefix
<1>5. CASE After
  BY <1>1, <1>5 DEF After, goto, ReadsPrefix, Reading
<1>6. CASE Name \/ Unreadable \/ ObjectsRead
  BY <1>6 DEF Name, Unreadable, ObjectsRead, close, next, goto, ReadsPrefix, Reading
<1>7. CASE /\ UNCHANGED <<content, opened, before>>
           /\ pc' \in Reading \ {"stat"} <=> pc \in Reading \ {"stat"}
  BY <1>1, <1>7 DEF ReadsPrefix
<1>8. CASE Revision
  BY <1>1, <1>8 DEF Revision, visit, visiting, next, goto, ReadsPrefix, Reading
<1>9. CASE Open
  BY <1>1, <1>9 DEF Open, visit, visiting, goto, ReadsPrefix, Reading
<1>10. \/ WorldStep \/ Stat \/ Read \/ After \/ Name \/ Unreadable \/ ObjectsRead \/ Revision \/ Open
       \/ /\ UNCHANGED <<content, opened, before>>
          /\ pc' \in Reading \ {"stat"} <=> pc \in Reading \ {"stat"}
  BY DEF Next, ResolverStep, CheckStep, PassOver, Refuse, Expand, Value, Unsupported, visit, visiting,
     next, goto, Reading, Resolved, CheckPart, AllChecked, ContextChanged, CheckAgain, vars, reading
<1> QED  BY <1>2, <1>3, <1>4, <1>5, <1>6, <1>7, <1>8, <1>9, <1>10

\* Sequences of one length with the same blocks are one sequence.
LEMMA SameBlocks ==
    ASSUME NEW s \in Seq(Nat), NEW t \in Seq(Nat), Len(s) = Len(t),
           \A b \in 1..Len(s) : s[b] = t[b]
    PROVE  s = t
<1>1. \A u \in Seq(Nat) : u = [b \in 1..Len(u) |-> u[b]]
  OBVIOUS
<1>2. s = [b \in 1..Len(s) |-> s[b]] /\ t = [b \in 1..Len(t) |-> t[b]]
  BY <1>1
<1>3. [b \in 1..Len(s) |-> s[b]] = [b \in 1..Len(s) |-> t[b]]
  OBVIOUS
<1> QED  BY <1>2, <1>3

\* A file becomes a part only when it is at its path what it was all the while.
LEMMA NamedIsWhole ==
    ASSUME IInv, Name, sameThroughout(fingerprint(files[this.path]))
    PROVE  /\ this.path \in Files /\ after \in Prints
           /\ after.stamp = files[this.path].stamp
           /\ files[this.path].blocks = content
<1> DEFINE file == files[this.path]
<1>1. TypeOK /\ Place /\ OpenedEarlier /\ ReadsPrefix /\ pc = "name"
  BY DEF IInv, Typed, Name
<1>2. this.path \in Files /\ file \in FileStates /\ opened \in FileStates /\ before \in Prints
  BY <1>1, ThisItem, FilesAreStates DEF Place, Reading, TypeOK
<1>3. /\ before = after /\ after = fingerprint(file) /\ Len(content) = before.size
  BY DEF sameThroughout
<1>4. before.stamp = file.stamp /\ before.size = Len(file.blocks)
  BY <1>2, <1>3 DEF fingerprint
<1>5. earlier(opened, file) /\ before.stamp <= opened.stamp
      /\ (before.stamp = opened.stamp => isPrefix(content, opened))
  BY <1>1 DEF OpenedEarlier, ReadsPrefix, Reading
<1>6. opened = file /\ isPrefix(content, file)
  BY <1>2, <1>4, <1>5 DEF earlier, FileStates
<1>7. file.blocks = content
  <2>1. file.blocks \in Seq(Nat) /\ content \in Seq(Nat) /\ Len(content) = Len(file.blocks)
    BY <1>1, <1>2, <1>3, <1>4 DEF FileStates, TypeOK
  <2>2. \A b \in 1..Len(content) : content[b] = file.blocks[b]
    BY <1>6 DEF isPrefix
  <2> HIDE DEF file
  <2> QED  BY <2>1, <2>2, SameBlocks
<1> QED  BY <1>2, <1>3, <1>4, <1>7

\* Parts stay, and only what was read as a whole is added as a file.
LEMMA PartsGrow ==
    ASSUME IInv, [Next]_vars, NEW p \in parts', p.kind = "file"
    PROVE  \/ p \in parts
           \/ /\ UNCHANGED files /\ p.path \in Files /\ p.print \in Prints
              /\ p.print.stamp = files[p.path].stamp /\ files[p.path].blocks = p.blocks
<1>1. TypeOK /\ Place
  BY DEF IInv, Typed
<1>2. CASE Value
  BY <1>2 DEF Value, visit, part
<1>3. CASE ObjectsRead
  BY <1>1, <1>3 DEF ObjectsRead, keepObjects, part, Place
<1>4. CASE Name
  <2>1. CASE p \notin parts
    <3>1. sameThroughout(fingerprint(files[this.path])) /\ part(this.path, after, content)
      BY <1>4, <2>1 DEF Name
    <3>2. p = [node |-> item, kind |-> this.kind, path |-> this.path, print |-> after, blocks |-> content]
      BY <2>1, <3>1 DEF part
    <3>3. /\ this.path \in Files /\ after \in Prints
          /\ after.stamp = files[this.path].stamp /\ files[this.path].blocks = content
      BY <1>4, <3>1, NamedIsWhole
    <3>4. p.path = this.path /\ p.print = after /\ p.blocks = content
      BY <3>2
    <3>5. UNCHANGED files
      BY <1>4 DEF Name, world
    <3> QED  BY <3>3, <3>4, <3>5
  <2> QED  BY <2>1
<1>5. CASE UNCHANGED parts
  BY <1>5
<1>6. Value \/ ObjectsRead \/ Name \/ UNCHANGED parts
  <2>1. WorldStep => UNCHANGED parts
    BY <1>1, WorldSteps DEF found
  <2> QED
    BY <2>1 DEF Next, ResolverStep, CheckStep, PassOver, Refuse, Expand, Unsupported, Open, Stat, Read,
       After, Unreadable, Revision, Resolved, CheckPart, AllChecked, ContextChanged, CheckAgain, vars, found
<1> QED  BY <1>2, <1>3, <1>4, <1>5, <1>6

LEMMA PartsStep == IInv /\ [Next]_vars => PartsEarlier'
<1> SUFFICES ASSUME IInv, [Next]_vars, NEW p \in parts', p.kind = "file"
             PROVE  p.path \in Files /\ p.print \in Prints /\ isOf(p, files'[p.path])
  BY DEF PartsEarlier
<1>1. TypeOK /\ TypeOK' /\ PartsEarlier
  BY TypedStep DEF IInv, Typed
<1>2. CASE p \in parts
  <2>1. p.path \in Files /\ p.print \in Prints /\ isOf(p, files[p.path])
    BY <1>1, <1>2 DEF PartsEarlier
  <2>2. files[p.path] \in FileStates /\ files'[p.path] \in FileStates
    BY <1>1, <2>1 DEF TypeOK
  <2>3. earlier(files[p.path], files'[p.path])
    BY <1>1, <2>1, FilesAdvance
  <2> QED  BY <2>1, <2>2, <2>3, IsOfAdvances
<1>3. CASE /\ UNCHANGED files /\ p.path \in Files /\ p.print \in Prints
           /\ p.print.stamp = files[p.path].stamp /\ files[p.path].blocks = p.blocks
  <2>1. files[p.path] \in FileStates
    BY <1>1, <1>3, FilesAreStates
  <2>2. p.print.stamp <= files[p.path].stamp
    BY <1>3, <2>1 DEF FileStates
  <2> QED  BY <1>3, <2>2 DEF isOf
<1> QED  BY <1>2, <1>3, PartsGrow

\* After the resolution only the world and the checks move.
LEMMA CheckSteps ==
    ASSUME IInv, [Next]_vars, pc' = "check"
    PROVE  \/ Resolved
           \/ pc = "check" /\ UNCHANGED <<parts, held>> /\ (WorldStep \/ CheckStep \/ UNCHANGED vars)
<1>1. TypeOK
  BY DEF IInv, Typed
<1>2. CASE WorldStep
  BY <1>1, <1>2, WorldSteps DEF found, check
<1>3. CASE CheckStep
  BY <1>3 DEF CheckStep, CheckPart, AllChecked, ContextChanged, CheckAgain, found
<1>4. CASE ResolverStep
  BY <1>4 DEF ResolverStep, PassOver, Refuse, Expand, Value, Unsupported, visit, visiting, Open, Stat,
     Read, After, Name, Unreadable, Revision, ObjectsRead, close, next, goto
<1>5. CASE UNCHANGED vars
  BY <1>5 DEF vars, found, check
<1> QED  BY <1>2, <1>3, <1>4, <1>5 DEF Next

\* The end of the resolution lies between the readings and the checks.
LEMMA HeldStep == IInv /\ [Next]_vars => HeldBetween'
<1> SUFFICES ASSUME IInv, [Next]_vars, pc' = "check"
             PROVE  /\ \A f \in Files : earlier(held'[f], files'[f])
                    /\ \A p \in parts' : p.kind = "file" => isOf(p, held'[p.path])
  BY DEF HeldBetween
<1>1. TypeOK /\ TypeOK' /\ PartsEarlier /\ HeldBetween
  BY TypedStep DEF IInv, Typed
<1>2. CASE Resolved
  <2>1. held' = files /\ files' = files /\ parts' = parts
    BY <1>2 DEF Resolved, world, found
  <2> QED  BY <1>1, <2>1, FilesAreStates, EarlierReflexive DEF PartsEarlier
<1>3. CASE pc = "check" /\ UNCHANGED <<parts, held>>
  <2>1. ASSUME NEW f \in Files PROVE earlier(held[f], files'[f])
    <3>1. held[f] \in FileStates /\ files[f] \in FileStates /\ files'[f] \in FileStates
      BY <1>1 DEF TypeOK
    <3>2. earlier(held[f], files[f]) /\ earlier(files[f], files'[f])
      BY <1>1, <1>3, FilesAdvance DEF HeldBetween
    <3> QED  BY <3>1, <3>2, EarlierTransitive
  <2> QED  BY <1>1, <1>3, <2>1 DEF HeldBetween
<1> QED  BY <1>2, <1>3, CheckSteps

\* A part that is the same when it is checked was there in between.
LEMMA SameWasHeld ==
    ASSUME IInv, pc = "check", NEW p \in parts, p.kind = "file", same(p)
    PROVE  held[p.path].blocks = p.blocks
<1>1. p.path \in Files /\ p.print \in Prints /\ isOf(p, held[p.path])
      /\ earlier(held[p.path], files[p.path])
  BY DEF IInv, PartsEarlier, HeldBetween
<1>2. held[p.path] \in FileStates /\ files[p.path] \in FileStates
  BY <1>1, FilesAreStates DEF IInv, Typed
<1>3. files[p.path].stamp = p.print.stamp
  BY DEF same, fingerprint
<1> QED  BY <1>1, <1>2, <1>3 DEF isOf, earlier, FileStates, Prints

LEMMA CheckedStep == IInv /\ [Next]_vars => CheckedWereHeld'
<1> SUFFICES ASSUME IInv, [Next]_vars PROVE CheckedWereHeld'
  OBVIOUS
<1>1. TypeOK /\ Place /\ Place' /\ CheckedWereHeld
  BY TypedStep DEF IInv, Typed
<1>2. CASE pc' # "check"
  BY <1>1, <1>2 DEF Place, CheckedWereHeld
<1>3. CASE Resolved
  BY <1>1, <1>3 DEF Resolved, Place, CheckedWereHeld
<1>4. CASE pc = "check" /\ UNCHANGED <<parts, held>> /\ (WorldStep \/ CheckStep \/ UNCHANGED vars)
  <2>1. CASE WorldStep
    BY <1>1, <2>1, WorldSteps DEF check, CheckedWereHeld
  <2>2. CASE CheckPart
    <3>1. PICK p \in parts \ checked :
              checked' = checked \cup {p} /\ verdict' = IF same(p) THEN "none" ELSE "changed"
      BY <2>2 DEF CheckPart
    <3>2. verdict' # "changed" /\ p.kind = "file" => held[p.path].blocks = p.blocks
      BY <1>4, <3>1, SameWasHeld
    <3> QED  BY <1>1, <1>4, <2>2, <3>1, <3>2 DEF CheckPart, CheckedWereHeld
  <2>3. CASE AllChecked \/ ContextChanged \/ CheckAgain
    BY <1>1, <2>3 DEF AllChecked, ContextChanged, CheckAgain, CheckedWereHeld
  <2>4. CASE UNCHANGED vars
    BY <1>1, <2>4 DEF vars, check, CheckedWereHeld
  <2> QED  BY <1>4, <2>1, <2>2, <2>3, <2>4 DEF CheckStep
<1> QED  BY <1>2, <1>3, <1>4, CheckSteps

LEMMA InitIInv == Init => IInv
<1> SUFFICES ASSUME Init PROVE IInv
  OBVIOUS
<1>1. OpenedEarlier /\ ReadsPrefix /\ PartsEarlier /\ HeldBetween /\ CheckedWereHeld
  BY DEF Init, OpenedEarlier, ReadsPrefix, PartsEarlier, HeldBetween, CheckedWereHeld, Reading
<1> QED  BY <1>1, InitTyped DEF IInv

\* Whatever is edited while a payload is read and while it is checked: parts that are
\* found unchanged one by one were all at their paths at the end of the resolution.
THEOREM PayloadWasThere == Spec => []AllAtOneInstant
<1>1. IInv /\ [Next]_vars => IInv'
  BY TypedStep, OpenedStep, ReadsStep, PartsStep, HeldStep, CheckedStep DEF IInv
<1>2. IInv => AllAtOneInstant
  BY DEF IInv, Typed, Place, CheckedWereHeld, AllAtOneInstant
<1> QED  BY InitIInv, <1>1, <1>2, PTL DEF Spec

-------------------------------------------------------------------------------
(* Complete coverage misses nothing *)

\* What was found, and what is known to be missing, is not forgotten.
LEMMA FindingsStay ==
    ASSUME TypeOK, [Next]_vars
    PROVE  /\ target' = target /\ (item' = item \/ item' = item + 1)
           /\ needs \subseteq needs' /\ parts \subseteq parts' /\ expanded \subseteq expanded'
<1>1. CASE WorldStep
  BY <1>1, WorldSteps DEF found
<1>2. CASE PassOver \/ Refuse \/ Expand \/ Unsupported \/ Open
  BY <1>2 DEF PassOver, Refuse, Expand, Unsupported, visit, Open, lack, next, found
<1>3. CASE Value
  BY <1>3 DEF Value, part, lack, next
<1>4. CASE Stat \/ Read \/ After \/ Unreadable
  BY <1>4 DEF Stat, Read, After, Unreadable, lack, close, next, found
<1>5. CASE Name
  BY <1>5 DEF Name, part, lack, close, next
<1>6. CASE Revision \/ ObjectsRead
  BY <1>6 DEF Revision, ObjectsRead, keepObjects, part, lack, close, next
<1>7. CASE Resolved \/ CheckStep \/ UNCHANGED vars
  BY <1>7 DEF Resolved, CheckStep, CheckPart, AllChecked, ContextChanged, CheckAgain, vars, found
<1> QED
  BY <1>1, <1>2, <1>3, <1>4, <1>5, <1>6, <1>7 DEF Next, ResolverStep

\* A member is passed over only when its collection is known not to be whole.
LEMMA PassedOver ==
    ASSUME TypeOK, WholeSoFar, PassOver
    PROVE  needs # {}
<1> SUFFICES ASSUME needs = {} PROVE FALSE
  OBVIOUS
<1> DEFINE parent == this.parent
<1>1. item \in 1..Len(target) /\ parent # 0 /\ (parent \notin expanded \/ ~(this.rank <= MaxMembers))
  <2>1. item <= Len(target) /\ ~reached
    BY DEF PassOver, visiting
  <2>2. item \in 1..Len(target)
    BY <2>1, TargetsAssumption DEF TypeOK
  <2> QED  BY <2>1, <2>2 DEF reached
<1>2. target \in Targets /\ target \in Seq(Items) /\ this \in Items
  BY <1>1, ThisItem DEF TypeOK
<1>3. /\ parent \in 1..(item - 1) /\ target[parent].kind = "collection"
      /\ this.rank <= target[parent].members
  BY <1>1, <1>2, TargetsAssumption DEF this
<1>4. parent \in 1..Len(target) /\ parent < item /\ target[parent] \in Items
  BY <1>1, <1>2, <1>3
<1>5. parent \in expanded /\ target[parent].members <= MaxMembers
  BY <1>3, <1>4 DEF WholeSoFar, isWhole
<1>6. this.rank \in Nat /\ target[parent].members \in Nat /\ MaxMembers \in Nat
  BY <1>2, <1>4, BoundAssumption DEF Items
<1> HIDE DEF parent
<1> QED  BY <1>1, <1>3, <1>5, <1>6

LEMMA PartIsWhole ==
    ASSUME NEW mark, NEW blocks, part(this.path, mark, blocks), this.kind # "collection",
           target' = target, NEW n, n = item
    PROVE  isWhole(n)'
<1> DEFINE p == [node |-> item, kind |-> this.kind, path |-> this.path, print |-> mark, blocks |-> blocks]
<1>1. p \in parts' /\ p.node = n
  BY DEF part
<1>2. target'[n].kind # "collection"
  BY DEF this
<1> QED  BY <1>1, <1>2 DEF isWhole

\* An item that is left has its part or is expanded, or its lack is noted.
LEMMA ItemIsWhole ==
    ASSUME TypeOK, Place, WholeSoFar, [Next]_vars, item' # item, needs' = {},
           NEW n, n = item
    PROVE  isWhole(n)'
<1>1. ~lack
  BY DEF lack
<1>2. CASE PassOver
  BY <1>2, PassedOver DEF PassOver, found
<1>3. CASE Expand
  <2>1. item <= Len(target) /\ this.complete /\ this.members <= MaxMembers
    BY <1>1, <1>3 DEF Expand, visit, visiting
  <2>2. expanded' = expanded \cup {item} /\ this.kind = "collection" /\ target' = target
    BY <1>3 DEF Expand, visit
  <2> QED  BY <2>1, <2>2 DEF isWhole, this
<1>4. CASE Value
  <2>1. this.kind = "value" /\ target' = target /\ part(this.path, Unprinted, <<>>)
    BY <1>1, <1>4 DEF Value, visit
  <2> QED  BY <2>1, PartIsWhole
<1>5. CASE Name
  <2>1. this.kind = "file" /\ target' = target /\ part(this.path, after, content)
    BY <1>1, <1>5 DEF Name, Place, Reading
  <2> QED  BY <2>1, PartIsWhole
<1>6. CASE ObjectsRead
  <2>1. this.kind = "snapshot" /\ target' = target /\ part(this.path, before, <<>>)
    BY <1>1, <1>6 DEF ObjectsRead, keepObjects, Place
  <2> QED  BY <2>1, PartIsWhole
<1>7. PassOver \/ Expand \/ Value \/ Name \/ ObjectsRead
  <2>1. WorldStep => UNCHANGED item
    BY WorldSteps
  <2> QED
    BY <1>1, <2>1 DEF Next, ResolverStep, CheckStep, Refuse, Unsupported, Open, Stat, Read, After,
       Unreadable, Revision, Resolved, CheckPart, AllChecked, ContextChanged, CheckAgain, vars
<1> QED  BY <1>2, <1>3, <1>4, <1>5, <1>6, <1>7

LEMMA WholeStep == Typed /\ WholeSoFar /\ [Next]_vars => WholeSoFar'
<1> SUFFICES ASSUME TypeOK, Place, WholeSoFar, [Next]_vars, needs' = {},
                    NEW n \in 1..Len(target'), n < item'
             PROVE  isWhole(n)'
  BY DEF Typed, WholeSoFar
<1>1. /\ target' = target /\ (item' = item \/ item' = item + 1)
      /\ needs = {} /\ parts \subseteq parts' /\ expanded \subseteq expanded'
  BY FindingsStay
<1>2. CASE n < item
  <2>1. isWhole(n)
    BY <1>1, <1>2 DEF WholeSoFar
  <2> QED  BY <1>1, <2>1 DEF isWhole
<1>3. CASE ~(n < item)
  <2>1. n = item /\ item' # item
    BY <1>1, <1>3 DEF TypeOK
  <2> QED  BY <2>1, ItemIsWhole
<1> QED  BY <1>2, <1>3

\* Complete coverage means that every item of the target was resolved, whatever the
\* budgets and whatever could not be read.
THEOREM CoverageIsComplete == Spec => []CompleteIsWhole
<1>1. Init => WholeSoFar
  BY DEF Init, WholeSoFar
<1>2. Typed /\ WholeSoFar => CompleteIsWhole
  <2> SUFFICES ASSUME TypeOK, Place, WholeSoFar, pc = "check", needs = {}, NEW n \in 1..Len(target)
               PROVE  IF target[n].kind = "collection" THEN target[n].complete /\ n \in expanded
                      ELSE \E p \in parts : p.node = n
    BY DEF Typed, CompleteIsWhole, coverage
  <2>1. n < item
    <3>1. item > Len(target) /\ Len(target) \in Nat /\ item \in Nat
      BY TargetsAssumption DEF Place, TypeOK
    <3> QED  BY <3>1
  <2> QED  BY <2>1 DEF WholeSoFar, isWhole
<1> QED  BY InitTyped, TypedStep, WholeStep, <1>1, <1>2, PTL DEF Spec
================================================================================
