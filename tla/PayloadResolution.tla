--------------------------- MODULE PayloadResolution ---------------------------
(***************************************************************************)
(* What a call would send, as PayloadResolver of engine/payload.py finds   *)
(* it: the members of the declared target are visited depth first and read *)
(* one after the other, files block by block and repositories object by    *)
(* object (repository_evidence.py), while anybody edits them; minutes      *)
(* later unchanged() looks at each of them again.                          *)
(*                                                                         *)
(* No lock covers two reads.  OutboundDecision takes the resolution and    *)
(* each check for one step on one version of the payload; that this is     *)
(* right is the property AllAtOneInstant of this module.                   *)
(*                                                                         *)
(* A target is the sequence of its items in the order in which visit()     *)
(* comes to them.  Sizes are numbers of blocks.  Each change of a file     *)
(* advances its change time, and the fingerprint with it.                  *)
(***************************************************************************)
EXTENDS Naturals, Sequences

CONSTANTS
    Files,          \* paths of regular files
    Repositories,   \* paths of repositories with the revision that is named
    Targets,        \* the declared targets
    Objects,        \* the number of objects that each commit reaches
    MaxBytes,       \* max_bytes of a resolution
    MaxMembers,     \* max_members
    MaxDepth,       \* depth of nested collections
    MaxLength,      \* bound: blocks of a file
    MaxEdits        \* bound: changes of each file

Commits == DOMAIN Objects
Kinds   == {"collection", "value", "file", "snapshot", "unsupported"}

\* An item: the collection it is a member of (0 for the target itself) and its rank
\* there, its depth, the number of its members and whether they are said to be all,
\* the path it names or the size of its text, and the last block that it selects.
Items == [kind: Kinds, parent: Nat, rank: Nat, depth: Nat, members: Nat, complete: BOOLEAN,
          path: Files \cup Repositories, size: Nat, last: Nat]

ASSUME ObjectsAssumption == Objects \in [Commits -> Nat]
ASSUME BoundAssumption ==
    MaxBytes \in Nat /\ MaxMembers \in Nat /\ MaxDepth \in Nat /\ MaxLength \in Nat /\ MaxEdits \in Nat
ASSUME TargetsAssumption ==
    \A t \in Targets :
        /\ t \in Seq(Items)
        /\ \A n \in 1..Len(t) :
            /\ t[n].kind = "file" => t[n].path \in Files
            /\ t[n].kind = "snapshot" => t[n].path \in Repositories
            /\ t[n].parent # 0 =>
                /\ t[n].parent \in 1..(n - 1)
                /\ t[t[n].parent].kind = "collection"
                /\ t[n].rank <= t[t[n].parent].members

VARIABLES
    files,          \* each file: its inode, the changes so far, its blocks
    heads,          \* the commit each revision names
    pc,             \* where the resolver is
    target,         \* what it resolves
    item,           \* the next item
    expanded,       \* the collections whose members it visits
    opened,         \* the file behind its descriptor
    before, after,  \* what fstat() said before and after the reading
    content,        \* the blocks it has read
    bytes, members, \* its budget
    parts,          \* Resolution.parts
    needs,          \* items with an entry in Resolution.needs
    checked,        \* parts that unchanged() has compared
    verdict,        \* what unchanged() has returned
    held            \* history: the files at the end of the resolution

world   == <<files, heads>>
reading == <<opened, before, after, content>>
found   == <<bytes, members, parts, needs, expanded>>
check   == <<checked, verdict, held>>
vars    == <<world, pc, target, item, reading, found, check>>

-------------------------------------------------------------------------------

fingerprint(file) == [inode |-> file.inode, stamp |-> file.stamp, size |-> Len(file.blocks)]
Unread   == [inode |-> 0, stamp |-> 0, blocks |-> <<>>]
Unprinted == fingerprint(Unread)
coverage == IF needs = {} THEN "complete" ELSE "incomplete"

Prints     == [inode: Nat, stamp: Nat, size: Nat]
FileStates == [inode: Nat, stamp: Nat, blocks: Seq(Nat)]

\* The values that the variables take; no budget is overdrawn.
TypeOK ==
    /\ files \in [Files -> FileStates]
    /\ heads \in [Repositories -> Commits]
    /\ pc \in {"visit", "stat", "read", "after", "name", "objects", "check"}
    /\ target \in Targets /\ item \in Nat \ {0} /\ expanded \subseteq Nat
    /\ opened \in FileStates /\ before \in Prints \cup Commits /\ after \in Prints
    /\ content \in Seq(Nat)
    /\ bytes \in Nat /\ members \in Nat
    /\ parts \subseteq [node: Nat, kind: Kinds, path: Files \cup Repositories,
                        print: Prints \cup Commits, blocks: Seq(Nat)]
    /\ needs \subseteq Nat
    /\ checked \subseteq parts /\ verdict \in {"none", "changed", "unchanged"}
    /\ held \in [Files -> FileStates]

goto(label) == pc' = label

Init ==
    /\ files \in [Files -> {[inode |-> 0, stamp |-> 0, blocks |-> [b \in 1..n |-> 0]] : n \in 0..MaxLength}]
    /\ heads \in [Repositories -> Commits]
    /\ pc = "visit"
    /\ target \in Targets /\ item = 1 /\ expanded = {}
    /\ bytes = MaxBytes /\ members = MaxMembers
    /\ parts = {} /\ needs = {}
    /\ opened = Unread /\ before = Unprinted /\ after = Unprinted /\ content = <<>>
    /\ checked = {} /\ verdict = "none"
    /\ held = files

-------------------------------------------------------------------------------
(* The world *)

\* A descriptor shows what is written to its file; one that was renamed over stays
\* as it was.
write(f, blocks) ==
    LET file == [files[f] EXCEPT !.stamp = @ + 1, !.blocks = blocks] IN
    /\ files' = [files EXCEPT ![f] = file]
    /\ opened' = IF pc \in {"stat", "read", "after", "name"} /\ target[item].path = f
                    /\ opened.inode = files[f].inode
                 THEN file ELSE opened

Edit(f) ==
    LET blocks == files[f].blocks
        new == files[f].stamp + 1
    IN
    /\ files[f].stamp < MaxEdits
    /\ \/ \E b \in DOMAIN blocks : write(f, [blocks EXCEPT ![b] = new])
       \/ Len(blocks) < MaxLength /\ write(f, Append(blocks, new))
       \/ Len(blocks) > 0 /\ write(f, SubSeq(blocks, 1, Len(blocks) - 1))
    /\ UNCHANGED <<heads, pc, target, item, before, after, content, found, check>>

\* Another file is renamed to the path.
Replace(f) ==
    /\ files[f].stamp < MaxEdits
    /\ files' = [files EXCEPT ![f] = [inode |-> @.inode + 1, stamp |-> @.stamp + 1,
                                      blocks |-> [b \in DOMAIN @.blocks |-> @.stamp + 1]]]
    /\ UNCHANGED <<heads, pc, target, item, reading, found, check>>

\* A revision may move away and back.
Move(r) ==
    /\ \E c \in Commits \ {heads[r]} : heads' = [heads EXCEPT ![r] = c]
    /\ UNCHANGED <<files, pc, target, item, reading, found, check>>

-------------------------------------------------------------------------------
(* resolve() *)

this == target[item]

\* visit() is called for the first max_members members of a collection.
reached == this.parent = 0 \/ (this.parent \in expanded /\ this.rank <= MaxMembers)
spent   == this.depth > MaxDepth \/ members = 0

next(label) == item' = item + 1 /\ goto(label)
part(path, mark, blocks) ==
    parts' = parts \cup {[node |-> item, kind |-> this.kind, path |-> path, print |-> mark, blocks |-> blocks]}
lack == needs' = needs \cup {item}
close ==
    /\ opened' = Unread /\ before' = Unprinted /\ after' = Unprinted /\ content' = <<>>
    /\ next("visit")

visiting == pc = "visit" /\ item <= Len(target)

PassOver ==
    /\ visiting /\ ~reached
    /\ next("visit")
    /\ UNCHANGED <<world, target, reading, found, check>>

\* Mutant: what the budgets cut off is not missed.
RefuseSilently ==
    /\ visiting /\ reached /\ spent
    /\ next("visit")
    /\ UNCHANGED <<world, target, reading, found, check>>

Refuse ==
    /\ visiting /\ reached /\ spent
    /\ lack /\ next("visit")
    /\ UNCHANGED <<world, target, reading, bytes, members, parts, expanded, check>>

visit(kind) ==
    /\ visiting /\ reached /\ ~spent
    /\ this.kind = kind
    /\ members' = members - 1

Expand ==
    /\ visit("collection")
    /\ expanded' = expanded \cup {item}
    /\ IF this.complete /\ this.members <= MaxMembers THEN UNCHANGED needs ELSE lack
    /\ next("visit")
    /\ UNCHANGED <<world, target, reading, bytes, parts, check>>

\* inline, observed, context: text of the recorded calls, of which a range is sent.
Value ==
    /\ visit("value")
    /\ IF this.size > bytes
       THEN lack /\ UNCHANGED <<bytes, parts>>
       ELSE /\ bytes' = bytes - this.size
            /\ IF this.last <= this.size
               THEN part(this.path, Unprinted, <<>>) /\ UNCHANGED needs
               ELSE lack /\ UNCHANGED parts
    /\ next("visit")
    /\ UNCHANGED <<world, target, reading, expanded, check>>

Unsupported ==
    /\ visit("unsupported")
    /\ lack /\ next("visit")
    /\ UNCHANGED <<world, target, reading, bytes, parts, expanded, check>>

-------------------------------------------------------------------------------
(* read_file() *)

Open ==
    /\ visit("file")
    /\ opened' = files[this.path]
    /\ goto("stat")
    /\ UNCHANGED <<world, target, item, before, after, content, bytes, parts, needs, expanded, check>>

Stat ==
    /\ pc = "stat"
    /\ IF Len(opened.blocks) > bytes
       THEN lack /\ close
       ELSE before' = fingerprint(opened) /\ goto("read") /\ UNCHANGED <<needs, item, opened, after, content>>
    /\ UNCHANGED <<world, target, bytes, members, parts, expanded, check>>

\* One block more than the file had, so that a file that grows is noticed.
Read ==
    LET b == Len(content) + 1 IN
    /\ pc = "read"
    /\ IF b <= before.size + 1 /\ b <= Len(opened.blocks)
       THEN content' = Append(content, opened.blocks[b]) /\ UNCHANGED pc
       ELSE goto("after") /\ UNCHANGED content
    /\ UNCHANGED <<world, target, item, opened, before, after, found, check>>

After ==
    /\ pc = "after"
    /\ after' = fingerprint(opened)
    /\ goto("name")
    /\ UNCHANGED <<world, target, item, opened, before, content, found, check>>

\* Mutant: the file before the reading is not compared.
sameAfterwards(current) == after = current

\* The descriptor before and after the reading and the path show the same file.
sameThroughout(current) == before = after /\ after = current /\ Len(content) = before.size

Name ==
    /\ pc = "name"
    /\ IF sameThroughout(fingerprint(files[this.path]))
       THEN /\ bytes' = bytes - Len(content)
            /\ IF this.last <= Len(content)
               THEN part(this.path, after, content) /\ UNCHANGED needs
               ELSE lack /\ UNCHANGED parts
       ELSE lack /\ UNCHANGED <<bytes, parts>>
    /\ close
    /\ UNCHANGED <<world, target, members, expanded, check>>

\* The file cannot be opened, is not a regular one, or its reading fails.
Unreadable ==
    /\ pc \in {"stat", "read"}
    /\ lack /\ close
    /\ UNCHANGED <<world, target, bytes, members, parts, expanded, check>>

-------------------------------------------------------------------------------
(* snapshot() *)

\* The objects of a commit never change; each is a member and a block here.
Revision ==
    /\ visit("snapshot")
    /\ LET head == heads[this.path] IN
        IF Objects[head] > members - 1 \/ Objects[head] > bytes
        THEN lack /\ next("visit") /\ UNCHANGED before
        ELSE before' = head /\ goto("objects") /\ UNCHANGED <<needs, item>>
    /\ UNCHANGED <<world, target, opened, after, content, bytes, parts, expanded, check>>

keepObjects ==
    /\ bytes' = bytes - Objects[before] /\ members' = members - Objects[before]
    /\ part(this.path, before, <<>>)

\* The revision must still name the commit once its objects are read.
ObjectsRead ==
    /\ pc = "objects"
    /\ IF heads[this.path] = before
       THEN keepObjects /\ UNCHANGED needs
       ELSE lack /\ UNCHANGED <<bytes, members, parts>>
    /\ close
    /\ UNCHANGED <<world, target, expanded, check>>

-------------------------------------------------------------------------------
(* unchanged() *)

Resolved ==
    /\ pc = "visit" /\ item > Len(target)
    /\ goto("check")
    /\ held' = files
    /\ UNCHANGED <<world, target, item, reading, found, checked, verdict>>

\* Anything but files and revisions is recorded and stays as it is.
same(p) ==
    CASE p.kind = "file" -> fingerprint(files[p.path]) = p.print
      [] p.kind = "snapshot" -> heads[p.path] = p.print
      [] OTHER -> TRUE

CheckPart ==
    /\ pc = "check" /\ verdict = "none"
    /\ \E p \in parts \ checked :
        /\ checked' = checked \cup {p}
        /\ verdict' = IF same(p) THEN "none" ELSE "changed"
    /\ UNCHANGED <<world, pc, target, item, reading, found, held>>

AllChecked ==
    /\ pc = "check" /\ verdict = "none" /\ checked = parts
    /\ verdict' = "unchanged"
    /\ UNCHANGED <<world, pc, target, item, reading, found, checked, held>>

\* A definition that the target rests on has changed, or cannot be read.
ContextChanged ==
    /\ pc = "check" /\ verdict = "none" /\ checked = {}
    /\ verdict' = "changed"
    /\ UNCHANGED <<world, pc, target, item, reading, found, checked, held>>

\* An evaluation checks several times.
CheckAgain ==
    /\ pc = "check" /\ verdict # "none"
    /\ checked' = {} /\ verdict' = "none"
    /\ UNCHANGED <<world, pc, target, item, reading, found, held>>

-------------------------------------------------------------------------------

WorldStep == (\E f \in Files : Edit(f) \/ Replace(f)) \/ (\E r \in Repositories : Move(r))

ResolverStep ==
    \/ PassOver \/ Refuse \/ Expand \/ Value \/ Unsupported
    \/ Open \/ Stat \/ Read \/ After \/ Name \/ Unreadable
    \/ Revision \/ ObjectsRead \/ Resolved

CheckStep == CheckPart \/ AllChecked \/ ContextChanged \/ CheckAgain

Next == WorldStep \/ ResolverStep \/ CheckStep

Spec == Init /\ [][Next]_vars

-------------------------------------------------------------------------------
(* Properties *)

\* Files that were read one after the other, block by block, and that a check finds
\* unchanged one after the other, were all at one instant what was read: at the end of
\* the resolution, before the first check.  So nothing that is inspected is torn, and no
\* combination of an older file and a newer one is.  (The revision of a repository may
\* have been elsewhere at that instant.)
AllAtOneInstant ==
    verdict = "unchanged" =>
        \A p \in parts : p.kind = "file" => held[p.path].blocks = p.blocks

\* Coverage is complete only when every item of the declared target was visited and has
\* its part, whatever budgets, depths and failures cut off on the way, and every
\* collection was declared with all its members (payload.py:137).
CompleteIsWhole ==
    pc = "check" /\ coverage = "complete" =>
        \A n \in 1..Len(target) :
            IF target[n].kind = "collection" THEN target[n].complete /\ n \in expanded
            ELSE \E p \in parts : p.node = n
===============================================================================
