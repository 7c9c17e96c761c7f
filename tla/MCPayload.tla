------------------------------- MODULE MCPayload -------------------------------
(* An instance of PayloadResolution for TLC: two files in one collection; files,  *)
(* a text and a repository nested in collections that exceed each of the limits.  *)
EXTENDS PayloadResolution

CONSTANTS f1, f2, git, c1, c2

node(kind, parent, rank, depth, count, path, size, last) ==
    [kind |-> kind, parent |-> parent, rank |-> rank, depth |-> depth, members |-> count,
     complete |-> TRUE, path |-> path, size |-> size, last |-> last]
all(parent, rank, depth, count) == node("collection", parent, rank, depth, count, f1, 0, 0)
file(parent, rank, depth, path) == node("file", parent, rank, depth, 0, path, 0, 0)
text(parent, rank, size, last)  == node("value", parent, rank, 1, 0, f1, size, last)

MCObjects == [c \in {c1, c2} |-> IF c = c1 THEN 1 ELSE 2]

MCTargets == {
    <<all(0, 1, 0, 2), file(1, 1, 1, f1), file(1, 2, 1, f2)>>,
    <<all(0, 1, 0, 4), text(1, 1, 1, 1), text(1, 2, 0, 0), file(1, 3, 1, f1), text(1, 4, 0, 0)>>,
    <<[all(0, 1, 0, 2) EXCEPT !.complete = FALSE], text(1, 1, 1, 2),
      node("unsupported", 1, 2, 1, 0, f1, 0, 0)>>,
    <<all(0, 1, 0, 2), all(1, 1, 1, 1), all(2, 1, 2, 0), file(1, 2, 1, f1)>>,
    <<all(0, 1, 0, 2), node("snapshot", 1, 1, 1, 0, git, 0, 0), text(1, 2, 2, 0)>>,
    <<all(0, 1, 0, 1), [file(1, 1, 1, f2) EXCEPT !.last = 2]>>}
================================================================================
