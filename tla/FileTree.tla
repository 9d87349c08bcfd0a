------------------------------- MODULE FileTree -------------------------------
(***************************************************************************)
(* What the ram file system promises: a tree of names in which entries are *)
(* added one at a time below a directory that exists, nothing is renamed,  *)
(* removed or turned from a file into a directory, and a write replaces    *)
(* the contents of one file.  Unpacking an archive entry adds the          *)
(* directories on its way first, and may stop half way.                    *)
(***************************************************************************)
EXTENDS Naturals, Sequences

CONSTANTS Names, Contents, Empty, Dir, Depth

VARIABLE tree   \* from the paths that exist to Dir, Empty or some contents

Places == UNION {[1 .. n -> Names] : n \in 1 .. Depth}
Exists(p) == p \in DOMAIN tree
IsDir(p)  == Exists(p) /\ tree[p] = Dir
Front(p)  == SubSeq(p, 1, Len(p) - 1)

Init == tree = [p \in {<< >>} |-> Dir]

With(f, p, v) == [q \in DOMAIN f \cup {p} |-> IF q = p THEN v ELSE f[q]]

Add(p, v) == ~ Exists(p) /\ IsDir(Front(p)) /\ tree' = With(tree, p, v)

Rewrite(p, c) == Exists(p) /\ ~ IsDir(p) /\ tree' = [tree EXCEPT ![p] = c]

(* The directories on the way to p, down to depth k. *)
Way(p, k) == {SubSeq(p, 1, i) : i \in 0 .. k}
WithWay(f, p, k) == [q \in DOMAIN f \cup Way(p, k) |-> IF q \in Way(p, k) THEN Dir ELSE f[q]]

Unpack(p, v) ==
  \E k \in 0 .. Len(p) :
    /\ \A q \in Way(p, k) : Exists(q) => IsDir(q)
    /\ \/ tree' = WithWay(tree, p, k)
       \/ /\ k = Len(p) - 1 /\ ~ IsDir(p)
          /\ tree' = With(WithWay(tree, p, k), p, v)

Next ==
  \E p \in Places, v \in Contents \cup {Empty} :
    Add(p, Dir) \/ Add(p, v) \/ Rewrite(p, v) \/ Unpack(p, v)

Spec == Init /\ [][Next]_tree
===============================================================================
