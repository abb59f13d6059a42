------------------------------- MODULE MCWalk -------------------------------
(* A tree of four directories and four files: r/a/f, r/a/c/g, r/b/h and    *)
(* r/b/new, which another client may create.  f and h are links to one     *)
(* inode, g is a symbolic link.                                            *)
EXTENDS Walk

MCParent == [a |-> "r", b |-> "r", c |-> "a", f |-> "a", g |-> "c", h |-> "b", new |-> "b"]
MCInode == [f |-> "i1", h |-> "i1", g |-> "i2", new |-> "i3"]
MCLength == [i1 |-> 5, i2 |-> 0, i3 |-> 1]
=============================================================================
