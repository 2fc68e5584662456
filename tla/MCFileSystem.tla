--------------------------- MODULE MCFileSystem ---------------------------
(* A small instance of FileSystem for TLC. *)
EXTENDS FileSystem, TLC

CONSTANTS p1, p2, none

Op(o, s, c, w)  == [op |-> o, path |-> s, new |-> <<>>, create |-> c, write |-> w]

MCCalls ==
  (p1 :> { Op("mkdir", <<"a">>, 1, 0), Op("unlink", <<"a">>, 0, 0),
           [op |-> "link", path |-> <<"b">>, new |-> <<"a", "b">>, create |-> 0, write |-> 0] })
  @@
  (p2 :> { Op("open", <<"a">>, 1, 1), Op("mknod", <<"a", "b">>, 1, 0),
           Op("unlink", <<"a", "b">>, 0, 0), Op("unlink", <<"/">>, 0, 0),
           Op("chdir", <<"a", "..", "a">>, 0, 0) })

MCImage == <<"b">>

\* States up to the names of the blocks: how many an inode has, how many there are in all
\* and whether each of them is marked in the bitmap.
BlockView ==
  LET all == UNION {ToSet(blocks[i]) : i \in Inodes}
  IN  << type, nlink, ents, [i \in Inodes |-> Len(blocks[i])],
         Cardinality(all), Cardinality(bitmap), all \subseteq bitmap,
         itable, ftable, procs, locals, flow, boot, stray >>
=============================================================================
