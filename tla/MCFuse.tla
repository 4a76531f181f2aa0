------------------------------- MODULE MCFuse -------------------------------
(* A small file system to start from, and mount options of each outcome. *)
EXTENDS Fuse

MCPaths == {<< >>, <<"a">>, <<"b">>, <<"a", "a">>, <<"a", "b">>, <<"b", "b">>}

MCFirstByte == <<0, 100, 255, 255>>

MCOptions == {{}, {"atime", "nodiratime", "allow_other"}, {"noatime", "atime"}}

Entry(type, name, id, time) ==
    [type |-> type, name |-> name, id |-> id, mode |-> 0, uid |-> 0, atime |-> time, mtime |-> 0, ctime |-> 0]

Dir(parent, es) ==
    [type |-> "DIR", parent |-> parent, entries |-> es, changed |-> FALSE, stored |-> es, data |-> 0]

\* /a/ with the file b, last read more than a day ago, and the empty directory /b/
MCTrees ==
    {[i \in {0, 2, 3, 4} |->
        CASE i = 0 -> Dir(-1, <<Entry("DIR", "a", 2, 0), Entry("DIR", "b", 4, Day + 1)>>)
          [] i = 2 -> Dir(0, <<Entry("FILE", "b", 3, 0)>>)
          [] i = 3 -> NewBlob("FILE", 2)
          [] i = 4 -> NewBlob("DIR", 0)]}
=============================================================================
