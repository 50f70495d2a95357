---------------------------- MODULE MCFileSystem ----------------------------
(* Small images and paths for FileSystem.                                  *)
EXTENDS FileSystem

MCName == {"", ".", "..", "a", "b"}

Row(type, parent, name, first, count, size) ==
  [type |-> type, parent |-> parent, name |-> name,
   first_child |-> first, child_count |-> count, size |-> size]

NoImage == [table |-> <<>>, root |-> 1]

\* /a, a directory, with the file /a/b
NestedImage ==
  [table |-> <<Row("DIR", NULL, "", 2, 1, 0), Row("DIR", 1, "a", 3, 1, 0),
               Row("FILE", 2, "b", 0, 0, 1)>>,
   root |-> 1]

MCImages == {NoImage, NestedImage}

\* No pieces: the path "/", used for lookup.  As an argument of touch and mkdir
\* it is <<"">>, and would make a name that is empty.
Absolute(pieces) == [absolute |-> TRUE, pieces |-> pieces]
Relative(pieces) == [absolute |-> FALSE, pieces |-> pieces]

MCPaths ==
  {Absolute(s) : s \in {<<>>, <<"a">>, <<"b">>, <<"a", "a">>, <<"a", "b">>, <<"b", "..">>}}
    \cup {Relative(<<n>>) : n \in {"a", "..", "."}}
=============================================================================
