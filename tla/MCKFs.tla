------------------------------- MODULE MCKFs -------------------------------
(* KFs with the paths of a small tree: a and b in the root, b below a, the
   mounts and the way up. *)
EXTENDS KFs
Rel(s) == [abs |-> FALSE, el |-> s]
Abs(s) == [abs |-> TRUE, el |-> s]
MCPaths == {Rel(<<"a">>), Rel(<<"b">>), Rel(<<"..">>), Abs(<<"a", "a">>),
            Abs(<<"dev">>), Abs(<<"dev", "console">>)}
DeepPaths == {Abs(<<"a">>), Abs(<<"a", "b">>), Rel(<<"..", "b">>)}
=============================================================================
