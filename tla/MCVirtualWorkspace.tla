------------------------- MODULE MCVirtualWorkspace -------------------------
(* Instances of VirtualWorkspace for TLC. *)
EXTENDS VirtualWorkspace

Below(names) == [absolute |-> FALSE, names |-> names]
Top(names) == [absolute |-> TRUE, names |-> names]
Line(mark, text) == [mark |-> mark, text |-> text]

MCWorkspace == <<"workspace">>
MCHome == <<"home">>

\* /workspace, /workspace/a, /workspace/a/b, /home, and one above the root.
MCInputs ==
  {Below(<<"a", "..">>), Below(<<"a">>), Below(<<"a", ".", "b">>), Top(<<"home">>),
   Below(<<"..", "..">>)}
MCContents == {<<"x">>, <<"x", "y">>}
MCOutput == {<<"y">>, <<"x", "y", "x", "y">>}
MCHunks == {<<Line("-", "x"), Line("+", "y")>>, <<Line(" ", "x"), Line("-", "y")>>}

\* An update of one file, written by the shell.
OneFile == {Below(<<".">>), Below(<<"a">>)}
=============================================================================
