------------------------------ MODULE MCInode -------------------------------
EXTENDS Inode, TLC

C(op, path, mode, new) ==
  [op |-> op, path |-> path, root |-> TRUE, mode |-> mode, new |-> new]
On(op, path) == C(op, path, "create", path)
Rel(call) == [call EXCEPT !.root = FALSE]

\* A file by two names, in the current directory and in the root's directory d;
\* directories that come and go, in one another and as somebody's current
\* directory; and link() to "..", which is always there.
MixedCalls ==
  {Rel(On("open", <<"a">>)), Rel(On("unlink", <<"a">>)),
   C("link", <<"a">>, "read", <<"d", "a">>), Rel(C("link", <<"a">>, "read", <<"..">>)),
   Rel(On("mkdir", <<"d">>)), Rel(On("unlink", <<"d">>)),
   Rel(On("chdir", <<"d">>)), Rel(On("chdir", <<"..">>))}

\* A flat tree with devices, and files opened without O_CREATE.
WideCalls ==
  {Rel(On("open", <<"a">>)), Rel(On("unlink", <<"a">>)),
   C("link", <<"b">>, "read", <<"d", "a">>), On("unlink", <<"b">>),
   C("open", <<"b">>, "write", <<"b">>), On("mknod", <<"b">>),
   On("mkdir", <<"d">>), On("unlink", <<"d">>),
   On("chdir", <<"d">>), Rel(On("chdir", <<"..">>))}

\* One file, opened and removed.
PlainCalls == {On("open", <<"a">>), C("open", <<"a">>, "write", <<"a">>),
               On("unlink", <<"a">>)}
Symmetry == Permutations(Procs)
=============================================================================
