------------------------------ MODULE MCFileNames ------------------------------
(* A tree /h/r/p/{internal,public} with marks in any of its directories,   *)
(* a directory /h/r/q with a header of the same name, and a tree that lies *)
(* in /internal as a whole                                                 *)
EXTENDS FileNames, FiniteSetsExt

R == <<"h", "r">>
P == Append(R, "p")
Internal == Append(P, "internal")
Public == Append(P, "public")
Below == <<"internal", "t">>
Dirs == {<<>>, <<"h">>, R, P, Internal, Public}

AFile(dir, stem, suffix, ext) ==
  [absolute |-> TRUE, dir |-> dir, stem |-> stem, suffix |-> suffix, ext |-> ext]

Sources == {
  AFile(P, "foo", "", "cc"), AFile(P, "foo", "_test", "cc"), AFile(P, "foo", "-test", "cc"),
  AFile(P, "foo", "", "cpp"), AFile(P, "bar", "", "cc"), AFile(R, "foo", "", "cc"),
  AFile(Internal, "foo", "", "cc")}

Gone == AFile(P, "gone", "", "h")

Headers == {
  AFile(P, "foo", "", "h"), AFile(P, "foo", "-inl", "h"), AFile(P, "foo", "_internal", "h"),
  AFile(Public, "foo", "", "h"), AFile(Internal, "foo", "", "h"), AFile(P, "bar", "", "h"),
  AFile(P, "ar", "", "h"), AFile(R, "foo", "", "h"),
  AFile(Append(R, "q"), "foo", "", "h"), Gone}

(* Headers whose guards are compared *)
Guarded == {
  AFile(P, "foo", "", "h"), AFile(P, "foo", "-inl", "h"), AFile(P, "foo", "_inl", "h"),
  AFile(Internal, "foo", "", "h"), AFile(R, "foo", "", "h"), AFile(R, "p", "_foo", "h"), Gone}
GuardPairs == {[source |-> AFile(P, "foo", "", "h"), header |-> h] : h \in Guarded}
         \cup {[source |-> AFile(R, "foo", "", "h"), header |-> h] : h \in Guarded}
         \cup {[source |-> AFile(P, "foo", "-inl", "h"), header |-> h] : h \in Guarded}

(* Files with public or internal above their root *)
BelowPair == [source |-> AFile(Below, "foo", "", "cc"), header |-> AFile(Below, "foo", "", "h")]

MCFiles == Sources \cup Headers \cup Guarded \cup {BelowPair.source, BelowPair.header}
MCMissing == {Gone}
MCPairs == [source : Sources, header : Headers] \cup GuardPairs \cup {BelowPair}
MCMarks == [svn : SUBSET Dirs, git : {{}} \cup {{d} : d \in Dirs}]
      \cup [svn : SUBSET {<<"internal">>, Below}, git : SUBSET {<<"internal">>, Below}]
MCEnds == {<<"bar", "ar">>}
MCFirstComponent == [stem \in {"foo", "bar", "ar", "gone"} |-> stem]
MCWordOf ==
  [suffix \in {"-inl", "_inl"} |-> "inl"] @@ [suffix \in {"_test", "-test"} |-> "test"] @@
  [suffix \in {"_internal"} |-> "internal"] @@ [suffix \in {"_foo"} |-> "foo"]
MCRoots == {<<>>, <<"p">>, <<"r">>, <<"r", "p">>}
===============================================================================
