----------------------------- MODULE MCRelease -----------------------------
(* Small instances of Release for TLC. *)
EXTENDS Release, TLC

\* Two repos.  The second revision is of the commits of the first and builds
\* other bytes; the third moves the second repo and builds the bytes of the first.
Twins      == <<(<<1, 1>>), <<1, 1>>, <<1, 2>> >>
Trees      == <<"one", "one", "two">>
OtherBuild == <<"old", "new", "old">>

AllCommits == Repo \X (1..2)
Procs == Permutations(Proc)

\* Next of whole applies: no phase of one is started by itself.
WholeNext ==
  \/ \E p \in Proc :
       \/ Begin(p, "apply", "decide", head, None)
       \/ Proceed(p)
       \/ Crash(p)
  \/ Move

WholeSpec == Init /\ [][WholeNext]_vars
=============================================================================
