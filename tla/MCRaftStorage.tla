--------------------------- MODULE MCRaftStorage ---------------------------
(* Small instances of RaftStorage for TLC. *)
EXTENDS RaftStorage

\* A follower only, or also a node that leads the first or the second term.
MCFollows == {{}}
MCFollowsOrLeadsSecond == {{}, {2}}
MCFollowsOrLeadsFirst == {{}, {1}}

=============================================================================
