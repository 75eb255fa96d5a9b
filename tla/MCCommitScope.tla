--------------------------- MODULE MCCommitScope ---------------------------
(* A TLC instance of CommitScope: two files at different depths and the    *)
(* state file; scopes with a star, with a directory, and with a file.      *)
EXTENDS CommitScope

MCState == <<"scratch", "state">>
MCPaths == {<<"src", "a">>, <<"src", "sub", "b">>, MCState}
MCTracked == {<<"src", "sub", "b">>}
MCSources == {<<"src", "a">>}

Star == [dir |-> FALSE, segs |-> <<"src", "*">>]
Below == [dir |-> TRUE, segs |-> <<"src">>]
Deep == [dir |-> TRUE, segs |-> <<"src", "sub">>]
StateFile == [dir |-> FALSE, segs |-> MCState]

MCScopes == {{Star, StateFile}, {Below, StateFile}}
MCBlocked == {{Deep}}

\* The clock, the hook file and git's files have nothing to do with one another:
\* a behaviour moves one of the three.  (The hook does not look at a time, and of
\* the hook file a commit only asks whether it guards.)  Files change once work may
\* be committed; reopen and a new plan change the scope without an edit.
ClockMoves == now > 0 \/ state.approvedAt \notin {None, 0}
HookMoves == hook \notin {NoHook, Installed(NoHook)}
FilesMove == index # head \/ commits > 0 \/ (edits > 0 /\ state # NoState)
             \/ \E p \in Paths \ {StatePath} : work[p] # head[p]

Apart ==
    /\ ClockMoves => /\ hook = NoHook /\ ~FilesMove
                     /\ allowed \subseteq {Star, StateFile}
    /\ FilesMove => /\ hook = Installed(NoHook) /\ edits <= 1
                    /\ job # NoJob \/ GateAllows(state)
    /\ HookMoves => state = NoState /\ files = <<head, head, head>>

\* ScopeNext, kept apart.
MCNext ==
    \/ Wait /\ Apart'
    \/ Verb /\ Apart'
    \/ WritePlan /\ Apart'
    \/ EditScope /\ Apart'
    \/ EditFile /\ Apart'
    \/ Stage /\ Apart'
    \/ StartCommit /\ Apart'
    \/ HookSkips /\ Apart'
    \/ HookReadsState /\ Apart'
    \/ HookLists /\ Apart'
    \/ HookPasses /\ Apart'
    \/ CommitFails /\ Apart'
    \/ Commit /\ Apart'
    \/ InstallHook /\ Apart'
    \/ UninstallHook /\ Apart'
    \/ KillHookVerb /\ Apart'
    \/ EditHook /\ Apart'

MCSpec == ScopeInit /\ [][MCNext]_scopeVars
=============================================================================
