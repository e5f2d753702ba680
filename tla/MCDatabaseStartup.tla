-------------------------- MODULE MCDatabaseStartup --------------------------
(* Two instances on one data directory, with two places a legacy database may *)
(* be in: nothing, a sound one, a damaged one.                                *)
EXTENDS DatabaseStartup, TLC

CONSTANTS p1, p2

MCInstances == {p1, p2}

\* Written before the program kept a schema version ...
Unversioned ==
    [origin |-> "old", versions |-> {}, tables |-> TRUE, auth |-> FALSE, marks |-> {},
     times |-> {"local", "unreadable"}, codes |-> {"text", "code"}, admin |-> TRUE]

\* ... after its rows had been converted, ...
Converted ==
    [Unversioned EXCEPT !.marks = {"timestamps", "statuses"}, !.times = {"utc"},
                        !.codes = {"code"}]

\* ... at version 1, at the current one without an "admin", and at a later one.
Versioned(versions) ==
    [Converted EXCEPT !.versions = versions, !.auth = 2 \in versions, !.admin = FALSE]

MCInitialActive ==
    {None, Broken, Unversioned, Versioned({1}), Versioned({1, 2}), Versioned({1, 2, 3})}

MCInitialLegacy == [Candidates -> {None, Broken, Unversioned, Converted}]

Symmetry == Permutations(MCInstances)
=============================================================================
