------------------------------- MODULE MCRuns -------------------------------
(* Small instances of Runs for TLC.                                        *)
EXTENDS Runs

CONSTANTS r1, r2, r3

\* Two calls with the same tool and arguments; a module's call; in plan mode a
\* plan followed by a call that an earlier permission covers, and that call on
\* its own.
Mixed == [r \in RunIds |->
            CASE r = r1 -> {<<"gated", "gated">>}
              [] r = r2 -> {<<"module">>}
              [] r = r3 -> {<<"plan", "granted">>, <<"granted", "read">>,
                           <<"read", "read", "read">>}]

=============================================================================
