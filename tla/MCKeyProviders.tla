--------------------------- MODULE MCKeyProviders ---------------------------
(* Values for model checking KeyProviders: providers with keys in memory,   *)
(* and commands that read, write, close and exit in different orders.       *)
EXTENDS KeyResolution

CONSTANTS c1, c2, r1, r2, none

Provider(name, modes, command, keys, script, decodes) ==
    [name |-> name, modes |-> modes, command |-> command, keys |-> keys,
     script |-> script, decodes |-> decodes]

InMemory(name, modes, keys) == Provider(name, modes, FALSE, keys, <<>>, FALSE)
Runs(name, script, decodes) == Provider(name, {"wrapped"}, TRUE, {}, script, decodes)

\* The request is read, then answered.
Polite == <<"read_all", "out", "succeed">>
\* More output than the pipes hold, both streams.
Verbose == <<"read_all", "err", "err", "out", "out", "succeed">>
\* printf: the request is not read at all.
Deaf == <<"out", "succeed">>
\* One unit is read, a large answer is written before the rest is.
Eager == <<"read", "out", "out", "read_all", "succeed">>
ClosesEarly == <<"close", "out", "out", "succeed">>
Refuses == <<"read_all", "out", "err", "fail">>
Hangs == <<"read_all", "out">>

MCProviders ==
    {InMemory("a", {"wrapped"}, {r1}), InMemory("a", {"release"}, {r1}),
     InMemory("b", {"wrapped"}, {r1}), Runs("b", Refuses, TRUE)}
    \cup {Runs("a", s, TRUE) : s \in {Polite, Verbose, Deaf, Eager, ClosesEarly, Hangs}}
    \cup {Runs("a", Polite, FALSE)}

=============================================================================
