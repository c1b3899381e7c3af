--------------------------- MODULE MCFfiBoundary ---------------------------
(* Values for model checking FfiBoundary.                                  *)
EXTENDS FfiBoundary, TLC

CONSTANTS t1, t2, h1, a1, a2, none

\* One thread makes calls with keys and artifacts, the other one disturbs it.
MCFunctions ==
    [t \in {t1, t2} |-> IF t = t1 THEN {"access", "sign"} ELSE {"evidence"}]

Key(source, legacy) == [source |-> source, legacy |-> legacy]

MCKeyInputs ==
    {Key("absent", "inline"), Key("managed", "malformed"), Key("malformed", "inline")}

Config(name, kind, complete) == [name |-> name, kind |-> kind, complete |-> complete]
Opts(json, url, providers) == [json |-> json, url |-> url, providers |-> providers]

MCOptions ==
    {Opts(FALSE, TRUE, <<>>),
     Opts(TRUE, FALSE, <<Config("a", "in_memory", TRUE)>>),
     Opts(TRUE, TRUE, <<Config("a", "in_memory", TRUE), Config("a", "command", TRUE)>>),
     Opts(TRUE, TRUE, <<Config("a", "in_memory", TRUE), Config("b", "command", FALSE)>>),
     Opts(TRUE, TRUE, <<Config("a", "other", TRUE), Config("b", "in_memory", TRUE)>>)}

Symmetry == Permutations(Addresses)

=============================================================================
