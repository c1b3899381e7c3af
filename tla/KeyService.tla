----------------------------- MODULE KeyService -----------------------------
(***************************************************************************)
(* What the managed key providers (src/src/providers.rs) promise to the    *)
(* workflows, for which resolving a key is one step:                       *)
(*                                                                         *)
(*   a key source names one provider at most, in a directory that does not *)
(*   change once the client is built; the key comes from that provider,    *)
(*   which supports the transport mode, or there is no key; either is      *)
(*   final.                                                                *)
(*                                                                         *)
(* KeyResolution maps the providers and their processes onto this          *)
(* specification.                                                          *)
(***************************************************************************)
CONSTANTS
    Calls,            \* resolutions
    Sources,          \* what calls may ask for
    Providers,
    Has(_, _),        \* the provider can come by the key of the source
    NoName,           \* the source names no provider
    NoSource,
    NoProvider

VARIABLES
    directory,  \* the providers by name
    open,       \* the client exists
    outcome,    \* of each call: none, key or error
    source,     \* what a call that is over had asked for
    from        \* where its key comes from

vars == <<directory, open, outcome, source, from>>

Init ==
    /\ directory = [n \in {} |-> NoProvider] /\ open = FALSE
    /\ outcome = [c \in Calls |-> "none"]
    /\ source = [c \in Calls |-> NoSource]
    /\ from = [c \in Calls |-> NoProvider]

-----------------------------------------------------------------------------
\* A provider takes the place of an earlier one of its name.
Enter(p) ==
    /\ ~open
    /\ directory' = [n \in DOMAIN directory \cup {p.name} |->
                        IF n = p.name THEN p ELSE directory[n]]
    /\ UNCHANGED <<open, outcome, source, from>>

Open ==
    /\ ~open /\ open' = TRUE
    /\ UNCHANGED <<directory, outcome, source, from>>

\* The provider of the name; without one, the only provider.
Designated(p, s) ==
    \E n \in DOMAIN directory :
        /\ directory[n] = p
        /\ IF s.provider_name = NoName THEN DOMAIN directory = {n} ELSE n = s.provider_name

Serve(c, s) ==
    /\ open /\ outcome[c] = "none"
    /\ \E p \in Providers :
           /\ Designated(p, s) /\ s.mode \in p.modes /\ Has(p, s)
           /\ from' = [from EXCEPT ![c] = p]
    /\ outcome' = [outcome EXCEPT ![c] = "key"]
    /\ source' = [source EXCEPT ![c] = s]
    /\ UNCHANGED <<directory, open>>

Deny(c, s) ==
    /\ open /\ outcome[c] = "none"
    /\ outcome' = [outcome EXCEPT ![c] = "error"]
    /\ source' = [source EXCEPT ![c] = s]
    /\ UNCHANGED <<directory, open, from>>

Next ==
    \/ \E p \in Providers : Enter(p)
    \/ Open
    \/ \E c \in Calls, s \in Sources : Serve(c, s) \/ Deny(c, s)

Spec == Init /\ [][Next]_vars

=============================================================================
