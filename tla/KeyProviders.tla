---------------------------- MODULE KeyProviders ----------------------------
(***************************************************************************)
(* Managed symmetric keys (src/src/providers.rs): the registry a client is *)
(* built with, the choice of the provider of a key reference, and the      *)
(* provider that runs a command for each key.  The command's standard      *)
(* streams are pipes of PipeCapacity units; the calling thread writes the  *)
(* request into one, closes it, collects the other two until both end and  *)
(* then waits for the process.                                             *)
(*                                                                         *)
(* What a command does is a script of Steps; one without "succeed" or      *)
(* "fail" at its end never exits.  Of the output only its amount matters,  *)
(* and whether the whole of it decodes to a key.                           *)
(***************************************************************************)
EXTENDS Integers, Sequences

CONSTANTS
    Calls,             \* resolutions of a key, on any threads
    Providers,         \* what applications register
    Modes,             \* transport modes that need a managed key
    References,        \* key references
    RequestSizes,      \* sizes of the serialised request, in units
    PipeCapacity,      \* units a pipe holds
    MaxRegistrations,  \* bound: providers registered with one builder
    NoName,            \* a key source that names no provider
    NoProvider

Steps == {"read", "read_all", "out", "err", "close", "succeed", "fail"}

Names == {p.name : p \in Providers}

ASSUME ProviderAssumption ==
    /\ PipeCapacity \in Nat \ {0} /\ MaxRegistrations \in Nat
    /\ RequestSizes \subseteq Nat \ {0}
    /\ NoName \notin Names /\ NoProvider \notin Providers
    /\ \A p \in Providers :
           /\ p.modes \subseteq Modes
           /\ p.command \in BOOLEAN
           /\ p.decodes \in BOOLEAN
           /\ p.script \in Seq(Steps)
           /\ p.keys \subseteq References

VARIABLES
    registered,  \* history: the registrations, in order
    registry,    \* the providers by name
    built,       \* the client exists; its registry is fixed
    pc,          \* of each call
    asked,       \* the key source, transport mode and request size of each call
    server,      \* the provider that was chosen
    sent,        \* units written to the command's standard input
    got,         \* units collected from its standard output and standard error
    child,       \* the process: none, running, succeeded, failed, killed
    reaped,      \* calls whose process has been waited for
    step,        \* the position of the process in its script
    listening,   \* calls whose process has its standard input open
    taken,       \* units the process read
    written      \* units the process wrote

parentVars == <<pc, asked, server, sent, got, reaped>>
childVars == <<child, step, listening, taken, written>>
clientVars == <<registered, registry, built>>
vars == <<clientVars, parentVars, childVars>>

NoAsk == [reference |-> "none", provider_name |-> NoName, mode |-> "none", size |-> 0]
Nothing == [out |-> 0, err |-> 0]

-----------------------------------------------------------------------------
(* The registry.                                                           *)

\* The first provider of a name stays.
InsertOnce(p) ==
    [n \in DOMAIN registry \cup {p.name} |-> IF n \in DOMAIN registry THEN registry[n] ELSE p]

Insert(p) == [n \in DOMAIN registry \cup {p.name} |-> IF n = p.name THEN p ELSE registry[n]]

Register(p) ==
    /\ ~built /\ Len(registered) < MaxRegistrations
    /\ registered' = Append(registered, p)
    /\ registry' = Insert(p)
    /\ UNCHANGED <<built, parentVars, childVars>>

Build ==
    /\ ~built
    /\ built' = TRUE
    /\ UNCHANGED <<registered, registry, parentVars, childVars>>

\* Without a name, any provider will do.
AnyProvider(name) ==
    {registry[n] : n \in {m \in DOMAIN registry : name \in {NoName, m}}}

\* At most one: without a name, the only provider there is.
ResolveProvider(name) ==
    {registry[n] : n \in {m \in DOMAIN registry :
        IF name = NoName THEN \A other \in DOMAIN registry : other = m ELSE m = name}}

Supports(p, mode) == mode \in p.modes

-----------------------------------------------------------------------------
(* A call: choosing the provider; keys in memory.                          *)

Returns(c) == pc' = [pc EXCEPT ![c] = "returned"]
Fails(c) == pc' = [pc EXCEPT ![c] = "failed"]

Choose(c, a) ==
    /\ asked' = [asked EXCEPT ![c] = a]
    /\ \/ /\ \A p \in ResolveProvider(a.provider_name) : ~Supports(p, a.mode)
          /\ Fails(c)
          /\ UNCHANGED server
       \/ \E p \in ResolveProvider(a.provider_name) :
          /\ Supports(p, a.mode)
          /\ server' = [server EXCEPT ![c] = p]
          /\ pc' = [pc EXCEPT ![c] = IF p.command THEN "spawn"
                                     ELSE IF a.reference \in p.keys THEN "returned"
                                     ELSE "failed"]

Resolve(c) ==
    /\ built /\ pc[c] = "idle"
    /\ \E r \in References, n \in Names \cup {NoName}, m \in Modes, s \in RequestSizes :
           Choose(c, [reference |-> r, provider_name |-> n, mode |-> m, size |-> s])
    /\ UNCHANGED <<clientVars, childVars, sent, got, reaped>>

-----------------------------------------------------------------------------
(* CommandManagedSymmetricKeyProvider::resolve_key: the calling thread.    *)

Spawn(c) ==
    /\ pc[c] = "spawn"
    /\ pc' = [pc EXCEPT ![c] = "write"]
    /\ child' = [child EXCEPT ![c] = "running"]
    /\ step' = [step EXCEPT ![c] = 1]
    /\ listening' = listening \cup {c}
    /\ UNCHANGED <<clientVars, asked, server, sent, got, reaped, taken, written>>

SpawnFails(c) ==
    /\ pc[c] = "spawn"
    /\ Fails(c)
    /\ UNCHANGED <<clientVars, childVars, asked, server, sent, got, reaped>>

\* The writing end of standard input stays open while the output is collected.
KeepsStdin(c) == pc[c] \in {"write", "collect"}

\* The calling thread drops its end of standard input with the request written,
\* its ends of the other two with the output collected.
HoldsStdin(c)  == pc[c] = "write"
HoldsOutput(c) == pc[c] \in {"write", "collect"}

\* write instead of write_all: what one write takes counts as the request.
FirstWrite(c) == sent[c] >= 0

LastWrite(c) == sent[c] + 1 = asked[c].size

\* write_all; after the last unit stdin is dropped.
WriteRequest(c) ==
    /\ pc[c] = "write" /\ c \in listening
    /\ sent[c] - taken[c] < PipeCapacity
    /\ sent' = [sent EXCEPT ![c] = @ + 1]
    /\ pc' = [pc EXCEPT ![c] = IF LastWrite(c) THEN "collect" ELSE "write"]
    /\ UNCHANGED <<clientVars, childVars, asked, server, got, reaped>>

\* A pipe that is full is given up, too.
NotWritable(c) == c \notin listening \/ sent[c] - taken[c] = PipeCapacity

NobodyReads(c) == c \notin listening

\* write_all fails: Err, and the process is neither killed nor waited for.
BrokenPipe(c) ==
    /\ pc[c] = "write" /\ NobodyReads(c)
    /\ Fails(c)
    /\ UNCHANGED <<clientVars, childVars, asked, server, sent, got, reaped>>

\* Standard error is collected after standard output has ended.
OutputFirst(c, stream) == stream = "err" => child[c] # "running"

\* wait_with_output serves whichever stream has something.
Served(c, stream) == stream \in {"out", "err"}

Collect(c, stream) ==
    /\ pc[c] = "collect" /\ Served(c, stream)
    /\ got[c][stream] < written[c][stream]
    /\ got' = [got EXCEPT ![c][stream] = @ + 1]
    /\ UNCHANGED <<clientVars, childVars, pc, asked, server, sent, reaped>>

\* A process that fails is waited for as if it still ran.
EndedWell(c) == child[c] = "succeeded"

Ended(c) == child[c] \in {"succeeded", "failed", "killed"}

\* The process is gone, whatever is left in its pipes.
CollectedEnough(c) == Ended(c)

\* End of both streams, and the process is gone.
Collected(c) == Ended(c) /\ got[c] = written[c]

\* Accepts the output of a command that failed.
AcceptsOutput(c) == server[c].decodes

\* Takes any word on standard error for a failure.
AcceptsSilence(c) == child[c] = "succeeded" /\ server[c].decodes /\ written[c].err = 0

\* Exit status, then JSON, base64 and the length of the key.
Accepts(c) == child[c] = "succeeded" /\ server[c].decodes

Wait(c) ==
    /\ pc[c] = "collect" /\ Collected(c)
    /\ reaped' = reaped \cup {c}
    /\ IF Accepts(c) THEN Returns(c) ELSE Fails(c)
    /\ UNCHANGED <<clientVars, childVars, asked, server, sent, got>>

-----------------------------------------------------------------------------
(* The process.                                                            *)

At(c, s) ==
    /\ child[c] = "running"
    /\ step[c] \in DOMAIN server[c].script
    /\ server[c].script[step[c]] = s

Advance(c) == step' = [step EXCEPT ![c] = @ + 1]

ReadUnit(c) ==
    /\ c \in listening /\ taken[c] < sent[c]
    /\ taken' = [taken EXCEPT ![c] = @ + 1]
    /\ \/ At(c, "read") /\ Advance(c)
       \/ At(c, "read_all") /\ UNCHANGED step
    /\ UNCHANGED <<clientVars, parentVars, child, listening, written>>

ReadEnd(c) ==
    /\ At(c, "read") \/ At(c, "read_all")
    /\ c \notin listening \/ (taken[c] = sent[c] /\ ~HoldsStdin(c))
    /\ Advance(c)
    /\ UNCHANGED <<clientVars, parentVars, child, listening, taken, written>>

Write(c, stream) ==
    /\ At(c, stream) /\ HoldsOutput(c)
    /\ written[c][stream] - got[c][stream] < PipeCapacity
    /\ written' = [written EXCEPT ![c][stream] = @ + 1]
    /\ Advance(c)
    /\ UNCHANGED <<clientVars, parentVars, child, listening, taken>>

Close(c) ==
    /\ At(c, "close")
    /\ listening' = listening \ {c}
    /\ Advance(c)
    /\ UNCHANGED <<clientVars, parentVars, child, taken, written>>

Exits(c, result) ==
    /\ child' = [child EXCEPT ![c] = result]
    /\ listening' = listening \ {c}
    /\ UNCHANGED <<clientVars, parentVars, step, taken, written>>

Exit(c) == \/ At(c, "succeed") /\ Exits(c, "succeeded")
           \/ At(c, "fail") /\ Exits(c, "failed")

\* SIGPIPE: the call gave up and nobody reads the output.
Killed(c) ==
    /\ At(c, "out") \/ At(c, "err")
    /\ ~HoldsOutput(c)
    /\ Exits(c, "killed")

-----------------------------------------------------------------------------
Init ==
    /\ registered = <<>> /\ registry = [n \in {} |-> NoProvider] /\ built = FALSE
    /\ pc = [c \in Calls |-> "idle"]
    /\ asked = [c \in Calls |-> NoAsk]
    /\ server = [c \in Calls |-> NoProvider]
    /\ sent = [c \in Calls |-> 0]
    /\ got = [c \in Calls |-> Nothing]
    /\ reaped = {}
    /\ child = [c \in Calls |-> "none"]
    /\ step = [c \in Calls |-> 0]
    /\ listening = {}
    /\ taken = [c \in Calls |-> 0]
    /\ written = [c \in Calls |-> Nothing]

Caller(c) ==
    \/ Spawn(c) \/ SpawnFails(c) \/ WriteRequest(c) \/ BrokenPipe(c)
    \/ Collect(c, "out") \/ Collect(c, "err") \/ Wait(c)

Process(c) ==
    \/ ReadUnit(c) \/ ReadEnd(c) \/ Write(c, "out") \/ Write(c, "err")
    \/ Close(c) \/ Exit(c) \/ Killed(c)

Next ==
    \/ \E p \in Providers : Register(p)
    \/ Build
    \/ \E c \in Calls : Resolve(c) \/ Caller(c) \/ Process(c)

Spec == Init /\ [][Next]_vars

\* Threads and processes run; nothing makes an application resolve keys.
FairSpec == Spec /\ \A c \in Calls : WF_vars(Caller(c)) /\ WF_vars(Process(c))

-----------------------------------------------------------------------------
(* Properties.                                                             *)

Ask ==
    {NoAsk} \cup
    [reference : References, provider_name : Names \cup {NoName}, mode : Modes,
     size : RequestSizes]

CallsTyped ==
    /\ pc \in [Calls -> {"idle", "spawn", "write", "collect", "returned", "failed"}]
    /\ asked \in [Calls -> Ask]
    /\ server \in [Calls -> Providers \cup {NoProvider}]
    /\ sent \in [Calls -> Nat]
    /\ got \in [Calls -> [out : Nat, err : Nat]]
    /\ reaped \subseteq Calls

ProcessesTyped ==
    /\ child \in [Calls -> {"none", "running", "succeeded", "failed", "killed"}]
    /\ step \in [Calls -> Nat]
    /\ taken \in [Calls -> Nat]
    /\ written \in [Calls -> [out : Nat, err : Nat]]
    /\ listening \subseteq Calls

\* What a call is at: only a command is run, and its output is collected with the whole
\* request sent.
StageOK(c) ==
    /\ child[c] # "none" => server[c] \in Providers /\ pc[c] \notin {"idle", "spawn"}
    /\ pc[c] \in {"spawn", "write", "collect"} => server[c] \in Providers /\ server[c].command
    /\ pc[c] \in {"write", "collect"} => child[c] # "none"
    /\ pc[c] \in {"idle", "spawn"} => sent[c] = 0
    /\ pc[c] \in {"spawn", "write"} => sent[c] < asked[c].size
    /\ pc[c] = "collect" => sent[c] = asked[c].size

PipesOK(c) ==
    /\ taken[c] <= sent[c] /\ sent[c] - taken[c] <= PipeCapacity
    /\ \A stream \in {"out", "err"} :
           /\ got[c][stream] <= written[c][stream]
           /\ written[c][stream] - got[c][stream] <= PipeCapacity

\* The type of the state: a pipe never holds more than its capacity, and the stages of
\* a call have what they need.
TypeOK ==
    /\ registered \in Seq(Providers)
    /\ DOMAIN registry \subseteq Names
    /\ \A n \in DOMAIN registry : registry[n] \in Providers
    /\ built \in BOOLEAN
    /\ CallsTyped /\ ProcessesTyped
    /\ \A c \in Calls : StageOK(c) /\ PipesOK(c)

Over(c) == pc[c] \in {"returned", "failed"}

\* The provider registered last under its name.
Serving(p) ==
    \E i \in DOMAIN registered :
        /\ registered[i] = p
        /\ \A j \in DOMAIN registered : j > i => registered[j].name # p.name

\* A key comes from the provider that was registered last under the name the key
\* source gives; without a name, from the only one (ManagedSymmetricKeyProviderRegistry).
\* It supports the transport mode, and it has the key: a command said so in full and
\* ended with success (resolve_key).
KeyFromServingProvider ==
    \A c \in Calls : pc[c] = "returned" =>
        LET p == server[c] IN
        /\ Serving(p)
        /\ IF asked[c].provider_name = NoName
           THEN \A i \in DOMAIN registered : registered[i].name = p.name
           ELSE p.name = asked[c].provider_name
        /\ asked[c].mode \in p.modes
        /\ IF p.command
           THEN child[c] = "succeeded" /\ p.decodes /\ got[c] = written[c]
           ELSE asked[c].reference \in p.keys

\* A call that is over leaves no process behind, running or unreaped, unless the
\* process closed its standard input, by ending or otherwise, before it was sent the
\* whole request (the early return of resolve_key).
ProcessesReaped ==
    \A c \in Calls : Over(c) /\ child[c] # "none" =>
        c \in reaped \/ (c \notin listening /\ sent[c] < asked[c].size)

\* A command that prints a key and ends with success is not refused, whatever it
\* writes to standard error and however much; the one exception is again a request
\* it did not listen to (resolve_key).
AnswersAreTaken ==
    \A c \in Calls : pc[c] = "failed" /\ child[c] = "succeeded" /\ server[c].decodes =>
        sent[c] < asked[c].size

\* Neither the thread nor its process can go on, and the process means to.
Stuck(c) ==
    /\ ~Over(c) /\ child[c] = "running" /\ step[c] \in DOMAIN server[c].script
    /\ ~ENABLED Caller(c) /\ ~ENABLED Process(c)

\* Caller and command wait for each other in one way only: the request is larger than
\* the pipe and the command fills an output pipe before it reads (write_all before
\* wait_with_output).
BlockedByLargeRequestOnly ==
    \A c \in Calls : Stuck(c) =>
        /\ asked[c].size > PipeCapacity
        /\ pc[c] = "write" /\ sent[c] - taken[c] = PipeCapacity
        /\ At(c, "out") \/ At(c, "err")

Finishes(script) == script # <<>> /\ script[Len(script)] \in {"succeed", "fail"}

\* A resolution ends with a key or an error when the command exits by itself and the
\* request fits the pipe, however much the command writes where, and in whatever order
\* it reads, writes and closes (resolve_key; it has no timeout of its own).
ResolutionsEnd ==
    \A c \in Calls :
        pc[c] = "spawn" /\ Finishes(server[c].script) /\ asked[c].size <= PipeCapacity
            ~> Over(c)

=============================================================================
