------------------------- MODULE KeyProvidersProofs -------------------------
(***************************************************************************)
(* Proofs about KeyProviders.                                              *)
(***************************************************************************)
EXTENDS KeyResolution, TLAPS

RegistryTyped ==
    /\ registered \in Seq(Providers)
    /\ DOMAIN registry \subseteq Names
    /\ \A n \in DOMAIN registry : registry[n] \in Providers
    /\ built \in BOOLEAN

LEMMA TypeParts ==
    TypeOK <=> /\ RegistryTyped /\ CallsTyped /\ ProcessesTyped
               /\ \A c \in Calls : StageOK(c) /\ PipesOK(c)
BY DEF TypeOK, RegistryTyped

LEMMA TypeInitially == Init => TypeOK
<1> SUFFICES ASSUME Init PROVE TypeOK
  OBVIOUS
<1>1. RegistryTyped
  <2>1. registered \in Seq(Providers)
    BY DEF Init
  <2>2. DOMAIN registry = {} /\ built \in BOOLEAN
    BY DEF Init
  <2> QED BY <2>1, <2>2 DEF RegistryTyped
<1>2. CallsTyped
  BY DEF Init, CallsTyped, Ask, Nothing
<1>3. ProcessesTyped
  BY DEF Init, ProcessesTyped, Nothing
<1>4. ASSUME NEW c \in Calls PROVE StageOK(c)
  BY DEF Init, StageOK
<1>5. ASSUME NEW c \in Calls PROVE PipesOK(c)
  BY ProviderAssumption DEF Init, PipesOK, Nothing
<1> QED BY <1>1, <1>2, <1>3, <1>4, <1>5, TypeParts

\* The numbers of a call.
LEMMA Counters ==
    ASSUME TypeOK, NEW c \in Calls
    PROVE  /\ PipeCapacity \in Nat
           /\ asked[c].size \in Nat /\ sent[c] \in Nat /\ taken[c] \in Nat
           /\ got[c].out \in Nat /\ got[c].err \in Nat
           /\ written[c].out \in Nat /\ written[c].err \in Nat
<1>1. asked[c].size \in Nat
  <2>1. asked[c] \in Ask
    BY DEF TypeOK, CallsTyped
  <2>2. CASE asked[c] = NoAsk
    BY <2>2 DEF NoAsk
  <2>3. CASE asked[c] # NoAsk
    <3>1. asked[c].size \in RequestSizes
      BY <2>1, <2>3 DEF Ask
    <3> QED BY <3>1, ProviderAssumption
  <2> QED BY <2>2, <2>3
<1>2. got[c] \in [out : Nat, err : Nat] /\ written[c] \in [out : Nat, err : Nat]
  BY DEF TypeOK, CallsTyped, ProcessesTyped
<1>3. sent[c] \in Nat /\ taken[c] \in Nat
  BY DEF TypeOK, CallsTyped, ProcessesTyped
<1> QED BY <1>1, <1>2, <1>3, ProviderAssumption

\* What the application and the choice of a provider do.
LEMMA RegisterKeepsTypes ==
    ASSUME TypeOK, NEW p \in Providers, Register(p)
    PROVE  TypeOK'
<1>1. RegistryTyped'
  BY DEF TypeOK, RegistryTyped, Register, Insert, Names
<1>2. (CallsTyped /\ ProcessesTyped)' /\ (\A c \in Calls : StageOK(c) /\ PipesOK(c))'
  BY DEF TypeOK, Register, CallsTyped, ProcessesTyped, StageOK, PipesOK, parentVars, childVars
<1> QED BY <1>1, <1>2, TypeParts DEF TypeOK, RegistryTyped

LEMMA BuildKeepsTypes ==
    ASSUME TypeOK, Build
    PROVE  TypeOK'
BY DEF TypeOK, Build, CallsTyped, ProcessesTyped, StageOK, PipesOK, parentVars, childVars

LEMMA ResolveKeepsTypes ==
    ASSUME TypeOK, NEW c \in Calls, Resolve(c)
    PROVE  TypeOK'
<1>1. PICK r \in References, n \in Names \cup {NoName}, m \in Modes, s \in RequestSizes :
          Choose(c, [reference |-> r, provider_name |-> n, mode |-> m, size |-> s])
  BY DEF Resolve
<1> DEFINE a == [reference |-> r, provider_name |-> n, mode |-> m, size |-> s]
<1>2. a \in Ask /\ a.size > 0
  BY ProviderAssumption DEF Ask
<1>3. \A p \in ResolveProvider(n) : p \in Providers
  BY DEF ResolveProvider, TypeOK
<1>4. pc[c] = "idle" /\ UNCHANGED <<registered, registry, built, child, step, listening, taken,
                                    written, sent, got, reaped>>
  BY DEF Resolve, clientVars, childVars
<1>5. CASE Fails(c) /\ UNCHANGED server /\ asked' = [asked EXCEPT ![c] = a]
  BY <1>2, <1>4, <1>5
     DEF TypeOK, Fails, CallsTyped, ProcessesTyped, StageOK, PipesOK
<1>6. ASSUME NEW p \in ResolveProvider(n), server' = [server EXCEPT ![c] = p],
             asked' = [asked EXCEPT ![c] = a],
             pc' = [pc EXCEPT ![c] = IF p.command THEN "spawn"
                                     ELSE IF a.reference \in p.keys THEN "returned"
                                     ELSE "failed"]
      PROVE  TypeOK'
  <2>1. p \in Providers
    BY <1>3
  <2>2. CallsTyped'
    BY <1>2, <1>4, <1>6, <2>1 DEF TypeOK, CallsTyped
  <2>3. ProcessesTyped'
    BY <1>4 DEF TypeOK, ProcessesTyped
  <2>4. ASSUME NEW d \in Calls PROVE StageOK(d)'
    BY <1>2, <1>4, <1>6, <2>1 DEF TypeOK, CallsTyped, StageOK
  <2>5. ASSUME NEW d \in Calls PROVE PipesOK(d)'
    BY <1>4 DEF TypeOK, PipesOK
  <2> QED BY <1>4, <2>2, <2>3, <2>4, <2>5 DEF TypeOK
<1> QED BY <1>1, <1>5, <1>6 DEF Choose


\* What the calling thread does.
LEMMA SpawnKeepsTypes ==
    ASSUME TypeOK, NEW c \in Calls, Spawn(c) \/ SpawnFails(c)
    PROVE  TypeOK'
<1> USE DEF Spawn, SpawnFails, Fails, clientVars, childVars
<1>1. RegistryTyped'
  BY DEF TypeOK, RegistryTyped
<1>2. CallsTyped' /\ ProcessesTyped'
  <2>1. CallsTyped'
    BY DEF TypeOK, CallsTyped
  <2>2. CASE Spawn(c)
    BY <2>1, <2>2 DEF TypeOK, ProcessesTyped
  <2>3. CASE SpawnFails(c)
    BY <2>1, <2>3 DEF TypeOK, ProcessesTyped
  <2> QED BY <2>2, <2>3
<1>3. ASSUME NEW d \in Calls PROVE StageOK(d)'
  BY SMTT(30) DEF TypeOK, CallsTyped, ProcessesTyped, StageOK
<1>4. ASSUME NEW d \in Calls PROVE PipesOK(d)'
  BY DEF TypeOK, PipesOK
<1> QED BY <1>1, <1>2, <1>3, <1>4, TypeParts DEF TypeOK, RegistryTyped

LEMMA WriteRequestKeepsTypes ==
    ASSUME TypeOK, NEW c \in Calls, WriteRequest(c) \/ BrokenPipe(c)
    PROVE  TypeOK'
<1> USE DEF WriteRequest, BrokenPipe, LastWrite, Fails, clientVars, childVars
<1>1. RegistryTyped'
  BY DEF TypeOK, RegistryTyped
<1>2. CallsTyped' /\ ProcessesTyped'
  <2>1. ProcessesTyped'
    BY DEF TypeOK, ProcessesTyped
  <2>2. sent[c] \in Nat
    BY Counters
  <2>3. CASE WriteRequest(c)
    <3>1. pc' \in [Calls -> {"idle", "spawn", "write", "collect", "returned", "failed"}]
      BY <2>3 DEF TypeOK, CallsTyped
    <3>2. sent' \in [Calls -> Nat]
      BY <2>2, <2>3 DEF TypeOK, CallsTyped
    <3> QED BY <2>1, <2>3, <3>1, <3>2 DEF TypeOK, CallsTyped
  <2>4. CASE BrokenPipe(c)
    BY <2>1, <2>4 DEF TypeOK, CallsTyped
  <2> QED BY <2>3, <2>4
<1>3. ASSUME NEW d \in Calls PROVE StageOK(d)'
  <2>1. asked[d].size \in Nat /\ sent[d] \in Nat
    BY Counters
  <2>2. StageOK(d) /\ pc \in [Calls -> {"idle", "spawn", "write", "collect", "returned", "failed"}]
        /\ sent \in [Calls -> Nat]
    BY DEF TypeOK, CallsTyped
  <2> QED BY <2>1, <2>2 DEF StageOK
<1>4. ASSUME NEW d \in Calls PROVE PipesOK(d)'
  <2>1. PipesOK(d) /\ sent \in [Calls -> Nat]
    BY DEF TypeOK, CallsTyped
  <2>2. sent[d] \in Nat /\ taken[d] \in Nat /\ PipeCapacity \in Nat
    BY Counters
  <2> QED BY <2>1, <2>2 DEF PipesOK
<1> QED BY <1>1, <1>2, <1>3, <1>4, TypeParts DEF TypeOK, RegistryTyped

LEMMA CollectKeepsTypes ==
    ASSUME TypeOK, NEW c \in Calls, NEW stream \in {"out", "err"}, Collect(c, stream)
    PROVE  TypeOK'
<1> USE DEF Collect, clientVars, childVars
<1>1. RegistryTyped'
  BY DEF TypeOK, RegistryTyped
<1>2. CallsTyped' /\ ProcessesTyped'
  <2>1. ProcessesTyped'
    BY DEF TypeOK, ProcessesTyped
  <2>2. got' \in [Calls -> [out : Nat, err : Nat]]
    <3>1. got \in [Calls -> [out : Nat, err : Nat]] /\ got[c] \in [out : Nat, err : Nat]
      BY DEF TypeOK, CallsTyped
    <3>2. [got[c] EXCEPT ![stream] = @ + 1] \in [out : Nat, err : Nat]
      BY <3>1
    <3>3. got' = [got EXCEPT ![c] = [got[c] EXCEPT ![stream] = @ + 1]]
      BY <3>1
    <3> QED BY <3>1, <3>2, <3>3
  <2> QED BY <2>1, <2>2 DEF TypeOK, CallsTyped
<1>3. ASSUME NEW d \in Calls PROVE StageOK(d)'
  BY DEF TypeOK, StageOK
<1>4. ASSUME NEW d \in Calls PROVE PipesOK(d)'
  <2>1. PipesOK(d) /\ got \in [Calls -> [out : Nat, err : Nat]]
    BY DEF TypeOK, CallsTyped
  <2>2. /\ got[d].out \in Nat /\ got[d].err \in Nat /\ PipeCapacity \in Nat
        /\ written[d].out \in Nat /\ written[d].err \in Nat
    BY Counters
  <2>3. CASE stream = "out"
    BY <2>1, <2>2, <2>3 DEF PipesOK
  <2>4. CASE stream = "err"
    BY <2>1, <2>2, <2>4 DEF PipesOK
  <2> QED BY <2>3, <2>4
<1> QED BY <1>1, <1>2, <1>3, <1>4, TypeParts DEF TypeOK, RegistryTyped

LEMMA WaitKeepsTypes ==
    ASSUME TypeOK, NEW c \in Calls, Wait(c)
    PROVE  TypeOK'
<1> USE DEF Wait, Returns, Fails, clientVars, childVars
<1>1. RegistryTyped'
  BY DEF TypeOK, RegistryTyped
<1>2. CallsTyped' /\ ProcessesTyped'
  <2>1. CallsTyped'
    BY DEF TypeOK, CallsTyped
  <2>2. ProcessesTyped'
    BY DEF TypeOK, ProcessesTyped
  <2> QED BY <2>1, <2>2
<1>3. ASSUME NEW d \in Calls PROVE StageOK(d)'
  BY DEF TypeOK, CallsTyped, StageOK
<1>4. ASSUME NEW d \in Calls PROVE PipesOK(d)'
  BY DEF TypeOK, PipesOK
<1> QED BY <1>1, <1>2, <1>3, <1>4, TypeParts DEF TypeOK, RegistryTyped

LEMMA CallerKeepsTypes ==
    ASSUME TypeOK, NEW c \in Calls, Caller(c)
    PROVE  TypeOK'
BY SpawnKeepsTypes, WriteRequestKeepsTypes, CollectKeepsTypes, WaitKeepsTypes DEF Caller

\* What the process does.
LEMMA ReadKeepsTypes ==
    ASSUME TypeOK, NEW c \in Calls, ReadUnit(c) \/ ReadEnd(c) \/ Close(c)
    PROVE  TypeOK'
<1> USE DEF ReadUnit, ReadEnd, Close, Advance, clientVars, parentVars
<1>1. RegistryTyped'
  BY DEF TypeOK, RegistryTyped
<1>2. CallsTyped' /\ ProcessesTyped'
  <2>1. CallsTyped'
    BY DEF TypeOK, CallsTyped
  <2>2. step' \in [Calls -> Nat] /\ taken' \in [Calls -> Nat]
    BY SMTT(30) DEF TypeOK, ProcessesTyped
  <2>3. UNCHANGED <<child, written>> /\ listening' \subseteq listening
    OBVIOUS
  <2> QED BY <2>1, <2>2, <2>3 DEF TypeOK, ProcessesTyped
<1>3. ASSUME NEW d \in Calls PROVE StageOK(d)'
  BY DEF TypeOK, StageOK
<1>4. ASSUME NEW d \in Calls PROVE PipesOK(d)'
  <2>1. PipesOK(d) /\ taken \in [Calls -> Nat]
    BY DEF TypeOK, ProcessesTyped
  <2>2. sent[d] \in Nat /\ taken[d] \in Nat /\ PipeCapacity \in Nat
    BY Counters
  <2> QED BY <2>1, <2>2 DEF PipesOK
<1> QED BY <1>1, <1>2, <1>3, <1>4, TypeParts DEF TypeOK, RegistryTyped

LEMMA WriteKeepsTypes ==
    ASSUME TypeOK, NEW c \in Calls, NEW stream \in {"out", "err"}, Write(c, stream)
    PROVE  TypeOK'
<1> USE DEF Write, Advance, clientVars, parentVars
<1>1. RegistryTyped'
  BY DEF TypeOK, RegistryTyped
<1>2. CallsTyped' /\ ProcessesTyped'
  <2>1. CallsTyped'
    BY DEF TypeOK, CallsTyped
  <2>2. step' \in [Calls -> Nat]
    BY DEF TypeOK, ProcessesTyped
  <2>3. written' \in [Calls -> [out : Nat, err : Nat]]
    BY DEF TypeOK, ProcessesTyped
  <2> QED BY <2>1, <2>2, <2>3 DEF TypeOK, ProcessesTyped
<1>3. ASSUME NEW d \in Calls PROVE StageOK(d)'
  BY DEF TypeOK, StageOK
<1>4. ASSUME NEW d \in Calls PROVE PipesOK(d)'
  <2>1. PipesOK(d) /\ written \in [Calls -> [out : Nat, err : Nat]]
    BY DEF TypeOK, ProcessesTyped
  <2>2. /\ got[d].out \in Nat /\ got[d].err \in Nat /\ PipeCapacity \in Nat
        /\ written[d].out \in Nat /\ written[d].err \in Nat
    BY Counters
  <2>3. CASE stream = "out"
    BY <2>1, <2>2, <2>3 DEF PipesOK
  <2>4. CASE stream = "err"
    BY <2>1, <2>2, <2>4 DEF PipesOK
  <2> QED BY <2>3, <2>4
<1> QED BY <1>1, <1>2, <1>3, <1>4, TypeParts DEF TypeOK, RegistryTyped

LEMMA ExitKeepsTypes ==
    ASSUME TypeOK, NEW c \in Calls, Exit(c) \/ Killed(c)
    PROVE  TypeOK'
<1>1. PICK result \in {"succeeded", "failed", "killed"} :
          child[c] = "running" /\ Exits(c, result)
  BY DEF Exit, Killed, At
<1> USE DEF Exits, clientVars, parentVars
<1>2. RegistryTyped'
  BY <1>1 DEF TypeOK, RegistryTyped
<1>3. CallsTyped' /\ ProcessesTyped'
  BY <1>1 DEF TypeOK, CallsTyped, ProcessesTyped
<1>4. ASSUME NEW d \in Calls PROVE StageOK(d)'
  BY <1>1 DEF TypeOK, ProcessesTyped, StageOK
<1>5. ASSUME NEW d \in Calls PROVE PipesOK(d)'
  BY <1>1 DEF TypeOK, PipesOK
<1> QED BY <1>2, <1>3, <1>4, <1>5, TypeParts DEF TypeOK, RegistryTyped

LEMMA ProcessKeepsTypes ==
    ASSUME TypeOK, NEW c \in Calls, Process(c)
    PROVE  TypeOK'
BY ReadKeepsTypes, WriteKeepsTypes, ExitKeepsTypes DEF Process

LEMMA StepKeepsTypes ==
    ASSUME TypeOK, [Next]_vars
    PROVE  TypeOK'
<1>1. CASE Next
  BY <1>1, RegisterKeepsTypes, BuildKeepsTypes, ResolveKeepsTypes, CallerKeepsTypes,
     ProcessKeepsTypes DEF Next
<1>2. CASE UNCHANGED vars
  BY <1>2 DEF vars, clientVars, parentVars, childVars, TypeOK, CallsTyped, ProcessesTyped,
              StageOK, PipesOK
<1> QED BY <1>1, <1>2

\* The state has its type: in every state and for every script a pipe holds at most its
\* capacity and what was put into it, only commands run, and output is collected only
\* with the whole request sent.
THEOREM TypeCorrect == Spec => []TypeOK
BY TypeInitially, StepKeepsTypes, PTL DEF Spec

-----------------------------------------------------------------------------
(***************************************************************************)
(* Where keys come from, and what becomes of processes.                    *)
(***************************************************************************)

\* The registry holds the last provider of every name, and nothing is resolved before
\* it is fixed.
RegistryOK ==
    /\ \A n \in DOMAIN registry : Serving(registry[n]) /\ registry[n].name = n
    /\ \A i \in DOMAIN registered : registered[i].name \in DOMAIN registry
    /\ ~built => \A c \in Calls : pc[c] = "idle"

\* The provider of a call that has chosen one.
ChoiceOK(c) ==
    pc[c] \in {"spawn", "write", "collect", "returned"} =>
        LET p == server[c] IN
        /\ Serving(p)
        /\ IF asked[c].provider_name = NoName
           THEN \A i \in DOMAIN registered : registered[i].name = p.name
           ELSE p.name = asked[c].provider_name
        /\ asked[c].mode \in p.modes
        /\ pc[c] = "returned" /\ ~p.command => asked[c].reference \in p.keys

\* How a call that is over left its process.
OutcomeOK(c) ==
    /\ child[c] # "none" => server[c].command
    /\ pc[c] = "returned" /\ server[c].command =>
           Accepts(c) /\ got[c] = written[c] /\ c \in reaped
    /\ pc[c] = "failed" /\ child[c] # "none" =>
           \/ sent[c] < asked[c].size /\ c \notin listening
           \/ c \in reaped /\ Ended(c) /\ ~Accepts(c)

\* The inductive invariant.
KeysInv == TypeOK /\ RegistryOK /\ \A c \in Calls : ChoiceOK(c) /\ OutcomeOK(c)

LEMMA KeysInitially == Init => KeysInv
<1> SUFFICES ASSUME Init PROVE KeysInv
  OBVIOUS
<1>1. TypeOK
  BY TypeInitially
<1>2. RegistryOK
  BY DEF Init, RegistryOK
<1>3. ASSUME NEW c \in Calls PROVE ChoiceOK(c) /\ OutcomeOK(c)
  BY DEF Init, ChoiceOK, OutcomeOK
<1> QED BY <1>1, <1>2, <1>3 DEF KeysInv

\* The new provider is the last of its name; those of other names are as before.
LEMMA RegisterKeepsRegistry ==
    ASSUME TypeOK, RegistryOK, NEW p \in Providers, Register(p)
    PROVE  RegistryOK'
<1>1. /\ registered \in Seq(Providers) /\ registered' = Append(registered, p)
      /\ registry' = Insert(p) /\ ~built /\ UNCHANGED <<built, pc>>
  BY DEF TypeOK, Register, parentVars
<1>2. /\ DOMAIN registered = 1..Len(registered) /\ Len(registered) \in Nat
      /\ DOMAIN registered' = 1..(Len(registered) + 1)
      /\ registered'[Len(registered) + 1] = p
      /\ \A i \in DOMAIN registered : registered'[i] = registered[i]
  BY <1>1
<1>3. ASSUME NEW n \in DOMAIN registry'
      PROVE  Serving(registry[n])' /\ registry'[n].name = n
  <2>1. CASE n = p.name
    <3>1. registry'[n] = p
      BY <1>1, <2>1 DEF Insert
    <3>2. \E i \in DOMAIN registered' :
              /\ registered'[i] = p
              /\ \A j \in DOMAIN registered' : j > i => registered'[j].name # p.name
      BY <1>2
    <3> QED BY <2>1, <3>1, <3>2 DEF Serving
  <2>2. CASE n # p.name
    <3>1. n \in DOMAIN registry /\ registry'[n] = registry[n]
      BY <1>1, <2>2 DEF Insert
    <3>2. registry[n].name = n /\ Serving(registry[n])
      BY <3>1 DEF RegistryOK
    <3>3. PICK i \in DOMAIN registered :
              /\ registered[i] = registry[n]
              /\ \A j \in DOMAIN registered : j > i => registered[j].name # n
      BY <3>2 DEF Serving
    <3>4. i \in DOMAIN registered' /\ registered'[i] = registry[n]
      BY <1>2, <3>3
    <3>5. \A j \in DOMAIN registered' : j > i => registered'[j].name # n
      BY <1>2, <2>2, <3>3
    <3> QED BY <3>1, <3>2, <3>4, <3>5 DEF Serving
  <2> QED BY <2>1, <2>2
<1>4. ASSUME NEW i \in DOMAIN registered' PROVE registered'[i].name \in DOMAIN registry'
  <2>1. DOMAIN registry' = DOMAIN registry \cup {p.name}
    BY <1>1 DEF Insert
  <2>2. CASE i = Len(registered) + 1
    BY <1>2, <2>1, <2>2
  <2>3. CASE i \in DOMAIN registered
    BY <1>2, <2>1, <2>3 DEF RegistryOK
  <2> QED BY <1>2, <2>2, <2>3
<1> QED BY <1>1, <1>3, <1>4 DEF RegistryOK

\* The registry finds the last provider of the name; without a name, the only one.
LEMMA FoundProviderServes ==
    ASSUME TypeOK, RegistryOK, NEW name \in Names \cup {NoName},
           NEW p \in ResolveProvider(name)
    PROVE  /\ Serving(p)
           /\ IF name = NoName
              THEN \A i \in DOMAIN registered : registered[i].name = p.name
              ELSE p.name = name
<1>1. PICK m \in DOMAIN registry :
          /\ registry[m] = p
          /\ IF name = NoName THEN \A other \in DOMAIN registry : other = m ELSE m = name
  BY DEF ResolveProvider
<1>2. Serving(p) /\ p.name = m
  BY <1>1 DEF RegistryOK
<1> QED BY <1>1, <1>2 DEF RegistryOK

LEMMA ResolveKeepsKeys ==
    ASSUME KeysInv, NEW c \in Calls, Resolve(c)
    PROVE  RegistryOK' /\ \A d \in Calls : (ChoiceOK(d) /\ OutcomeOK(d))'
<1>1. PICK r \in References, n \in Names \cup {NoName}, m \in Modes, s \in RequestSizes :
          Choose(c, [reference |-> r, provider_name |-> n, mode |-> m, size |-> s])
  BY DEF Resolve
<1> DEFINE a == [reference |-> r, provider_name |-> n, mode |-> m, size |-> s]
<1>2. /\ built /\ pc[c] = "idle" /\ child[c] = "none"
      /\ UNCHANGED <<registered, registry, built, child, listening, written, sent, got, reaped>>
  BY DEF Resolve, clientVars, childVars, KeysInv, TypeOK, StageOK, ProcessesTyped
<1>3. RegistryOK'
  BY <1>2 DEF KeysInv, RegistryOK, Serving
<1>4. /\ pc \in [Calls -> {"idle", "spawn", "write", "collect", "returned", "failed"}]
      /\ asked \in [Calls -> Ask] /\ server \in [Calls -> Providers \cup {NoProvider}]
  BY DEF KeysInv, TypeOK, CallsTyped
<1>5. asked' = [asked EXCEPT ![c] = a]
  BY <1>1 DEF Choose
<1>6. ASSUME NEW d \in Calls, d # c PROVE (ChoiceOK(d) /\ OutcomeOK(d))'
  <2>1. UNCHANGED <<pc[d], asked[d], server[d]>>
    BY <1>1, <1>4, <1>5, <1>6 DEF Choose, Fails
  <2>2. ChoiceOK(d) /\ OutcomeOK(d)
    BY DEF KeysInv
  <2> QED BY <1>2, <2>1, <2>2 DEF ChoiceOK, OutcomeOK, Serving, Accepts, Ended
<1>7. OutcomeOK(c)' /\ ChoiceOK(c)'
  <2>1. CASE Fails(c)
    BY <1>2, <1>4, <2>1 DEF Fails, ChoiceOK, OutcomeOK
  <2>2. ASSUME NEW p \in ResolveProvider(n), Supports(p, m), server' = [server EXCEPT ![c] = p],
               pc' = [pc EXCEPT ![c] = IF p.command THEN "spawn"
                                       ELSE IF r \in p.keys THEN "returned"
                                       ELSE "failed"]
        PROVE  OutcomeOK(c)' /\ ChoiceOK(c)'
    <3>1. /\ server'[c] = p /\ asked'[c] = a
          /\ pc'[c] = IF p.command THEN "spawn" ELSE IF r \in p.keys THEN "returned"
                      ELSE "failed"
      BY <1>4, <1>5, <2>2
    <3>2. /\ Serving(p)
          /\ IF n = NoName THEN \A i \in DOMAIN registered : registered[i].name = p.name
             ELSE p.name = n
      BY <2>2, FoundProviderServes DEF KeysInv
    <3>3. ChoiceOK(c)'
      BY <1>2, <2>2, <3>1, <3>2 DEF ChoiceOK, Serving, Supports
    <3>4. OutcomeOK(c)'
      BY <1>2, <3>1 DEF OutcomeOK
    <3> QED BY <3>3, <3>4
  <2> QED BY <1>1, <2>1, <2>2 DEF Choose
<1> QED BY <1>3, <1>6, <1>7

\* Once the provider is chosen, a call keeps it.
LEMMA ChoiceKept ==
    ASSUME KeysInv, NEW c \in Calls, Caller(c) \/ Process(c)
    PROVE  RegistryOK' /\ \A d \in Calls : ChoiceOK(d)'
<1>1. UNCHANGED <<registered, registry, built, asked, server>>
  BY DEF Caller, Process, Spawn, SpawnFails, WriteRequest, BrokenPipe, Collect, Wait, ReadUnit,
         ReadEnd, Write, Close, Exit, Killed, Exits, clientVars, parentVars
<1>2. ASSUME NEW d \in Calls
      PROVE  \/ pc'[d] = pc[d]
             \/ /\ pc[d] \in {"spawn", "write", "collect"}
                /\ pc'[d] \in {"write", "collect", "returned", "failed"}
  <2>1. pc \in [Calls -> {"idle", "spawn", "write", "collect", "returned", "failed"}]
    BY DEF KeysInv, TypeOK, CallsTyped
  <2>2. CASE Caller(c)
    BY <2>1, <2>2 DEF Caller, Spawn, SpawnFails, WriteRequest, BrokenPipe, Collect, Wait,
                      Returns, Fails
  <2>3. CASE Process(c)
    BY <2>3 DEF Process, ReadUnit, ReadEnd, Write, Close, Exit, Killed, Exits, parentVars
  <2> QED BY <2>2, <2>3
<1>3. RegistryOK'
  BY <1>1, <1>2 DEF KeysInv, RegistryOK, Serving
<1>4. ASSUME NEW d \in Calls PROVE ChoiceOK(d)'
  <2>1. ChoiceOK(d) /\ StageOK(d)
    BY DEF KeysInv, TypeOK
  <2> QED BY <1>1, <1>2, <2>1 DEF ChoiceOK, StageOK, Serving
<1> QED BY <1>3, <1>4

\* The calling thread: a key is returned, and an answer refused, with the process
\* waited for; only a request that was not taken is given up before.
LEMMA CallerKeepsOutcome ==
    ASSUME KeysInv, NEW c \in Calls, Caller(c), NEW d \in Calls
    PROVE  OutcomeOK(d)'
<1> USE DEF clientVars, childVars
<1>1. /\ pc \in [Calls -> {"idle", "spawn", "write", "collect", "returned", "failed"}]
      /\ sent \in [Calls -> Nat] /\ got \in [Calls -> [out : Nat, err : Nat]]
      /\ child \in [Calls -> {"none", "running", "succeeded", "failed", "killed"}]
      /\ StageOK(d) /\ OutcomeOK(d)
  BY DEF KeysInv, TypeOK, CallsTyped, ProcessesTyped
<1>2. CASE Spawn(c)
  BY <1>1, <1>2 DEF Spawn, OutcomeOK, StageOK, Accepts, Ended
<1>3. CASE SpawnFails(c)
  BY <1>1, <1>3 DEF SpawnFails, Fails, OutcomeOK, StageOK, Accepts, Ended
<1>4. CASE WriteRequest(c)
  BY <1>1, <1>4 DEF WriteRequest, OutcomeOK, Accepts, Ended
<1>5. CASE BrokenPipe(c)
  BY <1>1, <1>5 DEF BrokenPipe, NobodyReads, Fails, OutcomeOK, StageOK, Accepts, Ended
<1>6. ASSUME NEW stream \in {"out", "err"}, Collect(c, stream) PROVE OutcomeOK(d)'
  BY <1>1, <1>6 DEF Collect, OutcomeOK, Accepts, Ended
<1>7. CASE Wait(c)
  BY <1>1, <1>7 DEF Wait, Collected, Returns, Fails, OutcomeOK, Accepts, Ended
<1> QED BY <1>2, <1>3, <1>4, <1>5, <1>6, <1>7 DEF Caller

\* The process: nothing it does changes the outcome of a call that is over, for it has
\* ended when it has been waited for, and does not listen again.
LEMMA ProcessKeepsOutcome ==
    ASSUME KeysInv, NEW c \in Calls, Process(c), NEW d \in Calls
    PROVE  OutcomeOK(d)'
<1>1. /\ child \in [Calls -> {"none", "running", "succeeded", "failed", "killed"}]
      /\ written \in [Calls -> [out : Nat, err : Nat]]
      /\ OutcomeOK(d)
  BY DEF KeysInv, TypeOK, ProcessesTyped
<1>2. UNCHANGED <<pc, asked, server, sent, got, reaped>> /\ listening' \subseteq listening
  BY DEF Process, ReadUnit, ReadEnd, Write, Close, Exit, Killed, Exits, parentVars
<1>3. child[c] = "running"
  BY DEF Process, ReadUnit, ReadEnd, Write, Close, Exit, Killed, At
<1>4. d # c => UNCHANGED <<child[d], written[d]>>
  BY <1>1 DEF Process, ReadUnit, ReadEnd, Write, Close, Exit, Killed, Exits
<1>5. child'[d] # "none" => child[d] # "none"
  BY <1>3, <1>4
<1> QED BY <1>1, <1>2, <1>3, <1>4, <1>5 DEF OutcomeOK, Accepts, Ended

LEMMA StepKeepsKeys ==
    ASSUME KeysInv, [Next]_vars
    PROVE  KeysInv'
<1>1. TypeOK'
  BY StepKeepsTypes DEF KeysInv
<1>2. ASSUME NEW p \in Providers, Register(p) PROVE KeysInv'
  <2>1. RegistryOK'
    BY <1>2, RegisterKeepsRegistry DEF KeysInv
  <2>2. ASSUME NEW c \in Calls PROVE ChoiceOK(c)' /\ OutcomeOK(c)'
    <3>1. pc[c] = "idle"
      BY <1>2 DEF KeysInv, RegistryOK, Register
    <3> QED BY <1>2, <3>1 DEF KeysInv, Register, parentVars, childVars, ChoiceOK, OutcomeOK
  <2> QED BY <1>1, <2>1, <2>2 DEF KeysInv
<1>3. CASE Build \/ UNCHANGED vars
  <2>1. UNCHANGED <<registered, registry, parentVars, childVars>> /\ (built => built')
    BY <1>3 DEF Build, vars, clientVars
  <2>2. RegistryOK'
    BY <2>1 DEF KeysInv, RegistryOK, Serving, parentVars
  <2>3. ASSUME NEW c \in Calls PROVE ChoiceOK(c)' /\ OutcomeOK(c)'
    BY <2>1 DEF KeysInv, ChoiceOK, OutcomeOK, Serving, Accepts, Ended, parentVars, childVars
  <2> QED BY <1>1, <2>2, <2>3 DEF KeysInv
<1>4. ASSUME NEW c \in Calls, Resolve(c) PROVE KeysInv'
  BY <1>1, <1>4, ResolveKeepsKeys DEF KeysInv
<1>5. ASSUME NEW c \in Calls, Caller(c) \/ Process(c) PROVE KeysInv'
  BY <1>1, <1>5, ChoiceKept, CallerKeepsOutcome, ProcessKeepsOutcome DEF KeysInv
<1> QED BY <1>2, <1>3, <1>4, <1>5 DEF Next

LEMMA KeysAlways == Spec => []KeysInv
BY KeysInitially, StepKeepsKeys, PTL DEF Spec

\* Every key comes from the provider the key source means, in every registry and however
\* the calls and their processes interleave (ManagedSymmetricKeyProviderRegistry and
\* resolve_key).
THEOREM KeysComeFromTheirProviders == Spec => []KeyFromServingProvider
<1>1. KeysInv => KeyFromServingProvider
  BY DEF KeysInv, KeyFromServingProvider, ChoiceOK, OutcomeOK, Accepts
<1> QED BY <1>1, KeysAlways, PTL

\* No call leaves its process unreaped, except for the early return of resolve_key.
THEOREM ProcessesAreReaped == Spec => []ProcessesReaped
<1>1. KeysInv => ProcessesReaped
  BY DEF KeysInv, ProcessesReaped, OutcomeOK, Over
<1> QED BY <1>1, KeysAlways, PTL

\* An answer that was given is used, except when the command did not listen
\* (resolve_key).
THEOREM GivenAnswersAreTaken == Spec => []AnswersAreTaken
<1>1. KeysInv => AnswersAreTaken
  BY DEF KeysInv, AnswersAreTaken, OutcomeOK, Accepts
<1> QED BY <1>1, KeysAlways, PTL

\* What the calling thread, and its process, need to go on.
CallerCanMove(c) ==
    \/ pc[c] = "spawn"
    \/ pc[c] = "write" /\ (NobodyReads(c) \/ sent[c] - taken[c] < PipeCapacity)
    \/ /\ pc[c] = "collect"
       /\ Collected(c) \/ \E stream \in {"out", "err"} : got[c][stream] < written[c][stream]

ProcessCanMove(c) ==
    \/ /\ At(c, "read") \/ At(c, "read_all")
       /\ \/ c \in listening /\ taken[c] < sent[c]
          \/ c \notin listening \/ (taken[c] = sent[c] /\ ~HoldsStdin(c))
    \/ \E stream \in {"out", "err"} :
           At(c, stream) /\ (HoldsOutput(c) => written[c][stream] - got[c][stream] < PipeCapacity)
    \/ At(c, "close") \/ At(c, "succeed") \/ At(c, "fail")

LEMMA MovesNeedThat ==
    ASSUME NEW c
    PROVE  (Caller(c) => CallerCanMove(c)) /\ (Process(c) => ProcessCanMove(c))
<1>1. ASSUME Caller(c) PROVE CallerCanMove(c)
  BY <1>1 DEF Caller, Spawn, SpawnFails, WriteRequest, BrokenPipe, Collect, Wait, CallerCanMove,
     Served
<1>2. ASSUME Process(c) PROVE ProcessCanMove(c)
  <2>1. CASE ReadUnit(c) \/ ReadEnd(c)
    BY <2>1 DEF ReadUnit, ReadEnd, ProcessCanMove
  <2>2. CASE Write(c, "out") \/ Write(c, "err") \/ Killed(c)
    BY <2>2 DEF Write, Killed, ProcessCanMove
  <2>3. CASE Close(c) \/ Exit(c)
    BY <2>3 DEF Close, Exit, ProcessCanMove
  <2> QED BY <1>2, <2>1, <2>2, <2>3 DEF Process
<1> QED BY <1>1, <1>2

\* BlockedByLargeRequestOnly with the guards in place of ENABLED.
LargeRequestsOnly ==
    \A c \in Calls :
        /\ ~Over(c) /\ child[c] = "running" /\ step[c] \in DOMAIN server[c].script
        /\ ~CallerCanMove(c) /\ ~ProcessCanMove(c)
        => /\ asked[c].size > PipeCapacity
           /\ pc[c] = "write" /\ sent[c] - taken[c] = PipeCapacity
           /\ At(c, "out") \/ At(c, "err")

\* Wherever a command stands in its script, it and the calling thread wait for each other
\* only if the request is larger than the pipe and the command fills an output pipe before
\* it reads (write_all before wait_with_output).
THEOREM LargeRequestsOnlyBlock == Spec => []LargeRequestsOnly
<1>1. ASSUME TypeOK, NEW c \in Calls, ~Over(c), child[c] = "running",
             step[c] \in DOMAIN server[c].script, ~CallerCanMove(c), ~ProcessCanMove(c)
      PROVE  /\ asked[c].size > PipeCapacity
             /\ pc[c] = "write" /\ sent[c] - taken[c] = PipeCapacity
             /\ At(c, "out") \/ At(c, "err")
  <2> DEFINE s == server[c].script[step[c]]
             size == asked[c].size
             n == sent[c]
             m == taken[c]
  <2>1. /\ server[c] \in Providers /\ pc[c] \in {"write", "collect"}
        /\ n \in Nat /\ m \in Nat /\ m <= n /\ n - m <= PipeCapacity
        /\ pc[c] = "write" => n < size
        /\ PipeCapacity \in Nat \ {0}
    BY <1>1, ProviderAssumption DEF TypeOK, CallsTyped, ProcessesTyped, StageOK, PipesOK, Over
  <2>2. server[c].script \in Seq(Steps)
    BY <2>1, ProviderAssumption
  <2>3. s \in Steps /\ At(c, s)
    BY <1>1, <2>2 DEF At
  <2>4. size \in Nat
    <3>1. asked[c] \in Ask
      BY <1>1 DEF TypeOK, CallsTyped, Ask
    <3>2. size = 0 \/ size \in RequestSizes
      BY <3>1 DEF Ask, NoAsk
    <3>3. \A x \in RequestSizes : x \in Nat
      BY ProviderAssumption
    <3> HIDE DEF size
    <3> QED BY <3>2, <3>3
  <2>5. s \notin {"close", "succeed", "fail"}
    BY <1>1, <2>3 DEF ProcessCanMove
  <2>6. pc[c] = "write"
    <3> SUFFICES ASSUME pc[c] = "collect" PROVE FALSE
      BY <2>1
    <3> DEFINE outs == written[c]["out"] - got[c]["out"]
               errs == written[c]["err"] - got[c]["err"]
    <3>1. s \in {"out", "err"}
      <4> SUFFICES ASSUME s \in {"read", "read_all"} PROVE FALSE
        BY <2>3, <2>5 DEF Steps
      <4> QED BY <1>1, <2>1, <2>3 DEF ProcessCanMove, HoldsStdin
    <3>2. /\ got[c]["out"] \in Nat /\ written[c]["out"] \in Nat
          /\ got[c]["err"] \in Nat /\ written[c]["err"] \in Nat
      BY <1>1 DEF TypeOK, CallsTyped, ProcessesTyped
    <3>3. ~(got[c]["out"] < written[c]["out"]) /\ ~(got[c]["err"] < written[c]["err"])
      BY <1>1 DEF CallerCanMove
    <3>4. ~(written[c][s] - got[c][s] < PipeCapacity)
      BY <1>1, <2>3, <3>1 DEF ProcessCanMove
    <3> QED BY <2>1, <3>1, <3>2, <3>3, <3>4
  <2>7. c \in listening /\ n - m = PipeCapacity
    BY <1>1, <2>1, <2>6 DEF CallerCanMove, NobodyReads
  <2>8. s \in {"out", "err"}
    <3> SUFFICES ASSUME s \in {"read", "read_all"} PROVE FALSE
      BY <2>3, <2>5 DEF Steps
    <3>1. At(c, "read") \/ At(c, "read_all")
      BY <2>3
    <3>2. taken[c] < sent[c]
      BY <2>1, <2>7
    <3> QED BY <1>1, <2>7, <3>1, <3>2 DEF ProcessCanMove
  <2> QED BY <2>1, <2>3, <2>4, <2>6, <2>7, <2>8
<1>2. TypeOK => LargeRequestsOnly
  BY <1>1 DEF LargeRequestsOnly
<1> QED BY <1>2, TypeCorrect, PTL

-----------------------------------------------------------------------------
(***************************************************************************)
(* KeyProviders implements KeyService.  What was chosen is designated as   *)
(* long as the call runs (ChosenOK), since the registry is fixed before    *)
(* the first call, and a process that succeeded got to the end of its      *)
(* script (PrintedOK).                                                     *)
(***************************************************************************)

ChosenOK(c) ==
    pc[c] \in {"spawn", "write", "collect"} =>
        S!Designated(server[c], asked[c]) /\ asked[c].mode \in server[c].modes

PrintedOK(c) ==
    child[c] = "succeeded" =>
        \E i \in DOMAIN server[c].script : server[c].script[i] = "succeed"

ServiceInv == KeysInv /\ \A c \in Calls : ChosenOK(c) /\ PrintedOK(c)

\* A call that is not over, and the others, are what they were to the key service.
LEMMA Unsettled ==
    ASSUME NEW c \in Calls, ~Over(c), ~Over(c)', UNCHANGED <<registry, built>>,
           \A d \in Calls \ {c} : UNCHANGED <<pc[d], asked[d], server[d]>>
    PROVE  UNCHANGED S!vars
<1>1. ASSUME NEW d \in Calls
      PROVE  /\ OutcomeOf(d)' = OutcomeOf(d)
             /\ (IF Over(d) THEN asked[d] ELSE NoAsk)' = IF Over(d) THEN asked[d] ELSE NoAsk
             /\ (IF pc[d] = "returned" THEN server[d] ELSE NoProvider)'
                    = IF pc[d] = "returned" THEN server[d] ELSE NoProvider
  BY DEF OutcomeOf, Over
<1> QED BY <1>1 DEF S!vars

\* A call that fails is denied its key.
LEMMA FailureDenies ==
    ASSUME NEW c \in Calls, built, ~Over(c), pc'[c] = "failed", UNCHANGED <<registry, built>>,
           \A d \in Calls \ {c} : UNCHANGED <<pc[d], asked[d], server[d]>>, asked'[c] \in Ask
    PROVE  S!Next
<1> PICK s \in Ask : s = asked'[c]
  OBVIOUS
<1>1. ASSUME NEW d \in Calls
      PROVE  /\ OutcomeOf(d)' = IF d = c THEN "error" ELSE OutcomeOf(d)
             /\ (IF Over(d) THEN asked[d] ELSE NoAsk)'
                    = IF d = c THEN s ELSE IF Over(d) THEN asked[d] ELSE NoAsk
             /\ (IF pc[d] = "returned" THEN server[d] ELSE NoProvider)'
                    = IF pc[d] = "returned" THEN server[d] ELSE NoProvider
  BY DEF OutcomeOf, Over
<1>2. OutcomeOf(c) = "none"
  BY DEF OutcomeOf, Over
<1>3. S!Deny(c, s)
  BY <1>1, <1>2 DEF S!Deny
<1> QED BY <1>3 DEF S!Next

\* A call that returns a key its provider has, of a provider that is designated, is
\* served.
LEMMA ReturnServes ==
    ASSUME NEW c \in Calls, built, ~Over(c), pc'[c] = "returned", UNCHANGED <<registry, built>>,
           \A d \in Calls \ {c} : UNCHANGED <<pc[d], asked[d], server[d]>>,
           asked'[c] \in Ask, server'[c] \in Providers, S!Designated(server'[c], asked'[c]),
           asked'[c].mode \in server'[c].modes, HasKey(server'[c], asked'[c])
    PROVE  S!Next
<1> PICK s \in Ask : s = asked'[c]
  OBVIOUS
<1>1. ASSUME NEW d \in Calls
      PROVE  /\ OutcomeOf(d)' = IF d = c THEN "key" ELSE OutcomeOf(d)
             /\ (IF Over(d) THEN asked[d] ELSE NoAsk)'
                    = IF d = c THEN s ELSE IF Over(d) THEN asked[d] ELSE NoAsk
             /\ (IF pc[d] = "returned" THEN server[d] ELSE NoProvider)'
                    = IF d = c THEN server'[c]
                      ELSE IF pc[d] = "returned" THEN server[d] ELSE NoProvider
  BY DEF OutcomeOf, Over
<1>2. OutcomeOf(c) = "none"
  BY DEF OutcomeOf, Over
<1>3. S!Serve(c, s)
  BY <1>1, <1>2 DEF S!Serve
<1> QED BY <1>3 DEF S!Next

\* What the calling thread and the process leave alone.
LEMMA OneCallMoves ==
    ASSUME ServiceInv, NEW c \in Calls, Caller(c) \/ Process(c)
    PROVE  /\ UNCHANGED <<registry, built, asked, server>> /\ built
           /\ \A d \in Calls \ {c} : UNCHANGED <<pc[d], child[d]>>
           /\ ~Over(c) \/ UNCHANGED pc
<1>1. /\ pc \in [Calls -> {"idle", "spawn", "write", "collect", "returned", "failed"}]
      /\ child \in [Calls -> {"none", "running", "succeeded", "failed", "killed"}]
      /\ StageOK(c)
  BY DEF ServiceInv, KeysInv, TypeOK, CallsTyped, ProcessesTyped
<1>2. UNCHANGED <<registry, built, asked, server>>
  BY DEF Caller, Process, Spawn, SpawnFails, WriteRequest, BrokenPipe, Collect, Wait, ReadUnit,
         ReadEnd, Write, Close, Exit, Killed, Exits, clientVars, parentVars
<1>3. CASE Caller(c)
  <2>1. pc[c] \in {"spawn", "write", "collect"}
    BY <1>3 DEF Caller, Spawn, SpawnFails, WriteRequest, BrokenPipe, Collect, Wait
  <2>2. \A d \in Calls \ {c} : UNCHANGED <<pc[d], child[d]>>
    BY <1>1, <1>3 DEF Caller, Spawn, SpawnFails, WriteRequest, BrokenPipe, Collect, Wait,
                      Returns, Fails, childVars
  <2>3. built
    BY <2>1 DEF ServiceInv, KeysInv, RegistryOK
  <2> QED BY <1>2, <2>1, <2>2, <2>3 DEF Over
<1>4. CASE Process(c)
  <2>1. UNCHANGED pc /\ child[c] = "running"
    BY <1>4 DEF Process, ReadUnit, ReadEnd, Write, Close, Exit, Killed, Exits, At, parentVars
  <2>2. \A d \in Calls \ {c} : UNCHANGED child[d]
    BY <1>1, <1>4 DEF Process, ReadUnit, ReadEnd, Write, Close, Exit, Killed, Exits
  <2>3. built
    BY <1>1, <2>1 DEF ServiceInv, KeysInv, RegistryOK, StageOK
  <2> QED BY <1>2, <2>1, <2>2, <2>3
<1> QED BY <1>3, <1>4

\* A process says that it succeeded where its script says so.
LEMMA PrintedKept ==
    ASSUME ServiceInv, NEW c \in Calls, Caller(c) \/ Process(c), NEW d \in Calls
    PROVE  PrintedOK(d)'
<1>1. UNCHANGED server /\ (d # c => UNCHANGED child[d]) /\ PrintedOK(d)
  BY OneCallMoves DEF ServiceInv
<1>2. child \in [Calls -> {"none", "running", "succeeded", "failed", "killed"}]
  BY DEF ServiceInv, KeysInv, TypeOK, ProcessesTyped
<1>3. ASSUME d = c, child'[c] = "succeeded", child[c] # "succeeded"
      PROVE  At(c, "succeed")
  <2>1. CASE Caller(c)
    BY <1>2, <1>3, <2>1 DEF Caller, Spawn, SpawnFails, WriteRequest, BrokenPipe, Collect, Wait,
                            childVars
  <2>2. CASE Process(c)
    BY <1>2, <1>3, <2>2 DEF Process, ReadUnit, ReadEnd, Write, Close, Exit, Killed, Exits
  <2> QED BY <2>1, <2>2
<1> QED BY <1>1, <1>3 DEF PrintedOK, At

LEMMA ChosenKept ==
    ASSUME ServiceInv, NEW c \in Calls, Caller(c) \/ Process(c), NEW d \in Calls
    PROVE  ChosenOK(d)'
<1>1. UNCHANGED <<registry, asked, server>> /\ ChosenOK(d)
  BY OneCallMoves DEF ServiceInv
<1>2. pc'[d] \in {"spawn", "write", "collect"} => pc[d] \in {"spawn", "write", "collect"}
  <2>1. pc \in [Calls -> {"idle", "spawn", "write", "collect", "returned", "failed"}]
    BY DEF ServiceInv, KeysInv, TypeOK, CallsTyped
  <2>2. CASE Caller(c)
    BY <2>1, <2>2 DEF Caller, Spawn, SpawnFails, WriteRequest, BrokenPipe, Collect, Wait,
                      Returns, Fails
  <2>3. CASE Process(c)
    BY <2>1, <2>3 DEF Process, ReadUnit, ReadEnd, Write, Close, Exit, Killed, Exits, parentVars
  <2> QED BY <2>2, <2>3
<1> QED BY <1>1, <1>2 DEF ChosenOK, S!Designated

\* The calling thread: its last step settles the call, by the answer of its process or
\* by an error, and no other does.
LEMMA CallerServes ==
    ASSUME ServiceInv, NEW c \in Calls, Caller(c)
    PROVE  S!Next \/ UNCHANGED S!vars
<1>1. /\ UNCHANGED <<registry, built, asked, server>> /\ built
      /\ \A d \in Calls \ {c} : UNCHANGED <<pc[d], asked[d], server[d]>>
  BY OneCallMoves
<1>2. /\ pc \in [Calls -> {"idle", "spawn", "write", "collect", "returned", "failed"}]
      /\ asked[c] \in Ask /\ StageOK(c) /\ ChosenOK(c) /\ PrintedOK(c)
  BY DEF ServiceInv, KeysInv, TypeOK, CallsTyped
<1>3. pc[c] \in {"spawn", "write", "collect"}
  BY DEF Caller, Spawn, SpawnFails, WriteRequest, BrokenPipe, Collect, Wait
<1>4. CASE pc'[c] = "failed"
  <2>1. ~Over(c) /\ asked'[c] \in Ask
    BY <1>1, <1>2, <1>3 DEF Over
  <2> QED BY <1>1, <1>4, <2>1, FailureDenies
<1>5. CASE pc'[c] = "returned"
  <2>1. Accepts(c)
    BY <1>2, <1>3, <1>5 DEF Caller, Spawn, SpawnFails, WriteRequest, BrokenPipe, Collect, Wait,
                            Returns, Fails
  <2>2. HasKey(server[c], asked[c])
    BY <1>2, <1>3, <2>1 DEF StageOK, Accepts, PrintedOK, HasKey
  <2>3. /\ server[c] \in Providers /\ S!Designated(server[c], asked[c])
        /\ asked[c].mode \in server[c].modes
    BY <1>2, <1>3 DEF StageOK, ChosenOK
  <2>4. /\ server'[c] \in Providers /\ S!Designated(server'[c], asked'[c])
        /\ asked'[c].mode \in server'[c].modes /\ HasKey(server'[c], asked'[c])
    BY <1>1, <2>2, <2>3
  <2>5. ~Over(c) /\ asked'[c] \in Ask
    BY <1>1, <1>2, <1>3 DEF Over
  <2> QED BY <1>1, <1>5, <2>4, <2>5, ReturnServes
<1>6. CASE pc'[c] \notin {"failed", "returned"}
  BY <1>1, <1>3, <1>6, Unsettled DEF Over
<1> QED BY <1>4, <1>5, <1>6

LEMMA ProcessIsUnseen ==
    ASSUME ServiceInv, NEW c \in Calls, Process(c)
    PROVE  UNCHANGED S!vars
<1>1. UNCHANGED <<registry, built, asked, server, pc>>
  BY DEF Process, ReadUnit, ReadEnd, Write, Close, Exit, Killed, Exits, clientVars, parentVars
<1> QED BY <1>1 DEF S!vars, OutcomeOf, Over

\* Choosing: without a provider that will do, the call is over at once; a key in memory
\* settles it, too.
LEMMA ChoosingServes ==
    ASSUME ServiceInv, NEW c \in Calls, Resolve(c)
    PROVE  /\ S!Next \/ UNCHANGED S!vars
           /\ \A d \in Calls : ChosenOK(d)' /\ PrintedOK(d)'
<1>1. PICK r \in References, n \in Names \cup {NoName}, m \in Modes, s \in RequestSizes :
          Choose(c, [reference |-> r, provider_name |-> n, mode |-> m, size |-> s])
  BY DEF Resolve
<1> DEFINE a == [reference |-> r, provider_name |-> n, mode |-> m, size |-> s]
<1>2. /\ built /\ pc[c] = "idle" /\ child[c] = "none"
      /\ UNCHANGED <<registry, built, child>>
  BY DEF Resolve, clientVars, childVars, ServiceInv, KeysInv, TypeOK, StageOK, ProcessesTyped
<1>3. /\ pc \in [Calls -> {"idle", "spawn", "write", "collect", "returned", "failed"}]
      /\ asked \in [Calls -> Ask] /\ server \in [Calls -> Providers \cup {NoProvider}]
      /\ \A k \in DOMAIN registry : registry[k] \in Providers
  BY DEF ServiceInv, KeysInv, TypeOK, CallsTyped
<1>4. a \in Ask /\ a.reference = r /\ a.provider_name = n /\ a.mode = m
  BY DEF Ask
<1>5. asked' = [asked EXCEPT ![c] = a]
  BY <1>1 DEF Choose
<1> HIDE DEF a
<1>6. \A d \in Calls \ {c} : UNCHANGED <<pc[d], asked[d], server[d], child[d]>>
  BY <1>1, <1>2, <1>3, <1>5 DEF Choose, Fails
<1>7. ASSUME NEW d \in Calls, d # c PROVE ChosenOK(d)' /\ PrintedOK(d)'
  <2>1. UNCHANGED <<registry, pc[d], asked[d], server[d], child[d]>> /\ ChosenOK(d) /\ PrintedOK(d)
    BY <1>2, <1>6, <1>7 DEF ServiceInv
  <2> QED BY <2>1 DEF ChosenOK, PrintedOK, S!Designated
<1>8. PrintedOK(c)' /\ asked'[c] = a /\ ~Over(c)
  BY <1>2, <1>3, <1>5 DEF PrintedOK, Over
<1>9. CASE Fails(c)
  <2>1. pc'[c] = "failed"
    BY <1>3, <1>9 DEF Fails
  <2>3. S!Next
    BY <1>2, <1>4, <1>6, <1>8, <2>1, FailureDenies
  <2> QED BY <1>7, <1>8, <2>1, <2>3 DEF ChosenOK
<1>10. ASSUME NEW p \in ResolveProvider(n), Supports(p, m), server' = [server EXCEPT ![c] = p],
              pc' = [pc EXCEPT ![c] = IF p.command THEN "spawn"
                                      ELSE IF r \in p.keys THEN "returned"
                                      ELSE "failed"]
       PROVE  /\ S!Next \/ UNCHANGED S!vars
              /\ ChosenOK(c)'
  <2>1. /\ server'[c] = p
        /\ pc'[c] = IF p.command THEN "spawn" ELSE IF r \in p.keys THEN "returned"
                    ELSE "failed"
    BY <1>3, <1>10
  <2>2. p \in Providers /\ S!Designated(p, a) /\ a.mode \in p.modes
    <3>1. PICK k \in DOMAIN registry :
              /\ p = registry[k]
              /\ IF n = NoName THEN \A other \in DOMAIN registry : other = k ELSE k = n
      BY <1>10 DEF ResolveProvider
    <3>2. n = NoName => DOMAIN registry = {k}
      BY <3>1
    <3>3. S!Designated(p, a)
      BY <1>4, <3>1, <3>2 DEF S!Designated
    <3> QED BY <1>3, <1>4, <1>10, <3>1, <3>3 DEF Supports
  <2>3. /\ server'[c] \in Providers /\ S!Designated(server'[c], asked'[c])
        /\ asked'[c].mode \in server'[c].modes
    BY <1>8, <2>1, <2>2
  <2>4. ChosenOK(c)'
    BY <1>2, <2>3 DEF ChosenOK, S!Designated
  <2>5. CASE pc'[c] = "returned"
    <3>1. HasKey(server'[c], asked'[c])
      BY <1>4, <1>8, <2>1, <2>5 DEF HasKey
    <3>2. S!Next
      BY <1>2, <1>4, <1>6, <1>8, <2>3, <2>5, <3>1, ReturnServes
    <3> QED BY <2>4, <3>2
  <2>6. CASE pc'[c] = "failed"
    <3>1. S!Next
      BY <1>2, <1>4, <1>6, <1>8, <2>6, FailureDenies
    <3> QED BY <2>4, <3>1
  <2>7. CASE pc'[c] = "spawn"
    BY <1>2, <1>6, <1>8, <2>4, <2>7, Unsettled DEF Over
  <2> QED BY <2>1, <2>5, <2>6, <2>7
<1>11. Fails(c) \/ \E p \in ResolveProvider(n) :
          /\ Supports(p, m) /\ server' = [server EXCEPT ![c] = p]
          /\ pc' = [pc EXCEPT ![c] = IF p.command THEN "spawn"
                                     ELSE IF r \in p.keys THEN "returned"
                                     ELSE "failed"]
  BY <1>1 DEF Choose
<1> QED BY <1>7, <1>8, <1>9, <1>10, <1>11

\* Before the client is built there are no calls.
LEMMA DirectoryServes ==
    ASSUME ServiceInv, (\E p \in Providers : Register(p)) \/ Build
    PROVE  S!Next /\ \A d \in Calls : ChosenOK(d)' /\ PrintedOK(d)'
<1>1. UNCHANGED <<pc, asked, server, child>> /\ ~built
  BY DEF Register, Build, parentVars, childVars
<1>2. ASSUME NEW p \in Providers, Register(p) PROVE S!Enter(p)
  BY <1>1, <1>2 DEF Register, Insert, S!Enter, OutcomeOf, Over
<1>3. Build => S!Open
  BY <1>1 DEF Build, S!Open, OutcomeOf, Over
<1>4. ASSUME NEW d \in Calls PROVE ChosenOK(d)' /\ PrintedOK(d)'
  <2>1. pc[d] = "idle" /\ PrintedOK(d)
    BY <1>1 DEF ServiceInv, KeysInv, RegistryOK
  <2> QED BY <1>1, <2>1 DEF ChosenOK, PrintedOK
<1> QED BY <1>2, <1>3, <1>4 DEF S!Next

LEMMA ServiceInitially == Init => S!Init /\ ServiceInv
<1> SUFFICES ASSUME Init PROVE S!Init /\ ServiceInv
  OBVIOUS
<1>1. S!Init
  BY DEF Init, S!Init, OutcomeOf, Over
<1>2. ASSUME NEW c \in Calls PROVE ChosenOK(c) /\ PrintedOK(c)
  BY DEF Init, ChosenOK, PrintedOK
<1> QED BY <1>1, <1>2, KeysInitially DEF ServiceInv

LEMMA ServiceStep == ServiceInv /\ [Next]_vars => ServiceInv' /\ [S!Next]_(S!vars)
<1> SUFFICES ASSUME ServiceInv, [Next]_vars
             PROVE  /\ S!Next \/ UNCHANGED S!vars
                    /\ \A d \in Calls : ChosenOK(d)' /\ PrintedOK(d)'
  BY StepKeepsKeys DEF ServiceInv
<1>1. CASE (\E p \in Providers : Register(p)) \/ Build
  BY <1>1, DirectoryServes
<1>2. ASSUME NEW c \in Calls, Resolve(c)
      PROVE  /\ S!Next \/ UNCHANGED S!vars
             /\ \A d \in Calls : ChosenOK(d)' /\ PrintedOK(d)'
  BY <1>2, ChoosingServes
<1>3. ASSUME NEW c \in Calls, Caller(c) \/ Process(c)
      PROVE  /\ S!Next \/ UNCHANGED S!vars
             /\ \A d \in Calls : ChosenOK(d)' /\ PrintedOK(d)'
  BY <1>3, CallerServes, ProcessIsUnseen, ChosenKept, PrintedKept
<1>4. CASE UNCHANGED vars
  <2>1. UNCHANGED <<registry, built, pc, asked, server, child>>
    BY <1>4 DEF vars, clientVars, parentVars, childVars
  <2>2. UNCHANGED S!vars
    BY <2>1 DEF S!vars, OutcomeOf, Over
  <2>3. ASSUME NEW d \in Calls PROVE ChosenOK(d)' /\ PrintedOK(d)'
    BY <2>1 DEF ServiceInv, ChosenOK, PrintedOK, S!Designated
  <2> QED BY <2>2, <2>3
<1> QED BY <1>1, <1>2, <1>3, <1>4 DEF Next

\* ImplementsService, for every set of providers, scripts, pipes and calls: to the
\* workflows a key resolution is one step, whatever its process does.
THEOREM ResolutionsImplementService == Spec => ImplementsService
BY ServiceInitially, ServiceStep, PTL DEF Spec, ImplementsService, S!Spec

-----------------------------------------------------------------------------
(***************************************************************************)
(* A resolution is finite: what its thread and its process have left to do *)
(* shrinks with each of their steps.  With LargeRequestsOnlyBlock this is  *)
(* ResolutionsEnd but for the fairness of the two.                         *)
(***************************************************************************)

Stage(c) ==
    IF pc[c] = "spawn" THEN 2 ELSE IF pc[c] \in {"write", "collect"} THEN 1 ELSE 0

Alive(c) == IF child[c] \in {"none", "running"} THEN 1 ELSE 0

\* What is left of the script, of the request on both sides, and in the output pipes.
Script(c)  == (Len(server[c].script) + 1) - step[c]
Request(c) == (asked[c].size - sent[c]) + (asked[c].size - taken[c])
Output(c)  == (written[c].out - got[c].out) + (written[c].err - got[c].err)

\* A step of the script may put a unit into an output pipe.
Remaining(c) == Stage(c) + Alive(c) + 2 * Script(c) + Request(c) + Output(c)

\* Nothing happens in the call, or in its process.
Still(c) ==
    /\ UNCHANGED <<pc[c], sent[c], got[c], child[c], step[c], taken[c], written[c]>>
    /\ c \in reaped' <=> c \in reaped
    /\ c \in listening' <=> c \in listening

Finite ==
    \A c \in Calls : server[c] \in Providers => Remaining(c) \in Nat

Advancing ==
    \A c \in Calls : pc[c] # "idle" /\ server[c] \in Providers =>
        Remaining(c)' < Remaining(c) \/ Still(c)

BoundedOK(c) ==
    /\ child[c] = "none" => step[c] = 0
    /\ server[c] \in Providers => step[c] <= Len(server[c].script) + 1
    /\ sent[c] <= asked[c].size

FiniteInv == KeysInv /\ \A c \in Calls : BoundedOK(c)

LEMMA ScriptLength ==
    ASSUME NEW p \in Providers
    PROVE  Len(p.script) \in Nat /\ DOMAIN p.script = 1..Len(p.script)
<1>1. p.script \in Seq(Steps)
  BY ProviderAssumption
<1> QED BY <1>1

LEMMA RemainingNumbers ==
    ASSUME FiniteInv, NEW c \in Calls, server[c] \in Providers
    PROVE  /\ Len(server[c].script) \in Nat /\ step[c] \in Nat
           /\ asked[c].size \in Nat /\ sent[c] \in Nat /\ taken[c] \in Nat
           /\ got[c].out \in Nat /\ got[c].err \in Nat
           /\ written[c].out \in Nat /\ written[c].err \in Nat
           /\ step[c] <= Len(server[c].script) + 1
           /\ sent[c] <= asked[c].size /\ taken[c] <= sent[c]
           /\ got[c].out <= written[c].out /\ got[c].err <= written[c].err
<1>1. TypeOK /\ BoundedOK(c) /\ PipesOK(c)
  BY DEF FiniteInv, KeysInv, TypeOK
<1>2. Len(server[c].script) \in Nat
  BY ScriptLength
<1>3. step[c] \in Nat
  BY <1>1 DEF TypeOK, ProcessesTyped
<1>4. got[c]["out"] <= written[c]["out"] /\ got[c]["err"] <= written[c]["err"]
  BY <1>1 DEF PipesOK
<1> QED BY <1>1, <1>2, <1>3, <1>4, Counters DEF BoundedOK, PipesOK

LEMMA RemainingParts ==
    ASSUME FiniteInv, NEW c \in Calls, server[c] \in Providers
    PROVE  Script(c) \in Nat /\ Request(c) \in Nat /\ Output(c) \in Nat
<1>1. Script(c) \in Nat
  BY RemainingNumbers DEF Script
<1>2. asked[c].size - sent[c] \in Nat /\ asked[c].size - taken[c] \in Nat
  BY RemainingNumbers
<1>3. written[c].out - got[c].out \in Nat
  BY RemainingNumbers
<1>4. written[c].err - got[c].err \in Nat
  BY RemainingNumbers
<1> QED BY <1>1, <1>2, <1>3, <1>4 DEF Request, Output

LEMMA RemainingFinite == FiniteInv => Finite
<1> SUFFICES ASSUME FiniteInv, NEW c \in Calls, server[c] \in Providers
             PROVE  Remaining(c) \in Nat
  BY DEF Finite
<1>1. Stage(c) \in Nat /\ Alive(c) \in Nat
  BY DEF Stage, Alive
<1> QED BY <1>1, RemainingParts DEF Remaining

\* The arithmetic, of numbers alone.
LEMMA LessLeft ==
    ASSUME NEW a \in Nat, NEW b \in Nat
    PROVE  a - (b + 1) = (a - b) - 1
OBVIOUS

LEMMA LessOfTwo ==
    ASSUME NEW a \in Int, NEW b \in Int
    PROVE  (a - 1) + b = (a + b) - 1 /\ a + (b - 1) = (a + b) - 1
OBVIOUS

LEMMA MoreOfTwo ==
    ASSUME NEW a \in Int, NEW b \in Int
    PROVE  (a + 1) + b = (a + b) + 1 /\ a + (b + 1) = (a + b) + 1
OBVIOUS

LEMMA MoreLeft ==
    ASSUME NEW a \in Nat, NEW b \in Nat
    PROVE  (a + 1) - b = (a - b) + 1
OBVIOUS

\* The numbers after a step.
LEMMA ScriptGoesOn ==
    ASSUME NEW c \in Calls, server[c] \in Providers, UNCHANGED server,
           step[c] \in Nat, step'[c] = step[c] + 1
    PROVE  Script(c)' = Script(c) - 1
<1> PICK len \in Nat, pos \in Nat : len = Len(server[c].script) /\ pos = step[c]
  BY ScriptLength
<1>1. Script(c)' = (len + 1) - (pos + 1) /\ Script(c) = (len + 1) - pos
  BY DEF Script
<1>2. (len + 1) - (pos + 1) = ((len + 1) - pos) - 1
  <2>1. len + 1 \in Nat
    OBVIOUS
  <2> QED BY <2>1, LessLeft
<1> QED BY <1>1, <1>2, Zenon

LEMMA RequestShrinks ==
    ASSUME NEW c \in Calls, UNCHANGED asked,
           asked[c].size \in Nat, sent[c] \in Nat, taken[c] \in Nat,
           \/ sent'[c] = sent[c] + 1 /\ taken'[c] = taken[c]
           \/ sent'[c] = sent[c] /\ taken'[c] = taken[c] + 1
    PROVE  Request(c)' = Request(c) - 1
<1> PICK size \in Nat, n \in Nat, m \in Nat : size = asked[c].size /\ n = sent[c] /\ m = taken[c]
  OBVIOUS
<1>1. /\ Request(c) = (size - n) + (size - m)
      /\ \/ Request(c)' = (size - (n + 1)) + (size - m)
         \/ Request(c)' = (size - n) + (size - (m + 1))
  BY DEF Request
<1>2. /\ (size - (n + 1)) + (size - m) = ((size - n) + (size - m)) - 1
      /\ (size - n) + (size - (m + 1)) = ((size - n) + (size - m)) - 1
  BY LessLeft, LessOfTwo
<1> QED BY <1>1, <1>2, Zenon

LEMMA OutputMoves ==
    ASSUME NEW c \in Calls, got[c].out \in Nat, got[c].err \in Nat,
           written[c].out \in Nat, written[c].err \in Nat
    PROVE  /\ UNCHANGED written
              /\ \/ got'[c].out = got[c].out + 1 /\ got'[c].err = got[c].err
                 \/ got'[c].err = got[c].err + 1 /\ got'[c].out = got[c].out
              => Output(c)' = Output(c) - 1
           /\ UNCHANGED got
              /\ \/ written'[c].out = written[c].out + 1 /\ written'[c].err = written[c].err
                 \/ written'[c].err = written[c].err + 1 /\ written'[c].out = written[c].out
              => Output(c)' = Output(c) + 1
<1> PICK g \in Nat, h \in Nat, v \in Nat, w \in Nat :
        g = got[c].out /\ h = got[c].err /\ v = written[c].out /\ w = written[c].err
  OBVIOUS
<1>1. Output(c) = (v - g) + (w - h)
  BY DEF Output
<1>2. ASSUME UNCHANGED written,
             \/ got'[c].out = got[c].out + 1 /\ got'[c].err = got[c].err
             \/ got'[c].err = got[c].err + 1 /\ got'[c].out = got[c].out
      PROVE  Output(c)' = Output(c) - 1
  <2>1. Output(c)' = (v - (g + 1)) + (w - h) \/ Output(c)' = (v - g) + (w - (h + 1))
    BY <1>2 DEF Output
  <2>2. (v - (g + 1)) + (w - h) = ((v - g) + (w - h)) - 1
    <3>1. v - (g + 1) = (v - g) - 1
      BY LessLeft
    <3>2. v - g \in Int /\ w - h \in Int
      OBVIOUS
    <3> QED BY <3>1, <3>2, LessOfTwo
  <2>3. (v - g) + (w - (h + 1)) = ((v - g) + (w - h)) - 1
    <3>1. w - (h + 1) = (w - h) - 1
      BY LessLeft
    <3>2. v - g \in Int /\ w - h \in Int
      OBVIOUS
    <3> QED BY <3>1, <3>2, LessOfTwo
  <2> QED BY <1>1, <2>1, <2>2, <2>3
<1>3. ASSUME UNCHANGED got,
             \/ written'[c].out = written[c].out + 1 /\ written'[c].err = written[c].err
             \/ written'[c].err = written[c].err + 1 /\ written'[c].out = written[c].out
      PROVE  Output(c)' = Output(c) + 1
  <2>1. Output(c)' = ((v + 1) - g) + (w - h) \/ Output(c)' = (v - g) + ((w + 1) - h)
    BY <1>3 DEF Output
  <2>2. ((v + 1) - g) + (w - h) = ((v - g) + (w - h)) + 1
    <3>1. (v + 1) - g = (v - g) + 1
      BY MoreLeft
    <3>2. v - g \in Int /\ w - h \in Int
      OBVIOUS
    <3> QED BY <3>1, <3>2, MoreOfTwo
  <2>3. (v - g) + ((w + 1) - h) = ((v - g) + (w - h)) + 1
    <3>1. (w + 1) - h = (w - h) + 1
      BY MoreLeft
    <3>2. v - g \in Int /\ w - h \in Int
      OBVIOUS
    <3> QED BY <3>1, <3>2, MoreOfTwo
  <2> QED BY <1>1, <2>1, <2>2, <2>3
<1> QED BY <1>2, <1>3

\* A step of one call does nothing in another.
LEMMA OthersStandStill ==
    ASSUME FiniteInv, NEW c \in Calls, Caller(c) \/ Process(c), NEW d \in Calls \ {c}
    PROVE  Still(d)
<1>1. /\ pc \in [Calls -> {"idle", "spawn", "write", "collect", "returned", "failed"}]
      /\ child \in [Calls -> {"none", "running", "succeeded", "failed", "killed"}]
      /\ sent \in [Calls -> Nat] /\ got \in [Calls -> [out : Nat, err : Nat]]
      /\ step \in [Calls -> Nat] /\ taken \in [Calls -> Nat]
      /\ written \in [Calls -> [out : Nat, err : Nat]]
  BY DEF FiniteInv, KeysInv, TypeOK, CallsTyped, ProcessesTyped
<1>2. CASE Caller(c)
  <2>1. CASE Spawn(c) \/ SpawnFails(c) \/ BrokenPipe(c)
    BY <1>1, <2>1 DEF Spawn, SpawnFails, BrokenPipe, Fails, childVars, Still
  <2>2. CASE WriteRequest(c) \/ Wait(c)
    BY <1>1, <2>2 DEF WriteRequest, Wait, Returns, Fails, childVars, Still
  <2>3. CASE Collect(c, "out") \/ Collect(c, "err")
    BY <1>1, <2>3 DEF Collect, childVars, Still
  <2> QED BY <1>2, <2>1, <2>2, <2>3 DEF Caller
<1>3. CASE Process(c)
  <2>1. CASE ReadUnit(c) \/ ReadEnd(c) \/ Close(c)
    BY <1>1, <2>1 DEF ReadUnit, ReadEnd, Close, Advance, parentVars, Still
  <2>2. CASE Write(c, "out") \/ Write(c, "err")
    BY <1>1, <2>2 DEF Write, Advance, parentVars, Still
  <2>3. CASE Exit(c) \/ Killed(c)
    BY <1>1, <2>3 DEF Exit, Killed, Exits, parentVars, Still
  <2> QED BY <1>3, <2>1, <2>2, <2>3 DEF Process
<1> QED BY <1>2, <1>3

\* What a step of the calling thread leaves to do.
LEMMA CallerAdvances ==
    ASSUME FiniteInv, NEW c \in Calls, Caller(c)
    PROVE  /\ server[c] \in Providers => Remaining(c)' < Remaining(c)
           /\ BoundedOK(c)'
<1>1. /\ pc \in [Calls -> {"idle", "spawn", "write", "collect", "returned", "failed"}]
      /\ child \in [Calls -> {"none", "running", "succeeded", "failed", "killed"}]
      /\ sent \in [Calls -> Nat] /\ got \in [Calls -> [out : Nat, err : Nat]]
      /\ step \in [Calls -> Nat]
      /\ StageOK(c) /\ BoundedOK(c)
  BY DEF FiniteInv, KeysInv, TypeOK, CallsTyped, ProcessesTyped
<1>2. server[c] \in Providers
  BY <1>1 DEF Caller, Spawn, SpawnFails, WriteRequest, BrokenPipe, Collect, Wait, StageOK
<1> DEFINE len == Len(server[c].script)
           size == asked[c].size
<1>3. /\ len \in Nat /\ step[c] \in Nat /\ size \in Nat /\ sent[c] \in Nat /\ taken[c] \in Nat
      /\ got[c].out \in Nat /\ got[c].err \in Nat
      /\ written[c].out \in Nat /\ written[c].err \in Nat
      /\ step[c] <= len + 1 /\ sent[c] <= size
  BY <1>2, RemainingNumbers
<1> /\ Script(c) \in Nat /\ Request(c) \in Nat /\ Output(c) \in Nat
  BY <1>2, RemainingParts
<1>4. CASE Spawn(c)
  <2>1. /\ pc[c] = "spawn" /\ pc'[c] = "write" /\ child[c] = "none" /\ child'[c] = "running"
        /\ step[c] = 0 /\ step'[c] = 1
        /\ UNCHANGED <<asked, server, sent, got, taken, written>>
    BY <1>1, <1>4 DEF Spawn, StageOK, BoundedOK
  <2>2. Stage(c)' = 1 /\ Stage(c) = 2 /\ Alive(c)' = 1 /\ Alive(c) = 1
    BY <2>1 DEF Stage, Alive
  <2>3. Script(c)' = Script(c) - 1
    BY <1>3, <2>1 DEF Script
  <2>4. Request(c)' = Request(c) /\ Output(c)' = Output(c)
    BY <2>1 DEF Request, Output
  <2>5. Remaining(c)' < Remaining(c)
    BY <2>2, <2>3, <2>4 DEF Remaining
  <2> QED BY <1>3, <2>1, <2>5 DEF BoundedOK
<1>5. CASE SpawnFails(c) \/ BrokenPipe(c) \/ Wait(c)
  <2>1. /\ pc[c] \in {"spawn", "write", "collect"} /\ pc'[c] \in {"returned", "failed"}
        /\ UNCHANGED <<asked, server, sent, got, child, step, taken, written>>
    BY <1>1, <1>5 DEF SpawnFails, BrokenPipe, Wait, Fails, Returns, childVars
  <2>2. Stage(c)' = 0 /\ Stage(c) \in {1, 2} /\ Alive(c)' = Alive(c) /\ Alive(c) \in Nat
    BY <2>1 DEF Stage, Alive
  <2>3. Script(c)' = Script(c) /\ Request(c)' = Request(c) /\ Output(c)' = Output(c)
    BY <2>1 DEF Script, Request, Output
  <2>4. Remaining(c)' < Remaining(c)
    BY <2>2, <2>3 DEF Remaining
  <2> QED BY <1>1, <2>1, <2>4 DEF BoundedOK
<1>6. CASE WriteRequest(c)
  <2>1. /\ pc[c] = "write" /\ pc'[c] \in {"write", "collect"} /\ sent'[c] = sent[c] + 1
        /\ UNCHANGED <<asked, server, got, child, step, taken, written>>
    BY <1>1, <1>6 DEF WriteRequest, childVars
  <2>2. Stage(c)' = 1 /\ Stage(c) = 1 /\ Alive(c)' = Alive(c) /\ Alive(c) \in Nat
    BY <2>1 DEF Stage, Alive
  <2>3. Request(c)' = Request(c) - 1
    BY <1>3, <2>1, RequestShrinks
  <2>4. Script(c)' = Script(c) /\ Output(c)' = Output(c)
    BY <2>1 DEF Script, Output
  <2>5. Remaining(c)' < Remaining(c)
    BY <2>2, <2>3, <2>4 DEF Remaining
  <2>6. sent[c] < size
    BY <1>1, <2>1 DEF StageOK
  <2> QED BY <1>1, <1>3, <2>1, <2>5, <2>6 DEF BoundedOK
<1>7. ASSUME NEW stream \in {"out", "err"}, Collect(c, stream)
      PROVE  Remaining(c)' < Remaining(c) /\ BoundedOK(c)'
  <2>1. /\ got'[c] = [got[c] EXCEPT ![stream] = @ + 1] /\ got[c] \in [out : Nat, err : Nat]
        /\ UNCHANGED <<asked, server, pc, sent, child, step, taken, written>>
    BY <1>1, <1>7 DEF Collect, childVars
  <2>2. \/ got'[c].out = got[c].out + 1 /\ got'[c].err = got[c].err
        \/ got'[c].err = got[c].err + 1 /\ got'[c].out = got[c].out
    BY <2>1
  <2>3. Stage(c)' = Stage(c) /\ Stage(c) \in Nat /\ Alive(c)' = Alive(c) /\ Alive(c) \in Nat
    BY <2>1 DEF Stage, Alive
  <2>4. Output(c)' = Output(c) - 1
    BY <1>3, <2>1, <2>2, OutputMoves
  <2>5. Script(c)' = Script(c) /\ Request(c)' = Request(c)
    BY <2>1 DEF Script, Request
  <2>6. Remaining(c)' < Remaining(c)
    BY <2>3, <2>4, <2>5 DEF Remaining
  <2> QED BY <1>1, <2>1, <2>6 DEF BoundedOK
<1> QED BY <1>4, <1>5, <1>6, <1>7 DEF Caller

\* What a step of the process leaves to do: it takes a unit, goes on in its script or
\* ends.  A unit it writes is to be collected, which the script's step outweighs.
LEMMA ProcessAdvances ==
    ASSUME FiniteInv, NEW c \in Calls, Process(c)
    PROVE  /\ server[c] \in Providers => Remaining(c)' < Remaining(c)
           /\ BoundedOK(c)'
<1>1. /\ child \in [Calls -> {"none", "running", "succeeded", "failed", "killed"}]
      /\ step \in [Calls -> Nat] /\ taken \in [Calls -> Nat]
      /\ written \in [Calls -> [out : Nat, err : Nat]]
      /\ StageOK(c) /\ BoundedOK(c)
  BY DEF FiniteInv, KeysInv, TypeOK, ProcessesTyped
<1>2. child[c] = "running" /\ step[c] \in DOMAIN server[c].script
  BY DEF Process, ReadUnit, ReadEnd, Write, Close, Exit, Killed, At
<1>3. server[c] \in Providers
  BY <1>1, <1>2 DEF StageOK
<1> DEFINE len == Len(server[c].script)
           size == asked[c].size
<1>4. /\ len \in Nat /\ step[c] \in Nat /\ size \in Nat /\ sent[c] \in Nat /\ taken[c] \in Nat
      /\ got[c].out \in Nat /\ got[c].err \in Nat
      /\ written[c].out \in Nat /\ written[c].err \in Nat
      /\ step[c] <= len
  BY <1>2, <1>3, RemainingNumbers, ScriptLength
<1>5. /\ UNCHANGED <<pc, asked, server, sent, got>>
      /\ Stage(c)' = Stage(c) /\ Stage(c) \in Nat /\ Alive(c) = 1 /\ Alive(c)' \in {0, 1}
  BY <1>2 DEF Process, ReadUnit, ReadEnd, Write, Close, Exit, Killed, Exits, parentVars, Stage,
              Alive
<1> /\ Script(c) \in Nat /\ Request(c) \in Nat /\ Output(c) \in Nat
  BY <1>3, RemainingParts
<1>6. CASE ReadUnit(c)
  <2>1. /\ taken'[c] = taken[c] + 1 /\ step'[c] \in {step[c], step[c] + 1}
        /\ UNCHANGED <<child, written>>
    BY <1>1, <1>6 DEF ReadUnit, Advance
  <2>2. Request(c)' = Request(c) - 1
    BY <1>4, <1>5, <2>1, RequestShrinks
  <2>3. Script(c)' = Script(c) \/ Script(c)' = Script(c) - 1
    <3>1. CASE step'[c] = step[c]
      BY <1>5, <3>1 DEF Script
    <3>2. CASE step'[c] = step[c] + 1
      BY <1>3, <1>4, <1>5, <3>2, ScriptGoesOn
    <3> QED BY <2>1, <3>1, <3>2
  <2>4. Output(c)' = Output(c) /\ Alive(c)' = Alive(c)
    BY <1>5, <2>1 DEF Output, Alive
  <2>5. Remaining(c)' < Remaining(c)
    BY <1>5, <2>2, <2>3, <2>4 DEF Remaining
  <2>6. step'[c] <= len + 1
    BY <1>4, <2>1
  <2>7. child'[c] = "running" /\ sent'[c] <= asked'[c].size
    BY <1>1, <1>2, <1>5, <2>1 DEF BoundedOK
  <2>8. BoundedOK(c)'
    BY <1>5, <2>6, <2>7 DEF BoundedOK
  <2> QED BY <2>5, <2>8
<1>7. CASE ReadEnd(c) \/ Close(c)
  <2>1. step'[c] = step[c] + 1 /\ UNCHANGED <<child, taken, written>>
    BY <1>1, <1>7 DEF ReadEnd, Close, Advance
  <2>2. Script(c)' = Script(c) - 1
    BY <1>3, <1>4, <1>5, <2>1, ScriptGoesOn
  <2>3. Request(c)' = Request(c) /\ Output(c)' = Output(c) /\ Alive(c)' = Alive(c)
    BY <1>5, <2>1 DEF Request, Output, Alive
  <2>4. Remaining(c)' < Remaining(c)
    BY <1>5, <2>2, <2>3 DEF Remaining
  <2> QED BY <1>1, <1>2, <1>4, <1>5, <2>1, <2>4 DEF BoundedOK
<1>8. ASSUME NEW stream \in {"out", "err"}, Write(c, stream)
      PROVE  Remaining(c)' < Remaining(c) /\ BoundedOK(c)'
  <2>1. /\ written'[c] = [written[c] EXCEPT ![stream] = @ + 1]
        /\ written[c] \in [out : Nat, err : Nat]
        /\ step'[c] = step[c] + 1 /\ UNCHANGED <<child, taken>>
    BY <1>1, <1>8 DEF Write, Advance
  <2>2. \/ written'[c].out = written[c].out + 1 /\ written'[c].err = written[c].err
        \/ written'[c].err = written[c].err + 1 /\ written'[c].out = written[c].out
    BY <2>1
  <2>3. Script(c)' = Script(c) - 1
    BY <1>3, <1>4, <1>5, <2>1, ScriptGoesOn
  <2>4. Output(c)' = Output(c) + 1
    BY <1>4, <1>5, <2>1, <2>2, OutputMoves
  <2>5. Request(c)' = Request(c) /\ Alive(c)' = Alive(c)
    BY <1>5, <2>1 DEF Request, Alive
  <2>6. Remaining(c)' < Remaining(c)
    BY <1>5, <2>3, <2>4, <2>5 DEF Remaining
  <2> QED BY <1>1, <1>2, <1>4, <1>5, <2>1, <2>6 DEF BoundedOK
<1>9. CASE Exit(c) \/ Killed(c)
  <2>1. child'[c] \in {"succeeded", "failed", "killed"} /\ UNCHANGED <<step, taken, written>>
    BY <1>1, <1>9 DEF Exit, Killed, Exits
  <2>2. Alive(c)' = 0
    BY <2>1 DEF Alive
  <2>3. Script(c)' = Script(c) /\ Request(c)' = Request(c) /\ Output(c)' = Output(c)
    BY <1>5, <2>1 DEF Script, Request, Output
  <2>4. Remaining(c)' < Remaining(c)
    BY <1>5, <2>2, <2>3 DEF Remaining
  <2> QED BY <1>1, <1>2, <1>4, <1>5, <2>1, <2>4 DEF BoundedOK
<1> QED BY <1>6, <1>7, <1>8, <1>9 DEF Process

LEMMA FiniteInit == Init => FiniteInv
<1> SUFFICES ASSUME Init PROVE FiniteInv
  OBVIOUS
<1>1. KeysInv
  BY KeysInitially
<1>2. ASSUME NEW c \in Calls PROVE BoundedOK(c)
  <2>1. step[c] = 0 /\ sent[c] = 0 /\ asked[c].size = 0 /\ server[c] = NoProvider
    BY DEF Init, NoAsk
  <2> QED BY <2>1, ProviderAssumption DEF BoundedOK
<1> QED BY <1>1, <1>2 DEF FiniteInv

\* A step that leaves a call alone.
LEMMA StillBounded ==
    ASSUME NEW d \in Calls, BoundedOK(d), Still(d), UNCHANGED <<asked[d], server[d]>>
    PROVE  BoundedOK(d)'
BY DEF BoundedOK, Still

\* Choosing the provider comes before the first step that is counted.
LEMMA ResolveAdvances ==
    ASSUME FiniteInv, NEW c \in Calls, Resolve(c)
    PROVE  /\ pc[c] = "idle" /\ BoundedOK(c)'
           /\ \A d \in Calls \ {c} : Still(d) /\ UNCHANGED <<asked[d], server[d]>>
<1>1. /\ pc \in [Calls -> {"idle", "spawn", "write", "collect", "returned", "failed"}]
      /\ asked \in [Calls -> Ask] /\ server \in [Calls -> Providers \cup {NoProvider}]
      /\ StageOK(c) /\ BoundedOK(c)
  BY DEF FiniteInv, KeysInv, TypeOK, CallsTyped
<1>2. PICK r \in References, n \in Names \cup {NoName}, m \in Modes, s \in RequestSizes :
          Choose(c, [reference |-> r, provider_name |-> n, mode |-> m, size |-> s])
  BY DEF Resolve
<1>3. pc[c] = "idle" /\ UNCHANGED <<childVars, sent, got, reaped>>
  BY DEF Resolve
<1>4. child[c] = "none" /\ step[c] = 0 /\ sent[c] = 0
  BY <1>1, <1>3 DEF StageOK, BoundedOK
<1>5. asked'[c].size = s /\ s \in Nat
  BY <1>1, <1>2, ProviderAssumption DEF Choose
<1>6. ASSUME server'[c] \in Providers PROVE step'[c] <= Len(server'[c].script) + 1
  <2>1. PICK len \in Nat : len = Len(server'[c].script)
    BY <1>6, ScriptLength
  <2>2. 0 <= len + 1
    OBVIOUS
  <2> QED BY <1>3, <1>4, <2>1, <2>2 DEF childVars
<1>7. BoundedOK(c)'
  <2>1. sent'[c] <= asked'[c].size /\ step'[c] = 0
    BY <1>3, <1>4, <1>5 DEF childVars
  <2> QED BY <1>6, <2>1 DEF BoundedOK
<1>8. ASSUME NEW d \in Calls \ {c}
      PROVE  Still(d) /\ UNCHANGED <<asked[d], server[d]>>
  <2>1. pc'[d] = pc[d] /\ asked'[d] = asked[d] /\ server'[d] = server[d]
    BY <1>1, <1>2 DEF Choose, Fails
  <2> QED BY <1>3, <2>1 DEF Still, childVars
<1> QED BY <1>3, <1>7, <1>8

LEMMA FiniteStep == FiniteInv /\ [Next]_vars => FiniteInv' /\ Advancing
<1> SUFFICES ASSUME FiniteInv, [Next]_vars PROVE FiniteInv' /\ Advancing
  OBVIOUS
<1>1. KeysInv'
  BY StepKeepsKeys DEF FiniteInv
<1>2. CASE UNCHANGED <<parentVars, childVars>>
  <2>1. ASSUME NEW d \in Calls PROVE Still(d) /\ BoundedOK(d)'
    BY <1>2, StillBounded DEF Still, parentVars, childVars, FiniteInv
  <2> QED BY <1>1, <2>1 DEF FiniteInv, Advancing
<1>3. ASSUME NEW c \in Calls, Resolve(c) PROVE FiniteInv' /\ Advancing
  <2>1. ASSUME NEW d \in Calls
        PROVE  BoundedOK(d)' /\ (pc[d] = "idle" \/ Still(d))
    BY <1>3, ResolveAdvances, StillBounded DEF FiniteInv
  <2> QED BY <1>1, <2>1 DEF FiniteInv, Advancing
<1>4. ASSUME NEW c \in Calls, Caller(c) \/ Process(c) PROVE FiniteInv' /\ Advancing
  <2>1. UNCHANGED <<asked, server>>
    BY <1>4 DEF Caller, Process, Spawn, SpawnFails, WriteRequest, BrokenPipe, Collect, Wait,
                ReadUnit, ReadEnd, Write, Close, Exit, Killed, Exits, parentVars
  <2>2. BoundedOK(c)' /\ (server[c] \in Providers => Remaining(c)' < Remaining(c))
    BY <1>4, CallerAdvances, ProcessAdvances
  <2>3. ASSUME NEW d \in Calls \ {c} PROVE Still(d) /\ BoundedOK(d)'
    <3>1. Still(d)
      BY <1>4, OthersStandStill
    <3> QED BY <2>1, <3>1, StillBounded DEF FiniteInv
  <2>4. ASSUME NEW d \in Calls
        PROVE  /\ BoundedOK(d)'
               /\ server[d] \in Providers => Remaining(d)' < Remaining(d) \/ Still(d)
    BY <2>2, <2>3
  <2> QED BY <1>1, <2>4 DEF FiniteInv, Advancing
<1>5. CASE \E p \in Providers : Register(p)
  BY <1>2, <1>5 DEF Register
<1>6. CASE Build
  BY <1>2, <1>6 DEF Build
<1>7. CASE UNCHANGED vars
  BY <1>2, <1>7 DEF vars
<1> QED BY <1>3, <1>4, <1>5, <1>6, <1>7 DEF Next

\* A resolution is finite: what its thread and its process have left is a number, and
\* each step of the two makes it smaller, whatever the script of the command, the sizes
\* and the steps of other resolutions.  So a call can hang only by being blocked, which
\* LargeRequestsOnlyBlock limits to one case, or on a process that does not exit (the
\* loops of write_all and wait_with_output in resolve_key).
THEOREM ResolutionsAreFinite == Spec => []Finite /\ [][Advancing]_vars
<1>1. Init => FiniteInv
  BY FiniteInit
<1>2. FiniteInv /\ [Next]_vars => FiniteInv' /\ Advancing
  BY FiniteStep
<1>3. FiniteInv => Finite
  BY RemainingFinite
<1> QED BY <1>1, <1>2, <1>3, PTL DEF Spec

=============================================================================
