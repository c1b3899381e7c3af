-------------------------- MODULE FfiBoundaryProofs --------------------------
(***************************************************************************)
(* What holds at the C ABI for every set of threads, every argument and    *)
(* every options text, and however the calls interleave.                   *)
(***************************************************************************)
EXTENDS FfiBoundary, TLAPS

-----------------------------------------------------------------------------
(***************************************************************************)
(* Routes and arguments.                                                   *)
(***************************************************************************)

\* Every function looks at its handle first, and its parts have names.
LEMMA RouteFacts ==
    ASSUME NEW f \in DOMAIN Route
    PROVE  /\ 1 \in DOMAIN Route[f] /\ Route[f][1] = "handle"
           /\ Parts(f) \subseteq Flaws /\ "handle" \in Parts(f)
           /\ f # "none" /\ f # "client_new"
<1>1. f \in {"capabilities", "evidence", "prepare", "sign", "verify", "protect", "access",
             "rewrap"}
  BY DEF Route
<1>2. 1 \in DOMAIN Route[f] /\ Route[f][1] = "handle"
  BY <1>1 DEF Route
<1>3. Parts(f) \subseteq Flaws
  BY DEF Flaws
<1>4. "handle" \in Parts(f)
  BY <1>2 DEF Parts
<1>5. f # "none" /\ f # "client_new"
  BY <1>1
<1> QED BY <1>2, <1>3, <1>4, <1>5

LEMMA OtherFlaws ==
    "json" \in Flaws /\ "provider" \in Flaws /\ "url" \in Flaws /\ "method" \in Flaws
BY DEF Flaws

\* What a decoded call looks like.
Sound(c) ==
    /\ c.client # Null /\ c.wrong = {}
    /\ \A p \in DOMAIN c.keys : DecodedKey(c.keys[p]) # "error"

LEMMA CallParts ==
    ASSUME NEW c \in FunctionCall
    PROVE  \E f \in DOMAIN Route :
               /\ c.f = f
               /\ c.wrong \subseteq Parts(f) \ (KeyParts \cup {"handle"})
               /\ c.keys \in [Parts(f) \cap KeyParts -> KeyInputs]
<1> DEFINE CallsOf(f) == [f : {f}, client : ClientIds \cup {Null},
                          wrong : SUBSET (Parts(f) \ (KeyParts \cup {"handle"})),
                          keys : [Parts(f) \cap KeyParts -> KeyInputs]]
<1>1. PICK f \in DOMAIN Route : c \in CallsOf(f)
  <2>1. FunctionCall = UNION {CallsOf(f) : f \in DOMAIN Route}
    BY DEF FunctionCall
  <2> HIDE DEF CallsOf
  <2> QED BY <2>1, Zenon
<1>2. c.f \in {f} /\ c.wrong \in SUBSET (Parts(f) \ (KeyParts \cup {"handle"}))
  BY <1>1
<1>3. c.keys \in [Parts(f) \cap KeyParts -> KeyInputs]
  BY <1>1
<1> QED BY <1>1, <1>2, <1>3, Zenon

\* A call whose parts all decode is sound.
LEMMA DecodedIsSound ==
    ASSUME NEW c \in FunctionCall, Undecodable(c) = {}
    PROVE  Sound(c)
<1>1. PICK f \in DOMAIN Route :
          /\ c.f = f
          /\ c.wrong \subseteq Parts(f) \ (KeyParts \cup {"handle"})
          /\ c.keys \in [Parts(f) \cap KeyParts -> KeyInputs]
  BY CallParts
<1>2. ASSUME NEW p \in Parts(f) PROVE Decodes(c, p)
  <2>1. PICK i \in DOMAIN Route[f] : Route[f][i] = p
    BY DEF Parts
  <2> QED BY <1>1, <2>1 DEF Undecodable, Checked
<1>3. c.client # Null
  <2>1. Decodes(c, "handle")
    BY <1>2, RouteFacts
  <2> QED BY <2>1 DEF Decodes, KeyParts
<1>4. c.wrong = {}
  <2>1. ASSUME NEW p \in c.wrong PROVE FALSE
    <3>1. p \in Parts(f) /\ p # "handle" /\ p \notin KeyParts
      BY <1>1, <2>1
    <3>2. Decodes(c, p)
      BY <1>2, <3>1
    <3> QED BY <2>1, <3>1, <3>2 DEF Decodes
  <2> QED BY <2>1
<1>5. ASSUME NEW p \in DOMAIN c.keys PROVE DecodedKey(c.keys[p]) # "error"
  <2>1. p \in Parts(f) /\ p \in KeyParts
    BY <1>1, <1>5
  <2>2. Decodes(c, p) /\ p # "handle"
    BY <1>2, <2>1 DEF KeyParts
  <2> QED BY <2>1, <2>2 DEF Decodes
<1> QED BY <1>3, <1>4, <1>5 DEF Sound

\* The arguments a thread can give are those of a function call.
LEMMA ArgumentsAreCalls ==
    ASSUME TypeOK, NEW t \in Threads, NEW f \in Functions[t], NEW c \in Arguments(f)
    PROVE  /\ f \in DOMAIN Route /\ c \in FunctionCall /\ c.f = f
           /\ c # NoCall
<1>1. f \in DOMAIN Route
  BY BoundaryAssumption
<1>2. c \in [f : {f}, client : ClientIds \cup {Null},
             wrong : SUBSET (Parts(f) \ (KeyParts \cup {"handle"})),
             keys : [Parts(f) \cap KeyParts -> KeyInputs]]
  BY DEF Arguments, TypeOK
<1>3. c.f = f
  BY <1>2
<1>4. c \in FunctionCall
  BY <1>1, <1>2 DEF FunctionCall
<1>5. f # "none"
  BY <1>1, RouteFacts
<1> QED BY <1>1, <1>3, <1>4, <1>5 DEF NoCall

-----------------------------------------------------------------------------
(***************************************************************************)
(* The inductive invariant.                                                *)
(***************************************************************************)

\* The method of a call runs only for a call that decoded, with its keys.
SoundOK(t) ==
    /\ pc[t] \in {"decoded", "performed"} => Sound(call[t])
    /\ pc[t] = "performed" =>
           did[t] = [p \in DOMAIN call[t].keys |-> DecodedKey(call[t].keys[p])]

\* Between its calls the slot of a thread holds the message of the latest one.
MessageOK(t) ==
    /\ pc[t] = "idle" => IF last[t] = "null" THEN slot[t] \in flaws[t] ELSE slot[t] = Null
    /\ said[t] # Null => pc[t] = "idle" /\ said[t] = Message(t)

\* Complete(registry, ps, n): the registry holds the first n of the providers ps.
Complete(registry, ps, n) ==
    /\ DOMAIN registry = {ps[i].name : i \in 1..n}
    /\ \A i \in 1..n :
           /\ Usable(ps[i])
           /\ (\A j \in 1..n : j > i => ps[j].name # ps[i].name) => registry[ps[i].name] = ps[i]

\* The client that is being made has the providers that were configured.
DraftOK(t) ==
    pc[t] = "configure" =>
        /\ call[t].options.json
        /\ Complete(draft[t], call[t].options.providers, at[t] - 1)

ClientOK(h) ==
    /\ clients[h].options \in Options /\ clients[h].options.json /\ clients[h].options.url
    /\ Complete(clients[h].registry, clients[h].options.providers,
                Len(clients[h].options.providers))

BoundaryInv ==
    /\ TypeOK /\ StringsHandedOnce
    /\ \A t \in Threads : SoundOK(t) /\ MessageOK(t) /\ DraftOK(t)
    /\ \A h \in DOMAIN clients : ClientOK(h)

\* Every conjunct by name.
LEMMA InvParts ==
    BoundaryInv <=>
        /\ ThreadsTyped /\ StringsTyped /\ StringsHandedOnce
        /\ DOMAIN clients \subseteq ClientIds
        /\ \A t \in Threads : StageOK(t) /\ SoundOK(t) /\ MessageOK(t) /\ DraftOK(t)
        /\ \A h \in DOMAIN clients : ClientOK(h)
BY DEF BoundaryInv, TypeOK

LEMMA NullIsNew ==
    /\ Null \notin ClientIds /\ Null \notin Addresses /\ Null \notin Flaws /\ Null \notin Texts
    /\ Null # "" /\ Null # "ok" /\ Null # "null"
BY BoundaryAssumption

LEMMA InvInitially == Init => BoundaryInv
<1> SUFFICES ASSUME Init PROVE BoundaryInv
  OBVIOUS
<1>1. ThreadsTyped
  BY DEF Init, ThreadsTyped
<1>2. StringsTyped /\ StringsHandedOnce
  BY DEF Init, StringsTyped, StringsHandedOnce
<1>3. DOMAIN clients = {}
  BY DEF Init
<1>4. ASSUME NEW t \in Threads PROVE StageOK(t) /\ SoundOK(t) /\ MessageOK(t) /\ DraftOK(t)
  BY NullIsNew DEF Init, StageOK, SoundOK, MessageOK, DraftOK
<1> QED BY <1>1, <1>2, <1>3, <1>4, InvParts

-----------------------------------------------------------------------------
(***************************************************************************)
(* Strings.                                                                *)
(***************************************************************************)

\* A new allocation is one nobody has.
LEMMA HandOutKeepsStrings ==
    ASSUME StringsTyped, StringsHandedOnce, NEW kind \in Texts, HandOut(kind)
    PROVE  StringsTyped' /\ StringsHandedOnce'
<1>1. PICK a \in Addresses :
          /\ heap[a] = Null
          /\ heap' = [heap EXCEPT ![a] = kind]
          /\ handed' = [handed EXCEPT ![a] = @ + 1]
  BY DEF HandOut, Fresh
<1>2. handed[a] = 0
  BY <1>1 DEF StringsHandedOnce
<1>3. handed' = [handed EXCEPT ![a] = 1]
  BY <1>1, <1>2
<1>4. StringsTyped'
  BY <1>1, <1>3 DEF StringsTyped
<1>5. ASSUME NEW b \in Addresses PROVE handed'[b] = IF heap'[b] = Null THEN 0 ELSE 1
  BY <1>1, <1>3, NullIsNew DEF StringsTyped, StringsHandedOnce
<1> QED BY <1>4, <1>5 DEF StringsHandedOnce

LEMMA FreeKeepsStrings ==
    ASSUME StringsTyped, StringsHandedOnce, NEW a \in Addresses, StringFree(a)
    PROVE  StringsTyped' /\ StringsHandedOnce'
<1>1. /\ handed' = [handed EXCEPT ![a] = @ - 1] /\ handed[a] > 0
      /\ heap' = [heap EXCEPT ![a] = Null]
  BY DEF StringFree
<1>2. handed[a] = 1
  BY <1>1 DEF StringsHandedOnce
<1>3. handed' = [handed EXCEPT ![a] = 0]
  BY <1>1, <1>2
<1> QED BY <1>1, <1>3 DEF StringsTyped, StringsHandedOnce

-----------------------------------------------------------------------------
(***************************************************************************)
(* How a call starts and ends.                                             *)
(***************************************************************************)

\* The state of a thread.
View(t) == <<pc[t], call[t], did[t], at[t], draft[t], flaws[t], last[t], slot[t], said[t]>>

ThreadOK(t) == StageOK(t) /\ SoundOK(t) /\ MessageOK(t) /\ DraftOK(t)

\* A thread that does nothing is as well as it was.
LEMMA IdleThreads ==
    ASSUME NEW t \in Threads, ThreadOK(t), UNCHANGED View(t)
    PROVE  ThreadOK(t)'
BY DEF ThreadOK, View, StageOK, SoundOK, MessageOK, Message, DraftOK

\* A call that fails leaves a message that names one of its flaws.
LEMMA FailureKeepsInv ==
    ASSUME BoundaryInv, NEW t \in Threads, NEW F \in SUBSET Flaws, NEW m \in F, Fails(t, m),
           flaws' = [flaws EXCEPT ![t] = F], UNCHANGED <<clients, stringVars>>
    PROVE  BoundaryInv'
<1>1. ThreadsTyped /\ m \in Flaws
  BY InvParts
<1>2. /\ pc' = [pc EXCEPT ![t] = "idle"] /\ call' = [call EXCEPT ![t] = NoCall]
      /\ did' = [did EXCEPT ![t] = Null] /\ at' = [at EXCEPT ![t] = 0]
      /\ draft' = [draft EXCEPT ![t] = NoRegistry] /\ said' = [said EXCEPT ![t] = Null]
      /\ last' = [last EXCEPT ![t] = "null"] /\ slot' = [slot EXCEPT ![t] = m]
  BY DEF Fails, Ends, Store
<1>3. ThreadsTyped'
  BY <1>1, <1>2 DEF ThreadsTyped
<1>4. ASSUME NEW u \in Threads, u # t PROVE ThreadOK(u)'
  <2>1. UNCHANGED View(u)
    BY <1>1, <1>2, <1>4 DEF ThreadsTyped, View
  <2> QED BY <2>1, IdleThreads, InvParts DEF ThreadOK
<1>5. ThreadOK(t)'
  <2>1. /\ pc'[t] = "idle" /\ call'[t] = NoCall /\ did'[t] = Null /\ draft'[t] = NoRegistry
        /\ said'[t] = Null /\ last'[t] = "null" /\ slot'[t] = m /\ flaws'[t] = F
    BY <1>1, <1>2 DEF ThreadsTyped
  <2> QED BY <2>1 DEF ThreadOK, StageOK, SoundOK, MessageOK, DraftOK
<1>6. StringsTyped' /\ StringsHandedOnce' /\ (DOMAIN clients \subseteq ClientIds)'
  BY InvParts DEF StringsTyped, StringsHandedOnce, stringVars
<1>7. ASSUME NEW h \in DOMAIN clients' PROVE ClientOK(h)'
  BY InvParts DEF ClientOK
<1> QED BY <1>3, <1>4, <1>5, <1>6, <1>7 DEF ThreadOK, BoundaryInv, TypeOK

\* A call that succeeds leaves no message.
LEMMA SuccessKeepsThreads ==
    ASSUME BoundaryInv, NEW t \in Threads, Succeeds(t), UNCHANGED flaws
    PROVE  ThreadsTyped' /\ \A u \in Threads : ThreadOK(u)'
<1>1. ThreadsTyped
  BY InvParts
<1>2. /\ pc' = [pc EXCEPT ![t] = "idle"] /\ call' = [call EXCEPT ![t] = NoCall]
      /\ did' = [did EXCEPT ![t] = Null] /\ at' = [at EXCEPT ![t] = 0]
      /\ draft' = [draft EXCEPT ![t] = NoRegistry] /\ said' = [said EXCEPT ![t] = Null]
      /\ last' = [last EXCEPT ![t] = "ok"] /\ slot' = [slot EXCEPT ![t] = Null]
  BY DEF Succeeds, Ends, Store
<1>3. ThreadsTyped'
  BY <1>1, <1>2 DEF ThreadsTyped
<1>4. ASSUME NEW u \in Threads, u # t PROVE ThreadOK(u)'
  <2>1. UNCHANGED View(u)
    BY <1>1, <1>2, <1>4 DEF ThreadsTyped, View
  <2> QED BY <2>1, IdleThreads, InvParts DEF ThreadOK
<1>5. ThreadOK(t)'
  <2>1. /\ pc'[t] = "idle" /\ call'[t] = NoCall /\ did'[t] = Null /\ draft'[t] = NoRegistry
        /\ said'[t] = Null /\ last'[t] = "ok" /\ slot'[t] = Null
    BY <1>1, <1>2 DEF ThreadsTyped
  <2> QED BY <2>1 DEF ThreadOK, StageOK, SoundOK, MessageOK, DraftOK
<1> QED BY <1>3, <1>4, <1>5

-----------------------------------------------------------------------------
(***************************************************************************)
(* The steps of a call.                                                    *)
(***************************************************************************)

\* Threads, strings and clients together.
LEMMA InvFromParts ==
    ASSUME ThreadsTyped', StringsTyped', StringsHandedOnce', (DOMAIN clients \subseteq ClientIds)',
           \A t \in Threads : ThreadOK(t)', \A h \in DOMAIN clients' : ClientOK(h)'
    PROVE  BoundaryInv'
BY DEF BoundaryInv, TypeOK, ThreadOK

\* What is not touched stays as it is.
LEMMA ClientsKept ==
    ASSUME BoundaryInv, UNCHANGED clients
    PROVE  (DOMAIN clients \subseteq ClientIds)' /\ \A h \in DOMAIN clients' : ClientOK(h)'
BY InvParts DEF ClientOK

LEMMA StringsKept ==
    ASSUME BoundaryInv, UNCHANGED stringVars
    PROVE  StringsTyped' /\ StringsHandedOnce'
BY InvParts DEF StringsTyped, StringsHandedOnce, stringVars

LEMMA ThreadsKept ==
    ASSUME BoundaryInv, UNCHANGED <<callVars, last, slot, said>>
    PROVE  ThreadsTyped' /\ \A t \in Threads : ThreadOK(t)'
<1>1. ThreadsTyped'
  BY InvParts DEF ThreadsTyped, callVars
<1>2. ASSUME NEW t \in Threads PROVE ThreadOK(t)'
  BY InvParts, IdleThreads DEF ThreadOK, View, callVars
<1> QED BY <1>1, <1>2

LEMMA TextsKeepInv ==
    ASSUME BoundaryInv, NEW t \in Threads, Version(t) \/ LastErrorMessage(t)
    PROVE  BoundaryInv'
<1>1. UNCHANGED clients /\ \E kind \in Texts : HandOut(kind)
  BY DEF Version, LastErrorMessage, Texts
<1>2. StringsTyped' /\ StringsHandedOnce'
  BY <1>1, HandOutKeepsStrings, InvParts
<1>3. CASE Version(t)
  BY <1>1, <1>2, <1>3, ThreadsKept, ClientsKept, InvFromParts DEF Version
<1>4. CASE LastErrorMessage(t)
  <2>1. /\ pc[t] = "idle" /\ said' = [said EXCEPT ![t] = Message(t)]
        /\ UNCHANGED <<pc, call, did, at, draft, flaws, last, slot>>
    BY <1>4 DEF LastErrorMessage, callVars
  <2>2. ThreadsTyped /\ Message(t) \in Flaws \cup {""}
    BY InvParts DEF ThreadsTyped, Message
  <2>3. ThreadsTyped'
    BY <2>1, <2>2 DEF ThreadsTyped
  <2>4. ASSUME NEW u \in Threads PROVE ThreadOK(u)'
    <3>1. ThreadOK(u) /\ said'[u] = IF u = t THEN Message(t) ELSE said[u]
      BY <2>1, <2>2, InvParts DEF ThreadOK, ThreadsTyped
    <3>2. CASE u # t
      BY <2>1, <3>1, <3>2, IdleThreads DEF View
    <3>3. CASE u = t
      BY <2>1, <3>1, <3>3 DEF ThreadOK, StageOK, SoundOK, MessageOK, Message, DraftOK
    <3> QED BY <3>2, <3>3
  <2> QED BY <1>1, <1>2, <2>3, <2>4, ClientsKept, InvFromParts
<1> QED BY <1>3, <1>4

LEMMA FreeKeepsInv ==
    ASSUME BoundaryInv, NEW a \in Addresses, StringFree(a)
    PROVE  BoundaryInv'
<1>1. UNCHANGED <<callVars, last, slot, said, clients>>
  BY DEF StringFree
<1>2. StringsTyped' /\ StringsHandedOnce'
  BY FreeKeepsStrings, InvParts
<1> QED BY <1>1, <1>2, ThreadsKept, ClientsKept, InvFromParts

\* A thread starts a call.
LEMMA StartKeepsThreads ==
    ASSUME BoundaryInv, NEW t \in Threads, NEW c, NEW state, Runs(t, c, state), pc[t] = "idle",
           flaws' = [flaws EXCEPT ![t] = {}], UNCHANGED <<did, draft, slot>>,
           \/ state = "decoded" /\ c \in FunctionCall /\ Sound(c) /\ UNCHANGED at
           \/ /\ state = "configure" /\ at' = [at EXCEPT ![t] = 1]
              /\ c \in [f : {"client_new"}, options : Options] /\ c.options.json
    PROVE  ThreadsTyped' /\ \A u \in Threads : ThreadOK(u)'
<1>1. ThreadsTyped /\ ThreadOK(t)
  BY InvParts DEF ThreadOK
<1>2. /\ pc' = [pc EXCEPT ![t] = state] /\ call' = [call EXCEPT ![t] = c]
      /\ last' = [last EXCEPT ![t] = Null] /\ said' = [said EXCEPT ![t] = Null]
  BY DEF Runs
<1>3. ThreadsTyped'
  <2>1. /\ state \in {"decoded", "configure"}
        /\ c \in {NoCall} \cup FunctionCall \cup [f : {"client_new"}, options : Options]
    OBVIOUS
  <2>2. at \in [Threads -> Nat]
    BY <1>1 DEF ThreadsTyped
  <2>3. at' = at \/ at' = [at EXCEPT ![t] = 1]
    OBVIOUS
  <2>4. at' \in [Threads -> Nat]
    BY <2>2, <2>3
  <2> QED BY <1>1, <1>2, <2>1, <2>4 DEF ThreadsTyped
<1>4. ASSUME NEW u \in Threads, u # t PROVE ThreadOK(u)'
  <2>1. UNCHANGED View(u)
    BY <1>1, <1>2, <1>4 DEF ThreadsTyped, View
  <2> QED BY <2>1, IdleThreads, InvParts DEF ThreadOK
<1>5. /\ pc'[t] = state /\ call'[t] = c /\ said'[t] = Null
      /\ did'[t] = Null /\ draft'[t] = NoRegistry
  BY <1>1, <1>2 DEF ThreadsTyped, ThreadOK, StageOK
<1>6. MessageOK(t)'
  BY <1>5 DEF MessageOK
<1>7. ASSUME state = "decoded" PROVE ThreadOK(t)'
  <2>1. c \in FunctionCall /\ Sound(c)
    BY <1>7
  <2> QED BY <1>5, <1>6, <1>7, <2>1 DEF ThreadOK, StageOK, SoundOK, DraftOK
<1>8. ASSUME state = "configure" PROVE ThreadOK(t)'
  <2>1. /\ at'[t] = 1 /\ c \in [f : {"client_new"}, options : Options] /\ c.options.json
    BY <1>1, <1>8 DEF ThreadsTyped
  <2>2. Len(c.options.providers) \in Nat
    <3>1. c.options \in Options
      BY <2>1
    <3>2. c.options.providers \in Seq(Provider)
      BY <3>1, BoundaryAssumption
    <3> QED BY <3>2
  <2>3. StageOK(t)'
    BY <1>5, <1>8, <2>1, <2>2 DEF StageOK
  <2>4. Complete(NoRegistry, c.options.providers, 0)
    BY DEF Complete, NoRegistry
  <2>5. DraftOK(t)'
    BY <1>5, <2>1, <2>4 DEF DraftOK
  <2> QED BY <1>5, <1>6, <1>8, <2>3, <2>5 DEF ThreadOK, SoundOK
<1>9. ThreadOK(t)'
  BY <1>7, <1>8
<1> QED BY <1>3, <1>4, <1>9

LEMMA CallKeepsInv ==
    ASSUME BoundaryInv, NEW t \in Threads, NEW f \in Functions[t], NEW c \in Arguments(f),
           CallFunction(t, c)
    PROVE  BoundaryInv'
<1>1. f \in DOMAIN Route /\ c \in FunctionCall /\ c.f = f
  BY ArgumentsAreCalls DEF BoundaryInv
<1> DEFINE F == {p \in Parts(f) : ~Decodes(c, p)}
<1>2. /\ pc[t] = "idle" /\ flaws' = [flaws EXCEPT ![t] = F]
      /\ UNCHANGED <<clients, stringVars>>
  BY <1>1 DEF CallFunction
<1>3. CASE Undecodable(c) = {}
  <2>1. Sound(c)
    BY <1>1, <1>3, DecodedIsSound
  <2>2. F = {}
    BY <1>1, <1>3 DEF Undecodable, Checked, Parts
  <2>3. Runs(t, c, "decoded") /\ UNCHANGED <<did, at, draft, slot>>
    BY <1>3 DEF CallFunction
  <2>4. ThreadsTyped' /\ \A u \in Threads : ThreadOK(u)'
    BY <1>1, <1>2, <2>1, <2>2, <2>3, StartKeepsThreads
  <2> QED BY <1>2, <2>4, ClientsKept, StringsKept, InvFromParts
<1>4. CASE Undecodable(c) # {}
  <2>1. PICK i \in Undecodable(c) : Fails(t, Route[c.f][i])
    BY <1>4 DEF CallFunction
  <2>2. Route[c.f][i] \in F
    BY <1>1, <2>1 DEF Undecodable, Checked, Parts
  <2>3. F \in SUBSET Flaws
    BY <1>1, RouteFacts
  <2> QED BY <1>2, <2>1, <2>2, <2>3, FailureKeepsInv
<1> QED BY <1>3, <1>4

LEMMA PerformKeepsInv ==
    ASSUME BoundaryInv, NEW t \in Threads, Perform(t)
    PROVE  BoundaryInv'
<1>1. ThreadsTyped /\ ThreadOK(t)
  BY InvParts DEF ThreadOK
<1> DEFINE keys == [p \in DOMAIN call[t].keys |-> DecodedKey(call[t].keys[p])]
<1>2. /\ pc[t] = "decoded" /\ pc' = [pc EXCEPT ![t] = "performed"]
      /\ did' = [did EXCEPT ![t] = keys]
      /\ UNCHANGED <<call, at, draft, flaws, last, slot, said, clients, stringVars>>
  BY DEF Perform
<1>3. ThreadsTyped'
  BY <1>1, <1>2 DEF ThreadsTyped
<1>4. ASSUME NEW u \in Threads, u # t PROVE ThreadOK(u)'
  <2>1. UNCHANGED View(u)
    BY <1>1, <1>2, <1>4 DEF ThreadsTyped, View
  <2> QED BY <2>1, IdleThreads, InvParts DEF ThreadOK
<1>5. ThreadOK(t)'
  <2>1. pc'[t] = "performed" /\ did'[t] = keys
    BY <1>1, <1>2 DEF ThreadsTyped
  <2> QED BY <1>1, <1>2, <2>1 DEF ThreadOK, StageOK, SoundOK, MessageOK, Message, DraftOK
<1> QED BY <1>2, <1>3, <1>4, <1>5, ClientsKept, StringsKept, InvFromParts

LEMMA ReturnKeepsInv ==
    ASSUME BoundaryInv, NEW t \in Threads, ReturnResponse(t) \/ ReturnError(t)
    PROVE  BoundaryInv'
<1>1. CASE ReturnResponse(t)
  <2>1. HandOut("response") /\ Succeeds(t) /\ UNCHANGED <<flaws, clients>>
    BY <1>1 DEF ReturnResponse
  <2>2. StringsTyped' /\ StringsHandedOnce'
    BY <2>1, HandOutKeepsStrings, InvParts DEF Texts
  <2> QED BY <2>1, <2>2, SuccessKeepsThreads, ClientsKept, InvFromParts
<1>2. CASE ReturnError(t)
  <2>1. /\ Fails(t, "method") /\ flaws' = [flaws EXCEPT ![t] = {"method"}]
        /\ UNCHANGED <<clients, stringVars>>
    BY <1>2 DEF ReturnError
  <2>2. {"method"} \in SUBSET Flaws /\ "method" \in {"method"}
    BY OtherFlaws
  <2> QED BY <2>1, <2>2, FailureKeepsInv
<1> QED BY <1>1, <1>2

-----------------------------------------------------------------------------
(***************************************************************************)
(* Clients.                                                                *)
(***************************************************************************)

\* One provider more.
LEMMA CompleteExtended ==
    ASSUME NEW registry, NEW ps \in Seq(Provider), NEW n \in 1..Len(ps), Usable(ps[n]),
           Complete(registry, ps, n - 1)
    PROVE  Complete(Extended(registry, ps[n]), ps, n)
<1> DEFINE new == Extended(registry, ps[n])
<1>1. n \in Nat \ {0} /\ 1..n = 1..(n - 1) \cup {n}
  OBVIOUS
<1>2. DOMAIN new = {ps[i].name : i \in 1..n}
  BY <1>1 DEF Complete, Extended
<1>3. ASSUME NEW i \in 1..n
      PROVE  /\ Usable(ps[i])
             /\ (\A j \in 1..n : j > i => ps[j].name # ps[i].name) => new[ps[i].name] = ps[i]
  <2>1. ps[i].name \in DOMAIN new
    BY <1>2
  <2>2. CASE i = n
    BY <2>1, <2>2 DEF Extended
  <2>3. CASE i # n
    <3>1. i \in 1..(n - 1) /\ n > i
      BY <1>1, <2>3
    <3>2. /\ Usable(ps[i])
          /\ (\A j \in 1..(n - 1) : j > i => ps[j].name # ps[i].name) =>
                 registry[ps[i].name] = ps[i]
      BY <3>1 DEF Complete
    <3>3. ASSUME \A j \in 1..n : j > i => ps[j].name # ps[i].name
          PROVE  new[ps[i].name] = ps[i]
      <4>1. ps[i].name # ps[n].name /\ registry[ps[i].name] = ps[i]
        BY <1>1, <3>1, <3>2, <3>3
      <4> QED BY <2>1, <4>1 DEF Extended
    <3> QED BY <3>2, <3>3
  <2> QED BY <2>2, <2>3
<1> QED BY <1>2, <1>3 DEF Complete

LEMMA NewKeepsInv ==
    ASSUME BoundaryInv, NEW t \in Threads, NEW o \in Options, ClientNew(t, o)
    PROVE  BoundaryInv'
<1>1. /\ pc[t] = "idle" /\ UNCHANGED <<clients, stringVars>>
      /\ flaws' = [flaws EXCEPT ![t] = IF o.json THEN {} ELSE {"json"}]
  BY DEF ClientNew
<1>2. CASE o.json
  <2> DEFINE c == [f |-> "client_new", options |-> o]
  <2>1. /\ Runs(t, c, "configure") /\ at' = [at EXCEPT ![t] = 1]
        /\ UNCHANGED <<did, draft, slot>>
    BY <1>2 DEF ClientNew
  <2>2. c \in [f : {"client_new"}, options : Options] /\ c.options.json
    BY <1>2
  <2>3. flaws' = [flaws EXCEPT ![t] = {}]
    BY <1>1, <1>2
  <2>4. ThreadsTyped' /\ \A u \in Threads : ThreadOK(u)'
    BY <1>1, <2>1, <2>2, <2>3, StartKeepsThreads
  <2> QED BY <1>1, <2>4, ClientsKept, StringsKept, InvFromParts
<1>3. CASE ~o.json
  <2>1. Fails(t, "json") /\ flaws' = [flaws EXCEPT ![t] = {"json"}]
    BY <1>1, <1>3 DEF ClientNew
  <2>2. {"json"} \in SUBSET Flaws
    BY OtherFlaws
  <2> QED BY <1>1, <2>1, <2>2, FailureKeepsInv
<1> QED BY <1>2, <1>3

LEMMA ConfigureKeepsInv ==
    ASSUME BoundaryInv, NEW t \in Threads, ConfigureProvider(t)
    PROVE  BoundaryInv'
<1> DEFINE ps == call[t].options.providers
<1>1. /\ pc[t] = "configure" /\ at[t] <= Len(ps) /\ UNCHANGED <<clients, stringVars>>
  BY DEF ConfigureProvider, ProvidersLeft
<1>2. ThreadsTyped /\ ThreadOK(t)
  BY InvParts DEF ThreadOK
<1>3. /\ call[t] \in [f : {"client_new"}, options : Options]
      /\ at[t] \in 1..(Len(ps) + 1)
      /\ call[t].options.json /\ Complete(draft[t], ps, at[t] - 1)
  BY <1>1, <1>2 DEF ThreadOK, StageOK, DraftOK
<1>4. ps \in Seq(Provider)
  <2>1. call[t].options \in Options
    BY <1>3
  <2> QED BY <2>1, BoundaryAssumption
<1>5. CASE Usable(ps[at[t]])
  <2>1. /\ draft' = [draft EXCEPT ![t] = Extended(draft[t], ps[at[t]])]
        /\ at' = [at EXCEPT ![t] = at[t] + 1]
        /\ UNCHANGED <<pc, call, did, flaws, last, slot, said>>
    BY <1>5 DEF ConfigureProvider
  <2>2. at[t] \in 1..Len(ps) /\ at[t] \in Nat
    BY <1>1, <1>3, <1>4
  <2>3. ThreadsTyped'
    <3>1. at' \in [Threads -> Nat]
      <4>1. at \in [Threads -> Nat]
        BY <1>2 DEF ThreadsTyped
      <4>2. at[t] + 1 \in Nat
        BY <2>2
      <4>3. at' = [at EXCEPT ![t] = at[t] + 1]
        BY <2>1
      <4> QED BY <4>1, <4>2, <4>3
    <3> QED BY <1>2, <2>1, <3>1 DEF ThreadsTyped
  <2>4. ASSUME NEW u \in Threads, u # t PROVE ThreadOK(u)'
    <3>1. UNCHANGED View(u)
      BY <1>2, <2>1, <2>4 DEF ThreadsTyped, View
    <3> QED BY <3>1, IdleThreads, InvParts DEF ThreadOK
  <2>5. ThreadOK(t)'
    <3>1. at'[t] = at[t] + 1 /\ draft'[t] = Extended(draft[t], ps[at[t]])
      BY <1>2, <2>1 DEF ThreadsTyped
    <3>2. Complete(draft'[t], ps, at'[t] - 1)
      <4>1. Complete(Extended(draft[t], ps[at[t]]), ps, at[t])
        BY <1>3, <1>4, <1>5, <2>2, CompleteExtended
      <4> QED BY <2>2, <3>1, <4>1
    <3>3. StageOK(t)'
      BY <1>1, <1>2, <1>3, <1>4, <2>1, <2>2, <3>1 DEF ThreadOK, StageOK
    <3>4. DraftOK(t)'
      BY <1>3, <2>1, <3>2 DEF DraftOK
    <3>5. SoundOK(t)' /\ MessageOK(t)'
      BY <1>2, <2>1 DEF ThreadOK, SoundOK, MessageOK, Message
    <3> QED BY <3>3, <3>4, <3>5 DEF ThreadOK
  <2> QED BY <1>1, <2>3, <2>4, <2>5, ClientsKept, StringsKept, InvFromParts
<1>6. CASE ~Usable(ps[at[t]])
  <2>1. Fails(t, "provider") /\ flaws' = [flaws EXCEPT ![t] = {"provider"}]
    BY <1>6 DEF ConfigureProvider
  <2>2. {"provider"} \in SUBSET Flaws
    BY OtherFlaws
  <2> QED BY <1>1, <2>1, <2>2, FailureKeepsInv
<1> QED BY <1>5, <1>6

LEMMA BuildKeepsInv ==
    ASSUME BoundaryInv, NEW t \in Threads, BuildClient(t)
    PROVE  BoundaryInv'
<1> DEFINE o == call[t].options
<1>1. pc[t] = "configure" /\ ~(at[t] <= Len(o.providers)) /\ UNCHANGED stringVars
  BY DEF BuildClient, ProvidersLeft
<1>2. ThreadsTyped /\ ThreadOK(t)
  BY InvParts DEF ThreadOK
<1>3. /\ call[t] \in [f : {"client_new"}, options : Options]
      /\ at[t] \in 1..(Len(o.providers) + 1)
      /\ o.json /\ Complete(draft[t], o.providers, at[t] - 1)
  BY <1>1, <1>2 DEF ThreadOK, StageOK, DraftOK
<1>4. o \in Options /\ Len(o.providers) \in Nat
  <2>1. o \in Options
    BY <1>3
  <2>2. o.providers \in Seq(Provider)
    BY <2>1, BoundaryAssumption
  <2> QED BY <2>1, <2>2
<1>5. Complete(draft[t], o.providers, Len(o.providers))
  <2>1. at[t] - 1 = Len(o.providers)
    BY <1>1, <1>3, <1>4
  <2> QED BY <1>3, <2>1
<1>6. CASE o.url
  <2>1. PICK h \in ClientIds \ DOMAIN clients :
            clients' = [x \in DOMAIN clients \cup {h} |->
                IF x = h THEN [options |-> o, registry |-> draft[t]] ELSE clients[x]]
    BY <1>6 DEF BuildClient
  <2>2. Succeeds(t) /\ UNCHANGED flaws
    BY <1>6 DEF BuildClient
  <2>3. (DOMAIN clients \subseteq ClientIds)'
    BY <2>1, InvParts
  <2>4. ASSUME NEW x \in DOMAIN clients' PROVE ClientOK(x)'
    <3>1. CASE x = h
      <4>1. clients'[x] = [options |-> o, registry |-> draft[t]]
        BY <2>1, <3>1
      <4>2. clients'[x].options = o /\ clients'[x].registry = draft[t]
        BY <4>1
      <4> QED BY <1>3, <1>4, <1>5, <1>6, <4>2 DEF ClientOK
    <3>2. CASE x # h
      <4>1. x \in DOMAIN clients /\ clients'[x] = clients[x]
        BY <2>1, <2>4, <3>2
      <4> QED BY <4>1, InvParts DEF ClientOK
    <3> QED BY <3>1, <3>2
  <2>5. ThreadsTyped' /\ \A u \in Threads : ThreadOK(u)'
    BY <2>2, SuccessKeepsThreads
  <2> QED BY <1>1, <2>3, <2>4, <2>5, StringsKept, InvFromParts
<1>7. CASE ~o.url
  <2>1. /\ Fails(t, "url") /\ flaws' = [flaws EXCEPT ![t] = {"url"}]
        /\ UNCHANGED clients
    BY <1>7 DEF BuildClient
  <2>2. {"url"} \in SUBSET Flaws
    BY OtherFlaws
  <2> QED BY <1>1, <2>1, <2>2, FailureKeepsInv
<1> QED BY <1>6, <1>7

LEMMA ClientFreeKeepsInv ==
    ASSUME BoundaryInv, NEW h \in ClientIds, ClientFree(h)
    PROVE  BoundaryInv'
<1>1. /\ clients' = [x \in DOMAIN clients \ {h} |-> clients[x]]
      /\ UNCHANGED <<callVars, last, slot, said, stringVars>>
  BY DEF ClientFree
<1>2. (DOMAIN clients \subseteq ClientIds)'
  BY <1>1, InvParts
<1>3. ASSUME NEW x \in DOMAIN clients' PROVE ClientOK(x)'
  <2>1. x \in DOMAIN clients /\ clients'[x] = clients[x]
    BY <1>1, <1>3
  <2> QED BY <2>1, InvParts DEF ClientOK
<1> QED BY <1>1, <1>2, <1>3, ThreadsKept, StringsKept, InvFromParts

-----------------------------------------------------------------------------
(***************************************************************************)
(* The theorems.                                                           *)
(***************************************************************************)

LEMMA StepKeepsInv ==
    ASSUME BoundaryInv, [Next]_vars
    PROVE  BoundaryInv'
<1>1. ASSUME NEW t \in Threads, Thread(t) PROVE BoundaryInv'
  BY <1>1, TextsKeepInv, CallKeepsInv, PerformKeepsInv, ReturnKeepsInv, NewKeepsInv,
     ConfigureKeepsInv, BuildKeepsInv DEF Thread
<1>2. CASE UNCHANGED vars
  BY <1>2, ThreadsKept, StringsKept, ClientsKept, InvFromParts DEF vars
<1> QED BY <1>1, <1>2, FreeKeepsInv, ClientFreeKeepsInv DEF Next

LEMMA InvAlways == Spec => []BoundaryInv
BY InvInitially, StepKeepsInv, PTL DEF Spec

\* The state has its type, whatever the threads call.
THEOREM TypeCorrect == Spec => []TypeOK
<1>1. BoundaryInv => TypeOK
  BY DEF BoundaryInv
<1> QED BY <1>1, InvAlways, PTL

\* The message a thread reads is about its own latest call, for any number of threads
\* (LAST_ERROR, ffi_result).
THEOREM MessagesNameCauses == Spec => []MessageNamesCause
<1>1. ASSUME BoundaryInv, NEW t \in Threads, said[t] # Null
      PROVE  IF last[t] = "null" THEN said[t] \in flaws[t] ELSE said[t] = ""
  <2>1. /\ said[t] = Message(t)
        /\ IF last[t] = "null" THEN slot[t] \in flaws[t] ELSE slot[t] = Null
        /\ flaws[t] \subseteq Flaws
    BY <1>1, InvParts DEF MessageOK, ThreadsTyped
  <2> QED BY <2>1, NullIsNew DEF Message
<1>2. BoundaryInv => MessageNamesCause
  BY <1>1 DEF MessageNamesCause
<1> QED BY <1>2, InvAlways, PTL

\* A method runs for well-formed arguments only, with the keys that were named
\* (decode_symmetric_key_source and every function of a client).
THEOREM CallsPerformedAsAsked == Spec => []PerformedAsAsked
<1>1. ASSUME BoundaryInv, NEW t \in Threads, did[t] # Null
      PROVE  /\ call[t].client # Null /\ call[t].wrong = {}
             /\ \A p \in DOMAIN call[t].keys :
                    LET k == call[t].keys[p] IN
                    IF k.source # "absent"
                    THEN did[t][p] = k.source /\ k.source # "malformed"
                    ELSE did[t][p] = "legacy" /\ k.legacy = "inline"
  <2>1. /\ pc[t] = "performed" /\ Sound(call[t]) /\ call[t] \in FunctionCall
        /\ did[t] = [p \in DOMAIN call[t].keys |-> DecodedKey(call[t].keys[p])]
    BY <1>1, InvParts DEF StageOK, SoundOK
  <2>2. ASSUME NEW p \in DOMAIN call[t].keys
        PROVE  LET k == call[t].keys[p] IN
               IF k.source # "absent"
               THEN did[t][p] = k.source /\ k.source # "malformed"
               ELSE did[t][p] = "legacy" /\ k.legacy = "inline"
    <3> DEFINE k == call[t].keys[p]
    <3>1. did[t][p] = DecodedKey(k) /\ DecodedKey(k) # "error"
      BY <2>1, <2>2 DEF Sound
    <3>2. k.source \in {"absent", "inline", "malformed", "managed"}
      <4>1. k \in KeyInputs
        <5>1. PICK f \in DOMAIN Route : call[t].keys \in [Parts(f) \cap KeyParts -> KeyInputs]
          BY <2>1, CallParts
        <5> QED BY <2>2, <5>1
      <4> QED BY <4>1, BoundaryAssumption DEF KeyInput
    <3> QED BY <3>1, <3>2 DEF DecodedKey
  <2> QED BY <2>1, <2>2 DEF Sound
<1>2. BoundaryInv => PerformedAsAsked
  BY <1>1 DEF PerformedAsAsked
<1> QED BY <1>2, InvAlways, PTL

\* No string is handed out twice or freed while it is out, in every interleaving
\* (into_c_string, lattix_sdk_string_free).
THEOREM StringsAreHandedOnce == Spec => []StringsHandedOnce
<1>1. BoundaryInv => StringsHandedOnce
  BY DEF BoundaryInv
<1> QED BY <1>1, InvAlways, PTL

\* A client has all the providers of its options, for every list of providers
\* (lattix_sdk_client_new).
THEOREM ClientsAreComplete == Spec => []ClientsComplete
<1>1. ASSUME BoundaryInv, NEW h \in DOMAIN clients
      PROVE  LET o == clients[h].options
                 registry == clients[h].registry
             IN  /\ o.json /\ o.url
                 /\ DOMAIN registry = {o.providers[i].name : i \in DOMAIN o.providers}
                 /\ \A i \in DOMAIN o.providers :
                        /\ o.providers[i].kind # "other" /\ o.providers[i].complete
                        /\ (\A j \in DOMAIN o.providers :
                               j > i => o.providers[j].name # o.providers[i].name)
                           => registry[o.providers[i].name] = o.providers[i]
  <2>1. ClientOK(h)
    BY <1>1, InvParts
  <2>2. clients[h].options.providers \in Seq(Provider)
    BY <2>1, BoundaryAssumption DEF ClientOK
  <2>3. DOMAIN clients[h].options.providers = 1..Len(clients[h].options.providers)
    BY <2>2
  <2> QED BY <2>1, <2>3 DEF ClientOK, Complete, Usable
<1>2. BoundaryInv => ClientsComplete
  BY <1>1 DEF ClientsComplete
<1> QED BY <1>2, InvAlways, PTL

=============================================================================
