---------------------------- MODULE FfiBoundary ----------------------------
(***************************************************************************)
(* The C ABI (src/src/ffi.rs, src/include/lattix_sdk.h): threads of a      *)
(* foreign caller create clients from JSON options, call the SDK through a *)
(* client handle with JSON arguments, and free what they were given.  A    *)
(* call decodes its arguments one by one, performs the method and returns  *)
(* a string; or it returns null and leaves a message on its thread.        *)
(* Decoding touches nothing that is shared and is one step here.           *)
(*                                                                         *)
(* An argument is represented by whether it decodes.  The caller keeps the *)
(* rules the functions state: it frees what it was given once and uses no  *)
(* freed handle, nor does it free a client that a call of it is using.     *)
(***************************************************************************)
EXTENDS Integers, Sequences

CONSTANTS
    Threads,
    Functions,      \* per thread, the functions it uses
    KeyInputs,      \* what a caller gives for a key: [source, legacy]
    Options,        \* client options: [json, url, providers]
    ClientIds,      \* addresses of client handles
    Addresses,      \* addresses of strings
    Null            \* the null pointer; no message

\* The parts of its arguments each function decodes, in order, before its method.
\* The five planning and recording requests decode as evidence does, whoami and
\* bootstrap as capabilities, generate_cid_binding as prepare, the two protects,
\* accesses and rewraps alike, the attribute editors as access.
Route ==
    [capabilities  |-> <<"handle">>,
     evidence      |-> <<"handle", "json">>,
     prepare       |-> <<"handle", "json", "content">>,
     sign          |-> <<"handle", "json", "signing_key", "content">>,
     verify        |-> <<"handle", "json", "verifying_key", "content", "artifact">>,
     protect       |-> <<"handle", "json", "key", "content">>,
     access        |-> <<"handle", "json", "key", "artifact">>,
     rewrap        |-> <<"handle", "json", "current_key", "new_key", "artifact">>]

KeyParts == {"key", "current_key", "new_key"}

Parts(f) == {Route[f][i] : i \in DOMAIN Route[f]}

\* What can be wrong with a call, and the texts that are handed out.
Flaws ==
    {"json", "provider", "url", "method"} \cup UNION {Parts(f) : f \in DOMAIN Route}
Texts == {"version", "message", "response"}

KeyInput ==
    [source : {"absent", "inline", "malformed", "managed"},
     legacy : {"absent", "inline", "malformed"}]

Provider == [name : STRING, kind : {"in_memory", "command", "other"}, complete : BOOLEAN]

ASSUME BoundaryAssumption ==
    /\ Functions \in [Threads -> SUBSET DOMAIN Route]
    /\ KeyInputs \subseteq KeyInput
    /\ \A o \in Options : o \in [json : BOOLEAN, url : BOOLEAN, providers : Seq(Provider)]
    /\ Null \notin ClientIds \cup Addresses \cup Flaws \cup Texts \cup {"", "ok", "null"}

VARIABLES
    pc,        \* of each thread: idle, decoded, performed, configure
    call,      \* the function and arguments of its call
    did,       \* the keys its method was given, or Null before
    at,        \* the provider it is configuring
    draft,     \* the registry of the client it creates
    flaws,     \* history: what is wrong with its latest call
    last,      \* how its latest call ended: ok, null, or Null before
    slot,      \* LAST_ERROR
    said,      \* what lattix_sdk_last_error_message said of its latest call
    clients,   \* the live clients, by handle
    heap,      \* what kind of text is at each address, or Null
    handed     \* how many pointers to an address the caller has to free

callVars == <<pc, call, did, at, draft, flaws>>
stringVars == <<heap, handed>>
vars == <<callVars, last, slot, said, clients, stringVars>>

NoCall == [f |-> "none"]
NoRegistry == [n \in {} |-> "none"]

-----------------------------------------------------------------------------
(* Strings: into_raw gives the caller an allocation of its own.            *)

\* A text that does not change is kept and handed out again.
Shared(kind) ==
    IF \E a \in Addresses : heap[a] = kind
    THEN {a \in Addresses : heap[a] = kind} ELSE {a \in Addresses : heap[a] = Null}

Fresh(kind) == {a \in Addresses : heap[a] = Null}

HandOut(kind) ==
    \E a \in Fresh(kind) :
        /\ heap' = [heap EXCEPT ![a] = kind]
        /\ handed' = [handed EXCEPT ![a] = @ + 1]

StringFree(a) ==
    /\ handed[a] > 0
    /\ handed' = [handed EXCEPT ![a] = @ - 1]
    /\ heap' = [heap EXCEPT ![a] = Null]
    /\ UNCHANGED <<callVars, last, slot, said, clients>>

Version(t) ==
    /\ pc[t] = "idle"
    /\ HandOut("version")
    /\ UNCHANGED <<callVars, last, slot, said, clients>>

Message(t) == IF slot[t] = Null THEN "" ELSE slot[t]

LastErrorMessage(t) ==
    /\ pc[t] = "idle"
    /\ HandOut("message")
    /\ said' = [said EXCEPT ![t] = Message(t)]
    /\ UNCHANGED <<callVars, last, slot, clients>>

-----------------------------------------------------------------------------
(* ffi_result: the slot of the thread is cleared or set with every result. *)

\* One slot for all threads.
StoreForAll(t, message) == [u \in Threads |-> message]

Store(t, message) == [slot EXCEPT ![t] = message]

Runs(t, c, state) ==
    /\ pc' = [pc EXCEPT ![t] = state]
    /\ call' = [call EXCEPT ![t] = c]
    /\ last' = [last EXCEPT ![t] = Null]
    /\ said' = [said EXCEPT ![t] = Null]

\* The keys of a call outlive it.
EndsKeepingKeys(t) ==
    /\ pc' = [pc EXCEPT ![t] = "idle"]
    /\ call' = [call EXCEPT ![t] = NoCall]
    /\ at' = [at EXCEPT ![t] = 0]
    /\ draft' = [draft EXCEPT ![t] = NoRegistry]
    /\ said' = [said EXCEPT ![t] = Null]
    /\ UNCHANGED did

Ends(t) ==
    /\ pc' = [pc EXCEPT ![t] = "idle"]
    /\ call' = [call EXCEPT ![t] = NoCall]
    /\ did' = [did EXCEPT ![t] = Null]
    /\ at' = [at EXCEPT ![t] = 0]
    /\ draft' = [draft EXCEPT ![t] = NoRegistry]
    /\ said' = [said EXCEPT ![t] = Null]

Succeeds(t) ==
    /\ Ends(t)
    /\ last' = [last EXCEPT ![t] = "ok"]
    /\ slot' = Store(t, Null)

Fails(t, message) ==
    /\ Ends(t)
    /\ last' = [last EXCEPT ![t] = "null"]
    /\ slot' = Store(t, message)

-----------------------------------------------------------------------------
(* The functions of a client.                                              *)

\* A source that does not decode falls back to the legacy field.
FallBack(k) ==
    IF k.source \in {"inline", "managed"} THEN k.source
    ELSE IF k.legacy = "inline" THEN "legacy" ELSE "error"

\* decode_symmetric_key_source: the legacy field counts only without a source.
DecodedKey(k) ==
    CASE k.source \in {"inline", "managed"} -> k.source
      [] k.source = "malformed" -> "error"
      [] OTHER -> IF k.legacy = "inline" THEN "legacy" ELSE "error"

Decodes(c, part) ==
    CASE part = "handle"   -> c.client # Null
      [] part \in KeyParts -> DecodedKey(c.keys[part]) # "error"
      [] OTHER             -> part \notin c.wrong

\* The last part is decoded after the method has run.
AllButLast(f) == 1..(Len(Route[f]) - 1)

Checked(f) == DOMAIN Route[f]

Undecodable(c) == {i \in Checked(c.f) : ~Decodes(c, Route[c.f][i])}

CallFunction(t, c) ==
    /\ pc[t] = "idle"
    /\ flaws' = [flaws EXCEPT ![t] = {p \in Parts(c.f) : ~Decodes(c, p)}]
    /\ IF Undecodable(c) = {}
       THEN Runs(t, c, "decoded") /\ UNCHANGED <<did, at, draft, slot>>
       ELSE \E i \in Undecodable(c) :
                /\ \A j \in Undecodable(c) : i <= j
                /\ Fails(t, Route[c.f][i])
    /\ UNCHANGED <<clients, stringVars>>

\* The method runs, with its requests.
Perform(t) ==
    /\ pc[t] = "decoded"
    /\ pc' = [pc EXCEPT ![t] = "performed"]
    /\ did' = [did EXCEPT ![t] =
           [p \in DOMAIN call[t].keys |-> DecodedKey(call[t].keys[p])]]
    /\ UNCHANGED <<call, at, draft, flaws, last, slot, said, clients, stringVars>>

ReturnResponse(t) ==
    /\ pc[t] = "performed"
    /\ HandOut("response")
    /\ Succeeds(t)
    /\ UNCHANGED <<flaws, clients>>

ReturnError(t) ==
    /\ pc[t] = "performed"
    /\ Fails(t, "method")
    /\ flaws' = [flaws EXCEPT ![t] = {"method"}]
    /\ UNCHANGED <<clients, stringVars>>

-----------------------------------------------------------------------------
(* lattix_sdk_client_new and _free.                                        *)

\* An unknown kind of provider is passed over.
UsableIfKnown(p) == p.kind = "other" \/ p.complete

\* Its kind is known; its keys decode, or its command is there.
Usable(p) == p.kind \in {"in_memory", "command"} /\ p.complete

ClientNew(t, o) ==
    /\ pc[t] = "idle"
    /\ IF o.json
       THEN /\ Runs(t, [f |-> "client_new", options |-> o], "configure")
            /\ at' = [at EXCEPT ![t] = 1]
            /\ UNCHANGED <<did, draft, slot>>
       ELSE Fails(t, "json")
    /\ flaws' = [flaws EXCEPT ![t] = IF o.json THEN {} ELSE {"json"}]
    /\ UNCHANGED <<clients, stringVars>>

Extended(registry, p) ==
    [n \in DOMAIN registry \cup {p.name} |-> IF n = p.name THEN p ELSE registry[n]]

ProvidersLeft(t) == at[t] <= Len(call[t].options.providers)

ConfigureProvider(t) ==
    /\ pc[t] = "configure" /\ ProvidersLeft(t)
    /\ LET p == call[t].options.providers[at[t]] IN
       IF Usable(p)
       THEN /\ draft' = [draft EXCEPT ![t] = Extended(@, p)]
            /\ at' = [at EXCEPT ![t] = @ + 1]
            /\ UNCHANGED <<pc, call, did, flaws, last, slot, said>>
       ELSE /\ Fails(t, "provider")
            /\ flaws' = [flaws EXCEPT ![t] = {"provider"}]
    /\ UNCHANGED <<clients, stringVars>>

\* ClientBuilder::build refuses a blank base URL.
BuildClient(t) ==
    /\ pc[t] = "configure" /\ ~ProvidersLeft(t)
    /\ LET o == call[t].options IN
       IF o.url
       THEN /\ \E h \in ClientIds \ DOMAIN clients :
                   clients' = [x \in DOMAIN clients \cup {h} |->
                       IF x = h THEN [options |-> o, registry |-> draft[t]] ELSE clients[x]]
            /\ Succeeds(t)
            /\ UNCHANGED flaws
       ELSE /\ Fails(t, "url")
            /\ flaws' = [flaws EXCEPT ![t] = {"url"}]
            /\ UNCHANGED clients
    /\ UNCHANGED stringVars

InUse(h) == \E t \in Threads : pc[t] \in {"decoded", "performed"} /\ call[t].client = h

ClientFree(h) ==
    /\ h \in DOMAIN clients /\ ~InUse(h)
    /\ clients' = [x \in DOMAIN clients \ {h} |-> clients[x]]
    /\ UNCHANGED <<callVars, last, slot, said, stringVars>>

-----------------------------------------------------------------------------
Init ==
    /\ pc = [t \in Threads |-> "idle"]
    /\ call = [t \in Threads |-> NoCall]
    /\ at = [t \in Threads |-> 0]
    /\ did = [t \in Threads |-> Null]
    /\ flaws = [t \in Threads |-> {}]
    /\ draft = [t \in Threads |-> NoRegistry]
    /\ last = [t \in Threads |-> Null]
    /\ slot = [t \in Threads |-> Null]
    /\ said = [t \in Threads |-> Null]
    /\ clients = [h \in {} |-> "none"]
    /\ heap = [a \in Addresses |-> Null]
    /\ handed = [a \in Addresses |-> 0]

Arguments(f) ==
    [f : {f}, client : DOMAIN clients \cup {Null},
     wrong : SUBSET (Parts(f) \ (KeyParts \cup {"handle"})),
     keys : [Parts(f) \cap KeyParts -> KeyInputs]]

Thread(t) ==
    \/ Version(t) \/ LastErrorMessage(t)
    \/ \E f \in Functions[t] : \E c \in Arguments(f) : CallFunction(t, c)
    \/ Perform(t) \/ ReturnResponse(t) \/ ReturnError(t)
    \/ \E o \in Options : ClientNew(t, o)
    \/ ConfigureProvider(t) \/ BuildClient(t)

Next ==
    \/ \E t \in Threads : Thread(t)
    \/ \E a \in Addresses : StringFree(a)
    \/ \E h \in ClientIds : ClientFree(h)

Spec == Init /\ [][Next]_vars

-----------------------------------------------------------------------------
(* Properties.                                                             *)

FunctionCall ==
    UNION {[f : {f}, client : ClientIds \cup {Null},
            wrong : SUBSET (Parts(f) \ (KeyParts \cup {"handle"})),
            keys : [Parts(f) \cap KeyParts -> KeyInputs]] : f \in DOMAIN Route}

ThreadsTyped ==
    /\ pc \in [Threads -> {"idle", "decoded", "performed", "configure"}]
    /\ call \in [Threads ->
           {NoCall} \cup FunctionCall \cup [f : {"client_new"}, options : Options]]
    /\ at \in [Threads -> Nat]
    /\ last \in [Threads -> {"ok", "null", Null}]
    /\ slot \in [Threads -> Flaws \cup {Null}]
    /\ said \in [Threads -> Flaws \cup {"", Null}]
    /\ flaws \in [Threads -> SUBSET Flaws]
    /\ DOMAIN did = Threads /\ DOMAIN draft = Threads

StringsTyped ==
    /\ heap \in [Addresses -> Texts \cup {Null}]
    /\ handed \in [Addresses -> Nat]

\* What a thread is at is a stage of its call.
StageOK(t) ==
    /\ pc[t] = "idle" => call[t] = NoCall
    /\ pc[t] = "configure" =>
           /\ call[t] \in [f : {"client_new"}, options : Options]
           /\ at[t] \in 1..(Len(call[t].options.providers) + 1)
    /\ pc[t] \in {"decoded", "performed"} => call[t] \in FunctionCall
    /\ pc[t] # "performed" => did[t] = Null
    /\ pc[t] # "configure" => draft[t] = NoRegistry

\* The type of the state.
TypeOK ==
    /\ ThreadsTyped /\ StringsTyped
    /\ DOMAIN clients \subseteq ClientIds
    /\ \A t \in Threads : StageOK(t)

\* A thread that was given null learns something that is wrong with its own latest
\* call, and one that was not is told nothing, whatever calls other threads make and
\* fail in between and whatever strings and clients are freed (LAST_ERROR, ffi_result).
MessageNamesCause ==
    \A t \in Threads : said[t] # Null =>
        IF last[t] = "null" THEN said[t] \in flaws[t] ELSE said[t] = ""

\* Nothing reaches the SDK, and so the platform, for a call with a malformed part, and
\* the keys used are those the caller named: a key source that does not decode is never
\* made up for by the legacy field (decode_symmetric_key_source and each function).
PerformedAsAsked ==
    \A t \in Threads : did[t] # Null =>
        /\ call[t].client # Null /\ call[t].wrong = {}
        /\ \A p \in DOMAIN call[t].keys :
               LET k == call[t].keys[p] IN
               IF k.source # "absent"
               THEN did[t][p] = k.source /\ k.source # "malformed"
               ELSE did[t][p] = "legacy" /\ k.legacy = "inline"

\* Every pointer to a string can be freed once and then the string is gone: none is
\* handed out twice, and none that was handed out has been freed (into_c_string,
\* lattix_sdk_string_free).
StringsHandedOnce ==
    \A a \in Addresses : handed[a] = IF heap[a] = Null THEN 0 ELSE 1

\* A client exists with all the providers of its options, the last one of each name,
\* or not at all (lattix_sdk_client_new).
ClientsComplete ==
    \A h \in DOMAIN clients :
        LET o == clients[h].options
            registry == clients[h].registry
        IN  /\ o.json /\ o.url
            /\ DOMAIN registry = {o.providers[i].name : i \in DOMAIN o.providers}
            /\ \A i \in DOMAIN o.providers :
                   /\ o.providers[i].kind # "other" /\ o.providers[i].complete
                   /\ (\A j \in DOMAIN o.providers :
                          j > i => o.providers[j].name # o.providers[i].name)
                      => registry[o.providers[i].name] = o.providers[i]

=============================================================================
