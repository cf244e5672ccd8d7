--------------------------------- MODULE Rpc ---------------------------------
(***************************************************************************)
(* The RPC library of P8: the client stubs (client.c), the server's main   *)
(* loop and its detached threads (server.c), and the key-value store       *)
(* (server_functions.c), connected by UDP, which may lose, duplicate,      *)
(* delay and reorder datagrams.                                            *)
(***************************************************************************)
EXTENDS Integers, FiniteSets

CONSTANTS
    Clients,    \* client processes, each with its own socket
    Ids,        \* client ids, rand() % 100
    Keys,       \* keys of get and put; NUMKEYS, which passes their test but is past the
                \* end of datastore, is not among them
    Refused,    \* the keys among them below 0 or above NUMKEYS
    Values,     \* values put under a key
    Residue,    \* what the ack field of a buffer nothing was received into may hold
    Retries,    \* sends of a call before it gives up, 5 in the code
    MaxSeq,     \* bound on the calls of a client
    MaxLost,    \* bound on the datagrams lost
    None

Returns == Values \cup {0, -1}
Seqs == 1 .. MaxSeq
Types == {"idle", "get", "put"}

\* The part of a payload that says what to do.
Ops == [type: Types, key: Keys \cup {None}, value: Values \cup {None}]

ASSUME ValuesAssumption == Values \subseteq Int /\ Refused \subseteq Keys /\ Keys # {} /\ Residue \subseteq Int
ASSUME BoundsAssumption == Retries \in Nat \ {0} /\ MaxSeq \in Nat /\ MaxLost \in Nat
ASSUME NoneAssumption == None \notin Keys \cup Values \cup {0, 1} \cup Ops

\* A datagram: struct st_payload, and the client whose socket it comes from or
\* goes to.  ack = None marks a request, 0 and 1 the two kinds of reply.
Payload ==
    {m \in [from: Clients, type: Types, clientId: Ids, seqNumber: Seqs,
            key: Keys \cup {None}, value: Values \cup {None},
            ack: {None, 0, 1}, returnValue: Returns] :
        /\ m.type # "idle" => m.key \in Keys
        /\ m.type = "put" => m.value \in Values}

VARIABLES
    \* the clients
    pc,         \* "new", "ready", "wait" for a reply, "sleep", or "dead" after exit(1)
    client_id,
    seq_number,
    req,        \* the payload of the last call
    tries,      \* i in the loop of the call
    got,        \* what the last call returned
    \* the network
    net,        \* requests (ack = None) and replies under way or duplicated
    lost,       \* how many datagrams were lost
    \* the server
    known,      \* ids with an entry in payloadTable
    table,      \* the fields seqNumber and returnValue of payloadTable
    threads,    \* the threads created so far
    datastore,
    executed,   \* history: how often the server executed a call
    asked       \* history: what the client asked for in a call

client == <<pc, client_id, seq_number, req, tries, got, asked>>
server == <<known, table, threads, datastore, executed>>
vars == <<client, net, lost, server>>

Calls == Clients \X Seqs
CallOf(m) == <<m.from, m.seqNumber>>

Op(m) == [type |-> m.type, key |-> m.key, value |-> m.value]

Threads == [req: Payload, stage: {"run", "reply", "done"}, retVal: Returns]

TypeOK ==
    /\ pc \in [Clients -> {"new", "ready", "wait", "sleep", "dead"}]
    /\ client_id \in [Clients -> Ids]
    /\ seq_number \in [Clients -> 1 .. MaxSeq + 1]
    /\ req \in [Clients -> Payload \cup {None}]
    /\ \A c \in Clients : pc[c] \in {"wait", "sleep"} =>
          /\ req[c] \in Payload /\ req[c].from = c /\ req[c].ack = None
          /\ tries[c] < Retries
    /\ tries \in [Clients -> 0 .. Retries]
    /\ got \in [Clients -> Returns]
    /\ net \subseteq Payload
    /\ lost \in 0 .. MaxLost
    /\ known \subseteq Ids
    /\ table \in [Ids -> [seqNumber: 0 .. MaxSeq, returnValue: Returns]]
    /\ threads \subseteq Threads
    /\ datastore \in [Keys -> Values \cup {0}]
    /\ executed \in [Calls -> Nat]
    /\ asked \in [Calls -> Ops \cup {None}]

\* RPC_init has not been called; client_id is what rand() will give.
Init ==
    /\ pc = [c \in Clients |-> "new"]
    /\ client_id \in [Clients -> Ids]
    /\ seq_number = [c \in Clients |-> 1]
    /\ req = [c \in Clients |-> None]
    /\ tries = [c \in Clients |-> 0]
    /\ got = [c \in Clients |-> 0]
    /\ net = {}
    /\ lost = 0
    /\ known = {}
    /\ table = [i \in Ids |-> [seqNumber |-> 0, returnValue |-> -1]]
    /\ threads = {}
    /\ datastore = [k \in Keys |-> 0]
    /\ executed = [x \in Calls |-> 0]
    /\ asked = [x \in Calls |-> None]
-----------------------------------------------------------------------------
\* client.c

RPC_init(c) ==
    /\ pc[c] = "new"
    /\ pc' = [pc EXCEPT ![c] = "ready"]
    /\ UNCHANGED <<client_id, seq_number, req, tries, got, asked, net, lost, server>>

\* The common part of the three stubs: number the request and send it.
Send(c, type, key, value) ==
    LET m == [from |-> c, type |-> type, clientId |-> client_id[c],
              seqNumber |-> seq_number[c], key |-> key, value |-> value,
              ack |-> None, returnValue |-> -1]
    IN  /\ pc[c] = "ready"
        /\ seq_number[c] <= MaxSeq
        /\ pc' = [pc EXCEPT ![c] = "wait"]
        /\ seq_number' = [seq_number EXCEPT ![c] = @ + 1]
        /\ req' = [req EXCEPT ![c] = m]
        /\ tries' = [tries EXCEPT ![c] = 0]
        /\ asked' = [asked EXCEPT ![CallOf(m)] = Op(m)]
        /\ net' = net \cup {m}
        /\ UNCHANGED <<client_id, got, lost, server>>

RPC_idle(c) == Send(c, "idle", None, None)

RPC_get(c, k) == Send(c, "get", k, None)

RPC_put(c, k, v) == Send(c, "put", k, v)

\* The call returns r.
Return(c, r) ==
    /\ pc' = [pc EXCEPT ![c] = "ready"]
    /\ got' = [got EXCEPT ![c] = r]
    /\ UNCHANGED <<client_id, seq_number, req, tries, asked, net, lost, server>>

\* The next round of the loop, with i = n: send again, or give up.  get and put
\* then exit(1); idle just returns.
Retry(c, n) ==
    /\ tries' = [tries EXCEPT ![c] = n]
    /\ IF n < Retries
       THEN /\ net' = net \cup {req[c]}
            /\ pc' = [pc EXCEPT ![c] = "wait"]
       ELSE /\ pc' = [pc EXCEPT ![c] = IF req[c].type = "idle" THEN "ready" ELSE "dead"]
            /\ UNCHANGED net
    /\ UNCHANGED <<client_id, seq_number, req, got, asked, lost, server>>

\* ack = 1: put returns, get returns unless the value is -1, and idle and get
\* otherwise sleep for a second, ...
Acked(c, r) ==
    IF req[c].type = "put" \/ (req[c].type = "get" /\ r # -1)
    THEN Return(c, r)
    ELSE /\ pc' = [pc EXCEPT ![c] = "sleep"]
         /\ UNCHANGED <<client_id, seq_number, req, tries, got, asked, net, lost, server>>

\* ... to start over with i = 0, which the loop increments.
sleep(c) == pc[c] = "sleep" /\ Retry(c, 1)

\* A datagram arrives.  Nobody compares its sequence number with the request's.
receive_packet(c, m) ==
    /\ pc[c] = "wait"
    /\ m \in net
    /\ m.from = c
    /\ m.ack # None
    /\ IF m.ack = 1 THEN Acked(c, m.returnValue) ELSE Return(c, m.returnValue)

\* receive_packet_timeout returns after a second, and the stub looks at the ack
\* field of the buffer before it looks at recv_len.
timeout(c) ==
    /\ pc[c] = "wait"
    /\ \E a \in Residue, r \in Returns :
          IF a = 1 THEN Acked(c, r) ELSE Retry(c, tries[c] + 1)
-----------------------------------------------------------------------------
\* server.c and server_functions.c

serve_NumberKept(m) ==
    /\ m \in net
    /\ m.ack = None
    /\ m.clientId \in known => table[m.clientId].seqNumber < m.seqNumber
    /\ known' = known \cup {m.clientId}
    /\ table' = [table EXCEPT ![m.clientId] =
                    [seqNumber |-> @.seqNumber,
                     returnValue |-> IF m.clientId \in known THEN @.returnValue ELSE -1]]
    /\ threads' = threads \cup {[req |-> m, stage |-> "run", retVal |-> 0]}
    /\ UNCHANGED <<client, net, lost, datastore, executed>>

\* One round of the main loop: a first request enters the client into the table;
\* a higher number than the last starts a thread, ...
serve(m) ==
    /\ m \in net
    /\ m.ack = None
    /\ m.clientId \in known => table[m.clientId].seqNumber < m.seqNumber
    /\ known' = known \cup {m.clientId}
    /\ table' = [table EXCEPT ![m.clientId] =
                    [seqNumber |-> m.seqNumber,
                     returnValue |-> IF m.clientId \in known THEN @.returnValue ELSE -1]]
    /\ threads' = threads \cup {[req |-> m, stage |-> "run", retVal |-> 0]}
    /\ UNCHANGED <<client, net, lost, datastore, executed>>

\* ... the same number is answered with ack = 1 and the value in the table, and
\* a lower one is discarded.
acknowledge(m) ==
    LET entry == table[m.clientId] IN
    /\ m \in net
    /\ m.ack = None
    /\ m.clientId \in known
    /\ entry.seqNumber = m.seqNumber
    /\ net' = net \cup {[m EXCEPT !.ack = 1, !.returnValue = entry.returnValue]}
    /\ UNCHANGED <<client, lost, server>>

Advance(t, stage, ret) ==
    threads' = (threads \ {t}) \cup {[t EXCEPT !.stage = stage, !.retVal = ret]}

\* What get returns, and the store after put, whose result is not kept.
get(key) == IF key \in Refused THEN -1 ELSE datastore[key]
put(key, value) == IF key \in Refused THEN datastore ELSE [datastore EXCEPT ![key] = value]

execute_FallsThrough(t) ==
    /\ t \in threads
    /\ t.stage = "run"
    /\ Advance(t, "reply", IF t.req.type = "get" THEN get(t.req.key) ELSE 0)
    /\ datastore' = IF t.req.type = "idle" THEN datastore ELSE put(t.req.key, t.req.value)
    /\ executed' = [executed EXCEPT ![CallOf(t.req)] = @ + 1]
    /\ UNCHANGED <<client, net, lost, known, table>>

\* threadTasks calls idle, get or put.
execute(t) ==
    /\ t \in threads
    /\ t.stage = "run"
    /\ Advance(t, "reply", IF t.req.type = "get" THEN get(t.req.key) ELSE 0)
    /\ datastore' = IF t.req.type = "put" THEN put(t.req.key, t.req.value) ELSE datastore
    /\ executed' = [executed EXCEPT ![CallOf(t.req)] = @ + 1]
    /\ UNCHANGED <<client, net, lost, known, table>>

reply_FromTable(t) ==
    /\ t \in threads
    /\ t.stage = "reply"
    /\ Advance(t, "done", t.retVal)
    /\ table' = IF t.req.type = "get"
                THEN [table EXCEPT ![t.req.clientId].returnValue = t.retVal]
                ELSE table
    /\ net' = net \cup {[t.req EXCEPT !.ack = 0, !.returnValue = table[t.req.clientId].returnValue]}
    /\ UNCHANGED <<client, lost, known, datastore, executed>>

reply_Unsent(t) ==
    /\ t \in threads
    /\ t.stage = "reply"
    /\ Advance(t, "done", t.retVal)
    /\ table' = IF t.req.type = "get"
                THEN [table EXCEPT ![t.req.clientId].returnValue = t.retVal]
                ELSE table
    /\ UNCHANGED <<client, net, lost, known, datastore, executed>>

\* threadTasks keeps the value of a get in the table and replies with ack = 0.
reply(t) ==
    /\ t \in threads
    /\ t.stage = "reply"
    /\ Advance(t, "done", t.retVal)
    /\ table' = IF t.req.type = "get"
                THEN [table EXCEPT ![t.req.clientId].returnValue = t.retVal]
                ELSE table
    /\ net' = net \cup {[t.req EXCEPT !.ack = 0, !.returnValue = t.retVal]}
    /\ UNCHANGED <<client, lost, known, datastore, executed>>

\* The network loses a datagram.  The ones that stay may arrive any number of
\* times, in any order.
lose(m) ==
    /\ lost < MaxLost
    /\ m \in net
    /\ net' = net \ {m}
    /\ lost' = lost + 1
    /\ UNCHANGED <<client, server>>

ClientStep(c) ==
    \/ RPC_init(c)
    \/ RPC_idle(c)
    \/ \E k \in Keys : RPC_get(c, k)
    \/ \E k \in Keys, v \in Values : RPC_put(c, k, v)
    \/ \E m \in net : receive_packet(c, m)
    \/ timeout(c)
    \/ sleep(c)

ServerStep ==
    \/ \E m \in net : serve(m) \/ acknowledge(m)
    \/ \E t \in threads : execute(t) \/ reply(t)

Next ==
    \/ \E c \in Clients : ClientStep(c)
    \/ ServerStep
    \/ \E m \in net : lose(m)

Spec == Init /\ [][Next]_vars

\* A datagram that is not lost is delivered in the end, requests and both kinds
\* of replies alike, a timeout fires when nothing arrives, and threads are
\* scheduled.
Fairness ==
    /\ WF_vars(\E m \in net : serve(m))
    /\ SF_vars(\E m \in net : acknowledge(m))
    /\ WF_vars(\E t \in threads : execute(t))
    /\ WF_vars(\E t \in threads : reply(t))
    /\ \A c \in Clients :
          /\ WF_vars(RPC_init(c))
          /\ WF_vars(timeout(c))
          /\ WF_vars(sleep(c))
          /\ \A a \in {0, 1} : SF_vars(\E m \in net : m.ack = a /\ receive_packet(c, m))

FairSpec == Spec /\ Fairness
-----------------------------------------------------------------------------
\* Properties

\* The server executes no call twice, however often its request is sent,
\* duplicated or delayed, and even if two clients draw the same id: main()
\* starts a thread only for a number above the last one it has seen.
AtMostOnce == \A x \in Calls : executed[x] <= 1

\* A reply with ack = 0 answers a call that was executed, with the value that
\* very execution of get read, whatever other threads run at the time.
ReplyOfExecution ==
    \A m \in net : m.ack = 0 =>
        /\ executed[CallOf(m)] = 1
        /\ \E t \in threads :
              /\ CallOf(t.req) = CallOf(m)
              /\ t.stage = "done"
              /\ t.retVal = m.returnValue

\* The threads and the main loop together implement a store on which each call
\* takes effect at most once and atomically, and as its client has asked.
S == INSTANCE Store WITH done <- {x \in Calls : executed[x] > 0}
ImplementsStore == S!Spec

\* RPC_get "gets the value of a key on the server store" (client.h): it returns
\* what the server read when it executed this call.
GetFresh ==
    \A c \in Clients :
        pc[c] = "ready" /\ req[c] # None =>
            (req[c].type = "get" =>
                \E t \in threads : t.req = req[c] /\ t.stage # "run" /\ t.retVal = got[c])

\* Every call comes back to the application, which may then also give up.
CallReturns == \A c \in Clients : (pc[c] = "wait") ~> (pc[c] \in {"ready", "dead"})

\* CallReturns as long as the network loses nothing: delays, duplicates and timeouts that
\* find any residue in the buffer do not keep a call from coming back.
CallReturnsIfDelivered == [](lost = 0) => CallReturns
=============================================================================
