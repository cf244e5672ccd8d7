------------------------------ MODULE RpcProofs ------------------------------
(***************************************************************************)
(* Proofs about Rpc, for any number of clients, ids, keys, values, calls,  *)
(* retries and lost datagrams: type correctness, that the server executes  *)
(* no call twice and replies with what the execution read, and that it     *)
(* implements Store.                                                       *)
(***************************************************************************)
EXTENDS Rpc, TLAPS

\* What the properties rest on.  A datagram, a thread and the request of a
\* pending call carry the id of their client.
Addressed ==
    /\ \A m \in net : m.clientId = client_id[m.from]
    /\ \A t \in threads : t.req.clientId = client_id[t.req.from]
    /\ \A c \in Clients : pc[c] \in {"wait", "sleep"} => req[c].clientId = client_id[c]

\* A call that has a thread, or was executed, is not above the number in the
\* table, so that serve does not start a thread for it again.
Numbered ==
    /\ \A t \in threads :
          /\ t.req.clientId \in known
          /\ t.req.seqNumber <= table[t.req.clientId].seqNumber
    /\ \A x \in Calls : executed[x] # 0 =>
          /\ client_id[x[1]] \in known
          /\ x[2] <= table[client_id[x[1]]].seqNumber

\* A call has one thread, which executes it once.
OneThread ==
    /\ \A t, u \in threads : CallOf(t.req) = CallOf(u.req) => t = u
    /\ \A t \in threads : executed[CallOf(t.req)] = IF t.stage = "run" THEN 0 ELSE 1

Inv ==
    /\ TypeOK
    /\ Addressed
    /\ Numbered
    /\ OneThread
    /\ AtMostOnce
    /\ ReplyOfExecution
-----------------------------------------------------------------------------
\* The initial state satisfies the invariant: nothing was sent or executed.
THEOREM InitInv == Init => Inv
<1> SUFFICES ASSUME Init PROVE Inv
    OBVIOUS
<1>1. TypeOK
  BY ValuesAssumption, BoundsAssumption DEF Init, TypeOK, Returns, Calls, Seqs, Payload, Threads
<1>2. Addressed /\ Numbered /\ OneThread /\ AtMostOnce /\ ReplyOfExecution
  BY DEF Init, Addressed, Numbered, OneThread, AtMostOnce, ReplyOfExecution
<1> QED
  BY <1>1, <1>2 DEF Inv

\* A client that sends, resends or receives leaves the invariant true: what it
\* puts on the network is a request of its own.
LEMMA SendTyped ==
    ASSUME TypeOK, NEW c \in Clients, NEW type \in Types, NEW key \in Keys \cup {None},
           NEW value \in Values \cup {None},
           type # "idle" => key \in Keys, type = "put" => value \in Values,
           Send(c, type, key, value)
    PROVE  /\ TypeOK'
           /\ \E m \in Payload : /\ net' = net \cup {m}
                                 /\ req' = [req EXCEPT ![c] = m]
                                 /\ asked' = [asked EXCEPT ![CallOf(m)] = Op(m)]
                                 /\ CallOf(m) = <<c, seq_number[c]>> /\ seq_number[c] \in Seqs
                                 /\ m.from = c /\ m.clientId = client_id[c] /\ m.ack = None
<1> DEFINE m == [from |-> c, type |-> type, clientId |-> client_id[c],
                 seqNumber |-> seq_number[c], key |-> key, value |-> value,
                 ack |-> None, returnValue |-> -1]
<1>1. seq_number[c] \in Seqs
  BY BoundsAssumption DEF TypeOK, Send, Seqs
<1>2. m \in Payload
  BY <1>1 DEF TypeOK, Payload, Returns
<1>3. /\ net' = net \cup {m}
      /\ req' = [req EXCEPT ![c] = m]
      /\ pc' = [pc EXCEPT ![c] = "wait"]
      /\ seq_number' = [seq_number EXCEPT ![c] = @ + 1]
      /\ tries' = [tries EXCEPT ![c] = 0]
      /\ asked' = [asked EXCEPT ![CallOf(m)] = Op(m)]
      /\ UNCHANGED <<client_id, got, lost, server>>
  BY DEF Send
<1> DEFINE o == Op(m)
           x == CallOf(m)
<1>5. o \in Ops BY DEF Op, Ops
<1>6. x = <<c, seq_number[c]>> BY DEF CallOf
<1>4. TypeOK'
  <2> m.from = c /\ m.ack = None
    OBVIOUS
  <2>1. asked' = [asked EXCEPT ![x] = o]
    BY <1>3
  <2> HIDE DEF m, o, x
  <2>2. asked' \in [Calls -> Ops \cup {None}]
    BY <1>5, <2>1 DEF TypeOK
  <2> QED
    BY <1>1, <1>2, <1>3, <2>2, BoundsAssumption DEF TypeOK, Seqs, server
<1> QED
  BY Zenon, <1>1, <1>2, <1>3, <1>4, <1>6

\* Sending a request disturbs nothing else.
LEMMA SendInv ==
    ASSUME Inv, NEW c \in Clients, NEW type \in Types, NEW key \in Keys \cup {None},
           NEW value \in Values \cup {None},
           type # "idle" => key \in Keys, type = "put" => value \in Values,
           Send(c, type, key, value)
    PROVE  Inv'
<1>1. PICK m \in Payload : /\ net' = net \cup {m}
                           /\ req' = [req EXCEPT ![c] = m]
                           /\ m.from = c /\ m.clientId = client_id[c] /\ m.ack = None
  BY SendTyped DEF Inv
<1>2. TypeOK'
  BY SendTyped DEF Inv
<1>3. UNCHANGED <<client_id, known, table, threads, executed>>
      /\ pc' = [pc EXCEPT ![c] = "wait"]
  BY DEF Send, server
<1>4. Addressed'
  BY <1>1, <1>3 DEF Inv, TypeOK, Addressed
<1>5. Numbered' /\ OneThread' /\ AtMostOnce'
  BY <1>3 DEF Inv, Numbered, OneThread, AtMostOnce
<1>6. ReplyOfExecution'
  BY <1>1, <1>3, NoneAssumption DEF Inv, ReplyOfExecution
<1> QED
  BY <1>2, <1>4, <1>5, <1>6 DEF Inv

\* A call that returns, sleeps or gives up changes the client only, and one that
\* retries sends the pending request again.
LEMMA RetryInv ==
    ASSUME Inv, NEW c \in Clients, pc[c] \in {"wait", "sleep"}, NEW n \in 0 .. Retries,
           Retry(c, n)
    PROVE  Inv'
<1>1. /\ req[c] \in Payload
      /\ req[c].from = c /\ req[c].clientId = client_id[c]
      /\ req[c].ack = None
  BY DEF Inv, TypeOK, Addressed
<1>2. /\ net' \in {net, net \cup {req[c]}}
      /\ \E s \in {"wait", "ready", "dead"} :
            pc' = [pc EXCEPT ![c] = s] /\ (s = "wait" => n < Retries)
      /\ tries' = [tries EXCEPT ![c] = n]
      /\ UNCHANGED <<client_id, seq_number, req, got, asked, lost,
                     known, table, threads, datastore, executed>>
  BY DEF Retry, server
<1>3. TypeOK'
  BY <1>1, <1>2 DEF Inv, TypeOK
<1>4. Addressed'
  BY <1>1, <1>2 DEF Inv, TypeOK, Addressed
<1>5. Numbered' /\ OneThread' /\ AtMostOnce'
  BY <1>2 DEF Inv, Numbered, OneThread, AtMostOnce
<1>6. ReplyOfExecution'
  BY <1>1, <1>2, NoneAssumption DEF Inv, ReplyOfExecution
<1> QED
  BY <1>3, <1>4, <1>5, <1>6 DEF Inv

\* A call that returns changes nothing but its client.
LEMMA ReturnInv ==
    ASSUME Inv, NEW c \in Clients, NEW r \in Returns, Return(c, r)
    PROVE  Inv'
<1>1. /\ pc' = [pc EXCEPT ![c] = "ready"]
      /\ got' = [got EXCEPT ![c] = r]
      /\ UNCHANGED <<client_id, seq_number, req, tries, asked, net, lost,
                     known, table, threads, datastore, executed>>
  BY DEF Return, server
<1>2. TypeOK'
  BY <1>1 DEF Inv, TypeOK
<1>3. Addressed'
  BY <1>1 DEF Inv, TypeOK, Addressed
<1>4. Numbered' /\ OneThread' /\ AtMostOnce' /\ ReplyOfExecution'
  BY <1>1 DEF Inv, Numbered, OneThread, AtMostOnce, ReplyOfExecution
<1> QED
  BY <1>2, <1>3, <1>4 DEF Inv

\* An answer with ack = 1 makes the call return or sleep.
LEMMA AckedInv ==
    ASSUME Inv, NEW c \in Clients, pc[c] = "wait", NEW r \in Returns, Acked(c, r)
    PROVE  Inv'
<1>1. CASE Return(c, r)
  BY <1>1, ReturnInv
<1>2. CASE /\ pc' = [pc EXCEPT ![c] = "sleep"]
           /\ UNCHANGED <<client_id, seq_number, req, tries, got, asked, net, lost, server>>
  <2>1. TypeOK'
    BY <1>2 DEF Inv, TypeOK, server
  <2>2. Addressed'
    BY <1>2 DEF Inv, TypeOK, Addressed, server
  <2>3. Numbered' /\ OneThread' /\ AtMostOnce' /\ ReplyOfExecution'
    BY <1>2 DEF Inv, Numbered, OneThread, AtMostOnce, ReplyOfExecution, server
  <2> QED
    BY <2>1, <2>2, <2>3 DEF Inv
<1> QED
  BY <1>1, <1>2 DEF Acked

\* Every step of a client preserves the invariant.
LEMMA ClientStepInv ==
    ASSUME Inv, NEW c \in Clients, ClientStep(c)
    PROVE  Inv'
<1>1. CASE RPC_init(c)
  <2> USE <1>1 DEF RPC_init, server
  <2>1. TypeOK'
    BY DEF Inv, TypeOK
  <2>2. Addressed'
    BY DEF Inv, TypeOK, Addressed
  <2>3. Numbered' /\ OneThread' /\ AtMostOnce' /\ ReplyOfExecution'
    BY DEF Inv, Numbered, OneThread, AtMostOnce, ReplyOfExecution
  <2> QED
    BY <2>1, <2>2, <2>3 DEF Inv
<1>2. CASE RPC_idle(c)
  BY <1>2, SendInv DEF RPC_idle, Types
<1>3. ASSUME NEW k \in Keys, RPC_get(c, k) PROVE Inv'
  BY <1>3, SendInv DEF RPC_get, Types
<1>4. ASSUME NEW k \in Keys, NEW v \in Values, RPC_put(c, k, v) PROVE Inv'
  BY <1>4, SendInv DEF RPC_put, Types
<1>5. ASSUME NEW m \in net, receive_packet(c, m) PROVE Inv'
  <2>1. pc[c] = "wait" /\ m.returnValue \in Returns
    BY <1>5 DEF receive_packet, Inv, TypeOK, Payload
  <2> QED
    BY <1>5, <2>1, AckedInv, ReturnInv DEF receive_packet
<1>6. CASE timeout(c)
  <2>1. pc[c] = "wait"
    BY <1>6 DEF timeout
  <2>2. PICK a \in Residue, r \in Returns :
           IF a = 1 THEN Acked(c, r) ELSE Retry(c, tries[c] + 1)
    BY <1>6 DEF timeout
  <2>3. CASE a = 1
    BY <2>1, <2>2, <2>3, AckedInv
  <2>4. CASE a # 1
    <3>1. tries[c] + 1 \in 0 .. Retries
      BY <2>1, BoundsAssumption DEF Inv, TypeOK
    <3> QED
      BY <2>1, <2>2, <2>4, <3>1, RetryInv
  <2> QED
    BY <2>3, <2>4
<1>7. CASE sleep(c)
  <2>1. 1 \in 0 .. Retries
    BY BoundsAssumption
  <2> QED
    BY <1>7, <2>1, RetryInv DEF sleep
<1> QED
  BY <1>1, <1>2, <1>3, <1>4, <1>5, <1>6, <1>7 DEF ClientStep
-----------------------------------------------------------------------------
\* A request above the number in the table is new: it has no thread and was
\* never executed.
LEMMA ServeInv ==
    ASSUME Inv, NEW m \in net, serve(m)
    PROVE  Inv'
<1> DEFINE id == m.clientId
           t == [req |-> m, stage |-> "run", retVal |-> 0]
<1>1. m \in Payload /\ t \in Threads /\ id \in Ids /\ m.seqNumber \in Seqs /\ m.from \in Clients
  BY DEF Inv, TypeOK, Payload, Threads, Returns
<1>2. /\ m.ack = None
      /\ id \in known => table[id].seqNumber < m.seqNumber
      /\ known' = known \cup {id}
      /\ threads' = threads \cup {t}
      /\ UNCHANGED <<client_id, pc, req, net, lost, executed, datastore>>
  BY DEF serve, client
<1>3. /\ table' \in [Ids -> [seqNumber: 0 .. MaxSeq, returnValue: Returns]]
      /\ table'[id].seqNumber = m.seqNumber
      /\ \A i \in Ids \ {id} : table'[i] = table[i]
  BY <1>1, BoundsAssumption DEF serve, Inv, TypeOK, Seqs, Returns
<1>4. TypeOK'
  BY SMTT(30), <1>1, <1>2, <1>3 DEF serve, client, Inv, TypeOK
<1>5. Addressed'
  BY <1>2 DEF Inv, Addressed
<1>6. Numbered'
  <2>1. ASSUME NEW u \in threads'
        PROVE  u.req.clientId \in known' /\ u.req.seqNumber <= table'[u.req.clientId].seqNumber
    <3>1. CASE u = t
      BY <1>1, <1>2, <1>3, <3>1 DEF Seqs
    <3>2. CASE u \in threads
      <4>1. /\ u.req.clientId \in known /\ u.req.clientId \in Ids
            /\ u.req.seqNumber <= table[u.req.clientId].seqNumber
            /\ u.req.seqNumber \in Seqs /\ table[u.req.clientId].seqNumber \in 0 .. MaxSeq
        BY <3>2 DEF Inv, Numbered, TypeOK, Threads, Payload
      <4> HIDE DEF id, t
      <4> QED
        BY <1>1, <1>2, <1>3, <4>1, BoundsAssumption DEF Seqs
    <3> QED
      BY <1>2, <3>1, <3>2
  <2>2. ASSUME NEW x \in Calls, executed'[x] # 0
        PROVE  client_id'[x[1]] \in known' /\ x[2] <= table'[client_id'[x[1]]].seqNumber
    <3> DEFINE i == client_id[x[1]]
    <3>1. /\ i \in known /\ i \in Ids
          /\ x[2] <= table[i].seqNumber
          /\ x[2] \in Seqs /\ table[i].seqNumber \in 0 .. MaxSeq
      BY <1>2, <2>2 DEF Inv, Numbered, TypeOK, Calls
    <3>2. client_id' = client_id
      BY <1>2
    <3> HIDE DEF i, id
    <3>3. i \in known' /\ x[2] <= table'[i].seqNumber
      BY <1>1, <1>2, <1>3, <3>1, BoundsAssumption DEF Seqs
    <3> QED
      BY <3>2, <3>3 DEF i
  <2> QED
    BY Zenon, <2>1, <2>2 DEF Numbered
<1>7. \A u \in threads : CallOf(u.req) # CallOf(m)
  <2> SUFFICES ASSUME NEW u \in threads, CallOf(u.req) = CallOf(m) PROVE FALSE
      OBVIOUS
  <2>1. u.req.from = m.from /\ u.req.seqNumber = m.seqNumber
    BY DEF CallOf
  <2>2. u.req.clientId = id
    BY <2>1 DEF Inv, Addressed
  <2>3. id \in known /\ m.seqNumber <= table[id].seqNumber
    BY <2>1, <2>2 DEF Inv, Numbered
  <2> QED
    BY <1>1, <1>2, <2>3, BoundsAssumption DEF Inv, TypeOK, Seqs
<1>8. executed[CallOf(m)] = 0
  <2>1. CallOf(m) \in Calls /\ client_id[CallOf(m)[1]] = id /\ CallOf(m)[2] = m.seqNumber
    BY <1>1 DEF Inv, Addressed, CallOf, Calls
  <2> SUFFICES ASSUME executed[CallOf(m)] # 0 PROVE FALSE
      OBVIOUS
  <2>2. id \in known /\ m.seqNumber <= table[id].seqNumber
    BY <2>1 DEF Inv, Numbered
  <2> QED
    BY <1>1, <1>2, <2>2, BoundsAssumption DEF Inv, TypeOK, Seqs
<1>9. OneThread'
  <2>1. t.req = m /\ t.stage = "run"
    OBVIOUS
  <2> HIDE DEF t
  <2> QED
    BY <1>2, <1>7, <1>8, <2>1 DEF Inv, OneThread
<1>10. AtMostOnce' /\ ReplyOfExecution'
  BY <1>2 DEF Inv, AtMostOnce, ReplyOfExecution
<1> QED
  BY <1>4, <1>5, <1>6, <1>9, <1>10 DEF Inv

\* Answering a number seen before only adds a reply with ack = 1.
LEMMA AcknowledgeInv ==
    ASSUME Inv, NEW m \in net, acknowledge(m)
    PROVE  Inv'
<1> DEFINE a == [m EXCEPT !.ack = 1, !.returnValue = table[m.clientId].returnValue]
<1>1. /\ a \in Payload /\ a.from = m.from /\ a.clientId = m.clientId /\ a.ack = 1
  <2>1. m \in Payload /\ m.clientId \in Ids
    BY DEF Inv, TypeOK, Payload
  <2>2. table[m.clientId].returnValue \in Returns
    BY <2>1 DEF Inv, TypeOK
  <2> QED
    BY ZenonT(30), <2>1, <2>2 DEF Payload
<1>2. net' = net \cup {a} /\ UNCHANGED <<client, lost, server>>
  BY DEF acknowledge
<1> HIDE DEF a
<1>3. TypeOK'
  BY <1>1, <1>2 DEF Inv, TypeOK, client, server
<1>4. Addressed'
  BY <1>1, <1>2 DEF Inv, Addressed, client, server
<1>5. Numbered' /\ OneThread' /\ AtMostOnce'
  BY <1>2 DEF Inv, Numbered, OneThread, AtMostOnce, client, server
<1>6. ReplyOfExecution'
  BY <1>1, <1>2 DEF Inv, ReplyOfExecution, server
<1> QED
  BY <1>3, <1>4, <1>5, <1>6 DEF Inv

\* A thread that executes its call, or replies, stays the only one of the call.
LEMMA AdvanceThreads ==
    ASSUME TypeOK, OneThread, NEW t \in threads, NEW stage \in {"reply", "done"},
           NEW ret \in Returns, Advance(t, stage, ret)
    PROVE  \E u \in Threads :
              /\ threads' = (threads \ {t}) \cup {u}
              /\ u.req = t.req /\ u.stage = stage /\ u.retVal = ret
              /\ t.req \in Payload /\ CallOf(t.req) \in Calls
              /\ \A w \in threads \ {t} : CallOf(w.req) # CallOf(t.req)
<1> DEFINE u == [t EXCEPT !.stage = stage, !.retVal = ret]
<1>1. u \in Threads /\ u.req = t.req /\ u.stage = stage /\ u.retVal = ret
  BY Zenon DEF TypeOK, Threads
<1>2. threads' = (threads \ {t}) \cup {u}
  BY DEF Advance
<1>3. t.req \in Payload /\ CallOf(t.req) \in Calls
  BY DEF TypeOK, Threads, Payload, CallOf, Calls
<1>4. \A w \in threads \ {t} : CallOf(w.req) # CallOf(t.req)
  BY DEF OneThread
<1> QED
  BY Zenon, <1>1, <1>2, <1>3, <1>4

\* A thread that executes its call is the first to do so.
LEMMA ExecuteInv ==
    ASSUME Inv, NEW t \in threads, execute(t)
    PROVE  Inv'
<1> DEFINE x == CallOf(t.req)
           ret == IF t.req.type = "get" THEN get(t.req.key) ELSE 0
<1>1. /\ t.stage = "run"
      /\ Advance(t, "reply", ret)
      /\ executed' = [executed EXCEPT ![x] = @ + 1]
      /\ UNCHANGED <<client, net, lost, known, table>>
  BY DEF execute
<1>2. ret \in Returns /\ datastore' \in [Keys -> Values \cup {0}]
  <2>1. t.req \in Payload /\ (t.req.type # "idle" => t.req.key \in Keys)
        /\ (t.req.type = "put" => t.req.value \in Values) /\ t.req.type \in Types
    BY DEF Inv, TypeOK, Threads, Payload
  <2> QED
    BY <2>1 DEF execute, get, put, Inv, TypeOK, Returns, Types
<1>3. PICK u \in Threads :
         /\ threads' = (threads \ {t}) \cup {u}
         /\ u.req = t.req /\ u.stage = "reply" /\ u.retVal = ret
         /\ t.req \in Payload /\ x \in Calls
         /\ \A w \in threads \ {t} : CallOf(w.req) # x
  BY <1>1, <1>2, AdvanceThreads DEF Inv
<1>4. executed[x] = 0 /\ executed'[x] = 1 /\ \A y \in Calls \ {x} : executed'[y] = executed[y]
  BY SMTT(30), <1>1, <1>3 DEF Inv, OneThread, TypeOK
<1> HIDE DEF x, ret
<1>5. TypeOK'
  BY SMTT(30), <1>1, <1>2, <1>3, <1>4 DEF Inv, TypeOK, client
<1>6. Addressed'
  BY <1>1, <1>3 DEF Inv, Addressed, client
<1>7. Numbered'
  <2>1. x = <<t.req.from, t.req.seqNumber>> /\ client_id[t.req.from] = t.req.clientId
    BY DEF x, CallOf, Inv, Addressed
  <2> QED
    BY <1>1, <1>3, <1>4, <2>1 DEF Inv, Numbered, client
<1>8. OneThread'
  <2>1. \A w \in threads' : w = u \/ (w \in threads /\ CallOf(w.req) # x /\ CallOf(w.req) \in Calls)
    BY <1>3 DEF Inv, TypeOK, Threads, Payload, CallOf, Calls
  <2>2. CallOf(u.req) = x
    BY <1>3 DEF x
  <2> QED
    BY SMTT(30), <1>3, <1>4, <2>1, <2>2 DEF Inv, OneThread
<1>9. AtMostOnce'
  BY <1>4 DEF Inv, AtMostOnce
<1>10. ReplyOfExecution'
  <2> SUFFICES ASSUME NEW m \in net, m.ack = 0
               PROVE  /\ executed'[CallOf(m)] = 1
                      /\ \E w \in threads' :
                            /\ CallOf(w.req) = CallOf(m)
                            /\ w.stage = "done"
                            /\ w.retVal = m.returnValue
      BY <1>1 DEF ReplyOfExecution
  <2>1. PICK w \in threads : /\ CallOf(w.req) = CallOf(m)
                             /\ w.stage = "done"
                             /\ w.retVal = m.returnValue
    BY DEF Inv, ReplyOfExecution
  <2>2. w # t /\ CallOf(m) # x /\ CallOf(m) \in Calls
    BY <1>1, <1>3, <2>1 DEF Inv, TypeOK, Payload, CallOf, Calls
  <2> QED
    BY <1>3, <1>4, <2>1, <2>2 DEF Inv, ReplyOfExecution
<1> QED
  BY <1>5, <1>6, <1>7, <1>8, <1>9, <1>10 DEF Inv

\* A thread replies to a call it has executed, with the value it kept.
LEMMA ReplyInv ==
    ASSUME Inv, NEW t \in threads, reply(t)
    PROVE  Inv'
<1> DEFINE x == CallOf(t.req)
           m == [t.req EXCEPT !.ack = 0, !.returnValue = t.retVal]
<1>1. /\ t.stage = "reply" /\ t.retVal \in Returns /\ t.req \in Payload
      /\ t.req.clientId \in Ids
  BY DEF reply, Inv, TypeOK, Threads, Payload
<1>2. /\ Advance(t, "done", t.retVal)
      /\ net' = net \cup {m}
      /\ UNCHANGED <<client, lost, known, datastore, executed>>
  BY DEF reply
<1>3. /\ m \in Payload /\ m.ack = 0 /\ m.returnValue = t.retVal /\ CallOf(m) = x
      /\ m.from = t.req.from /\ m.clientId = t.req.clientId
  BY ZenonT(30), <1>1 DEF Payload, CallOf
<1>4. /\ table' \in [Ids -> [seqNumber: 0 .. MaxSeq, returnValue: Returns]]
      /\ \A i \in Ids : table'[i].seqNumber = table[i].seqNumber
  BY <1>1 DEF reply, Inv, TypeOK
<1>5. PICK u \in Threads :
         /\ threads' = (threads \ {t}) \cup {u}
         /\ u.req = t.req /\ u.stage = "done" /\ u.retVal = t.retVal
         /\ t.req \in Payload /\ x \in Calls
         /\ \A w \in threads \ {t} : CallOf(w.req) # x
  BY <1>1, <1>2, AdvanceThreads DEF Inv
<1>6. executed[x] = 1
  BY <1>1 DEF Inv, OneThread
<1> HIDE DEF x, m
<1>7. TypeOK'
  BY <1>2, <1>3, <1>4, <1>5 DEF Inv, TypeOK, client
<1>8. Addressed'
  BY <1>2, <1>3, <1>5 DEF Inv, Addressed, client
<1>9. Numbered'
  <2>1. \A w \in threads : w.req.clientId \in Ids
    BY Zenon DEF Inv, TypeOK, Threads, Payload
  <2>2. \A y \in Calls : client_id[y[1]] \in Ids
    BY DEF Inv, TypeOK, Calls
  <2> QED
    BY <1>2, <1>4, <1>5, <2>1, <2>2 DEF Inv, Numbered, client
<1>10. OneThread'
  BY <1>2, <1>5, <1>6 DEF Inv, OneThread, x
<1>11. AtMostOnce'
  BY <1>2 DEF Inv, AtMostOnce
<1>12. ReplyOfExecution'
  <2> SUFFICES ASSUME NEW n \in net', n.ack = 0
               PROVE  /\ executed[CallOf(n)] = 1
                      /\ \E w \in threads' :
                            /\ CallOf(w.req) = CallOf(n)
                            /\ w.stage = "done"
                            /\ w.retVal = n.returnValue
      BY <1>2 DEF ReplyOfExecution
  <2>1. CASE n = m
    BY <1>3, <1>5, <1>6, <2>1 DEF x
  <2>2. CASE n \in net
    <3>1. PICK w \in threads : /\ CallOf(w.req) = CallOf(n)
                               /\ w.stage = "done"
                               /\ w.retVal = n.returnValue
      BY <2>2 DEF Inv, ReplyOfExecution
    <3> QED
      BY <1>1, <1>5, <2>2, <3>1 DEF Inv, ReplyOfExecution
  <2> QED
    BY <1>2, <2>1, <2>2
<1> QED
  BY <1>7, <1>8, <1>9, <1>10, <1>11, <1>12 DEF Inv

\* Losing a datagram makes no claim about the others false.
LEMMA LoseInv ==
    ASSUME Inv, NEW m \in net, lose(m)
    PROVE  Inv'
<1>1. net' \subseteq net /\ lost' = lost + 1 /\ lost < MaxLost /\ UNCHANGED <<client, server>>
  BY DEF lose
<1>2. TypeOK'
  BY SMTT(30), <1>1, BoundsAssumption DEF Inv, TypeOK, client, server
<1>3. Addressed' /\ Numbered' /\ OneThread' /\ AtMostOnce' /\ ReplyOfExecution'
  BY <1>1 DEF Inv, Addressed, Numbered, OneThread, AtMostOnce, ReplyOfExecution, client, server
<1> QED
  BY <1>2, <1>3 DEF Inv

\* Every step of clients, server and network preserves the invariant.
THEOREM NextInv == Inv /\ [Next]_vars => Inv'
<1> SUFFICES ASSUME Inv, [Next]_vars PROVE Inv'
    OBVIOUS
<1>1. ASSUME NEW c \in Clients, ClientStep(c) PROVE Inv'
  BY <1>1, ClientStepInv
<1>2. CASE ServerStep
  BY <1>2, ServeInv, AcknowledgeInv, ExecuteInv, ReplyInv DEF ServerStep
<1>3. ASSUME NEW m \in net, lose(m) PROVE Inv'
  BY Zenon, <1>3, LoseInv
<1>4. CASE UNCHANGED vars
  BY Zenon, <1>4 DEF vars, client, server, Inv, TypeOK, Addressed, Numbered, OneThread, AtMostOnce,
              ReplyOfExecution
<1> QED
  BY <1>1, <1>2, <1>3, <1>4 DEF Next

\* The invariant holds in every reachable state.
THEOREM Invariance == Spec => []Inv
  BY InitInv, NextInv, PTL DEF Spec

\* The variables of clients, network and server keep their types.
THEOREM TypeCorrect == Spec => []TypeOK
<1>1. Inv => TypeOK
  BY DEF Inv
<1> QED
  BY <1>1, Invariance, PTL

\* The server executes no call twice, for any number of clients, calls,
\* retries, duplicates and losses, and for any choice of client ids.
THEOREM AtMostOnceCorrect == Spec => []AtMostOnce
<1>1. Inv => AtMostOnce
  BY DEF Inv
<1> QED
  BY <1>1, Invariance, PTL

\* A reply with ack = 0 carries the value the execution of its call read.
THEOREM ReplyCorrect == Spec => []ReplyOfExecution
<1>1. Inv => ReplyOfExecution
  BY DEF Inv
<1> QED
  BY <1>1, Invariance, PTL
-----------------------------------------------------------------------------
\* What a request asks for stays what its client asked: on the network, in the pending call
\* and in the thread.  The numbers from seq_number on are those of calls not yet made.
Kept ==
    /\ \A m \in net : asked[CallOf(m)] = Op(m)
    /\ \A t \in threads : asked[CallOf(t.req)] = Op(t.req)
    /\ \A c \in Clients : pc[c] \in {"wait", "sleep"} => asked[CallOf(req[c])] = Op(req[c])
    /\ \A x \in Calls : asked[x] # None => x[2] < seq_number[x[1]]

\* An operation is not None.
LEMMA OpIs == ASSUME NEW m \in Payload PROVE Op(m) \in Ops /\ Op(m) # None /\ CallOf(m) \in Calls
<1>1. Op(m) \in Ops BY DEF Payload, Op, Ops
<1>2. CallOf(m) \in Calls BY DEF Payload, CallOf, Calls
<1> QED BY <1>1, <1>2, NoneAssumption

\* A new call has a number of its own, so that it changes what no other has asked for.
LEMMA SendKept ==
    ASSUME Inv, Kept, NEW c \in Clients, NEW type \in Types, NEW key \in Keys \cup {None},
           NEW value \in Values \cup {None},
           type # "idle" => key \in Keys, type = "put" => value \in Values,
           Send(c, type, key, value)
    PROVE  /\ Kept' /\ UNCHANGED <<datastore, executed>>
           /\ \E x \in Calls, o \in Ops : asked[x] = None /\ asked' = [asked EXCEPT ![x] = o]
<1>1. PICK m \in Payload : /\ net' = net \cup {m}
                           /\ req' = [req EXCEPT ![c] = m]
                           /\ asked' = [asked EXCEPT ![CallOf(m)] = Op(m)]
                           /\ CallOf(m) = <<c, seq_number[c]>> /\ seq_number[c] \in Seqs
  BY SendTyped DEF Inv
<1>2. PICK x \in Calls, o \in Ops : x = CallOf(m) /\ o = Op(m) /\ o # None BY OpIs
<1>3. /\ pc' = [pc EXCEPT ![c] = "wait"] /\ seq_number' = [seq_number EXCEPT ![c] = @ + 1]
      /\ UNCHANGED <<threads, datastore, executed>>
  BY DEF Send, server
<1>4. /\ TypeOK /\ x[1] = c /\ x[2] = seq_number[c] /\ seq_number[c] \in Int
      /\ seq_number \in [Clients -> Int] /\ pc \in [Clients -> {"new", "ready", "wait", "sleep", "dead"}]
  BY <1>1, <1>2 DEF Inv, TypeOK
<1>5. asked[x] = None
  <2>1. ~(x[2] < seq_number[x[1]]) BY <1>4
  <2> QED BY <2>1 DEF Kept
<1>6. asked'[x] = o /\ \A y \in Calls : y # x => asked'[y] = asked[y] BY <1>1, <1>2, <1>4 DEF TypeOK
<1>7. \A n \in Payload : asked[CallOf(n)] = Op(n) => asked'[CallOf(n)] = Op(n)
  BY <1>5, <1>6, OpIs
<1>8. \A n \in net' : asked'[CallOf(n)] = Op(n)
  <2>1. net \subseteq Payload BY <1>4 DEF TypeOK
  <2> QED BY <1>1, <1>2, <1>6, <1>7, <2>1 DEF Kept
<1>9. \A t \in threads' : asked'[CallOf(t.req)] = Op(t.req)
  <2>1. \A t \in threads : t.req \in Payload BY <1>4 DEF TypeOK, Threads
  <2> QED BY <1>3, <1>7, <2>1 DEF Kept
<1>10. \A d \in Clients : pc'[d] \in {"wait", "sleep"} => asked'[CallOf(req'[d])] = Op(req'[d])
  <2> SUFFICES ASSUME NEW d \in Clients, pc'[d] \in {"wait", "sleep"}
               PROVE  asked'[CallOf(req'[d])] = Op(req'[d])
    OBVIOUS
  <2>1. CASE d = c
    <3>1. req'[d] = m BY <1>1, <1>4, <2>1 DEF TypeOK
    <3> QED BY <1>2, <1>6, <3>1
  <2>2. CASE d # c
    <3>1. req'[d] = req[d] /\ pc'[d] = pc[d] BY <1>1, <1>3, <1>4, <2>2 DEF TypeOK
    <3>2. req[d] \in Payload /\ asked[CallOf(req[d])] = Op(req[d]) BY <1>4, <3>1 DEF TypeOK, Kept
    <3> QED BY <1>7, <3>1, <3>2
  <2> QED BY <2>1, <2>2
<1>11. \A y \in Calls : asked'[y] # None => y[2] < seq_number'[y[1]]
  <2> SUFFICES ASSUME NEW y \in Calls, asked'[y] # None PROVE y[2] < seq_number'[y[1]]
    OBVIOUS
  <2>1. y[1] \in Clients /\ y[2] \in Int BY DEF Calls, Seqs
  <2>2. CASE y = x BY <1>3, <1>4, <2>2
  <2>3. CASE y # x
    <3>1. y[2] < seq_number[y[1]] BY <1>6, <2>3 DEF Kept
    <3> QED BY <1>3, <1>4, <2>1, <3>1
  <2> QED BY <2>2, <2>3
<1>12. Kept' BY Zenon, <1>8, <1>9, <1>10, <1>11 DEF Kept
<1>13. asked' = [asked EXCEPT ![x] = o] BY <1>1, <1>2
<1> QED BY Zenon, <1>3, <1>5, <1>12, <1>13

\* Every other step of a client only sends the pending request again.
LEMMA ResendKept ==
    ASSUME Inv, Kept, NEW c \in Clients, NEW s \in {"ready", "wait", "sleep", "dead"},
           s \in {"wait", "sleep"} => pc[c] \in {"wait", "sleep"},
           pc' = [pc EXCEPT ![c] = s], net' = net \/ (s = "wait" /\ net' = net \cup {req[c]}),
           UNCHANGED <<seq_number, req, asked, server>>
    PROVE  Kept' /\ UNCHANGED <<asked, datastore, executed>>
<1>1. UNCHANGED <<threads, datastore, executed>> BY DEF server
<1>2. \A m \in net' : asked[CallOf(m)] = Op(m) BY DEF Kept
<1>3. \A d \in Clients : pc'[d] \in {"wait", "sleep"} => pc[d] \in {"wait", "sleep"} BY DEF Inv, TypeOK
<1> QED BY Zenon, <1>1, <1>2, <1>3 DEF Kept

\* What a step of a client does to the calls asked for.
LEMMA ClientKept ==
    ASSUME Inv, Kept, NEW c \in Clients, ClientStep(c)
    PROVE  /\ Kept' /\ UNCHANGED <<datastore, executed>>
           /\ \/ UNCHANGED asked
              \/ \E x \in Calls, o \in Ops : asked[x] = None /\ asked' = [asked EXCEPT ![x] = o]
<1>1. CASE RPC_init(c) BY <1>1, ResendKept DEF RPC_init
<1>2. CASE RPC_idle(c) BY <1>2, SendKept DEF RPC_idle, Types
<1>3. ASSUME NEW k \in Keys, RPC_get(c, k)
      PROVE  /\ Kept' /\ UNCHANGED <<datastore, executed>>
             /\ \E x \in Calls, o \in Ops : asked[x] = None /\ asked' = [asked EXCEPT ![x] = o]
  BY <1>3, SendKept DEF RPC_get, Types
<1>4. ASSUME NEW k \in Keys, NEW v \in Values, RPC_put(c, k, v)
      PROVE  /\ Kept' /\ UNCHANGED <<datastore, executed>>
             /\ \E x \in Calls, o \in Ops : asked[x] = None /\ asked' = [asked EXCEPT ![x] = o]
  BY <1>4, SendKept DEF RPC_put, Types
<1>5. ASSUME NEW r, Return(c, r) PROVE Kept' /\ UNCHANGED <<asked, datastore, executed>>
  BY <1>5, ResendKept DEF Return
<1>6. ASSUME NEW n, pc[c] \in {"wait", "sleep"}, Retry(c, n)
      PROVE  Kept' /\ UNCHANGED <<asked, datastore, executed>>
  BY <1>6, ResendKept DEF Retry
<1>7. ASSUME NEW r, pc[c] = "wait", Acked(c, r) PROVE Kept' /\ UNCHANGED <<asked, datastore, executed>>
  BY <1>5, <1>7, ResendKept DEF Acked
<1>8. ASSUME NEW m \in net, receive_packet(c, m) PROVE Kept' /\ UNCHANGED <<asked, datastore, executed>>
  BY <1>5, <1>7, <1>8 DEF receive_packet
<1>9. CASE timeout(c) BY <1>6, <1>7, <1>9 DEF timeout
<1>10. CASE sleep(c) BY <1>6, <1>10 DEF sleep
<1> QED BY <1>1, <1>2, <1>3, <1>4, <1>8, <1>9, <1>10 DEF ClientStep

\* The server and the network pass a request on as it is.
LEMMA ServerKept ==
    ASSUME Inv, Kept, ServerStep \/ \E m \in net : lose(m)
    PROVE  Kept' /\ UNCHANGED asked
<1> SUFFICES ASSUME UNCHANGED client,
                    \A m \in net' : m \in net \/ \E n \in Payload : CallOf(n) = CallOf(m) /\ Op(n) = Op(m)
                                                               /\ asked[CallOf(n)] = Op(n),
                    \A t \in threads' : asked[CallOf(t.req)] = Op(t.req)
             PROVE  Kept' /\ UNCHANGED asked
  <2>1. ASSUME NEW m \in net, serve(m)
        PROVE  UNCHANGED <<client, net>> /\ \A t \in threads' : asked[CallOf(t.req)] = Op(t.req)
    BY <2>1 DEF serve, Kept
  <2>2. ASSUME NEW m \in net, acknowledge(m)
        PROVE  /\ UNCHANGED <<client, threads>>
               /\ \E n : net' = net \cup {n} /\ CallOf(n) = CallOf(m) /\ Op(n) = Op(m)
    <3>1. m \in Payload BY DEF Inv, TypeOK
    <3> DEFINE n == [m EXCEPT !.ack = 1, !.returnValue = table[m.clientId].returnValue]
    <3>2. CallOf(n) = CallOf(m) /\ Op(n) = Op(m) BY <3>1 DEF Payload, CallOf, Op
    <3>3. net' = net \cup {n} /\ UNCHANGED <<client, threads>> BY <2>2 DEF acknowledge, server
    <3> HIDE DEF n
    <3> QED BY <3>2, <3>3
  <2>3. ASSUME NEW t \in threads, NEW stage, NEW ret, Advance(t, stage, ret)
        PROVE  \A u \in threads' : asked[CallOf(u.req)] = Op(u.req)
    <3> DEFINE u == [t EXCEPT !.stage = stage, !.retVal = ret]
    <3>1. u.req = t.req BY DEF Inv, TypeOK, Threads
    <3>2. threads' = (threads \ {t}) \cup {u} BY <2>3 DEF Advance
    <3> HIDE DEF u
    <3> QED BY <3>1, <3>2 DEF Kept
  <2>4. ASSUME NEW t \in threads, execute(t)
        PROVE  UNCHANGED <<client, net>> /\ \A u \in threads' : asked[CallOf(u.req)] = Op(u.req)
    BY <2>3, <2>4 DEF execute
  <2>5. ASSUME NEW t \in threads, reply(t)
        PROVE  /\ UNCHANGED client /\ \A u \in threads' : asked[CallOf(u.req)] = Op(u.req)
               /\ \E n : net' = net \cup {n} /\ CallOf(n) = CallOf(t.req) /\ Op(n) = Op(t.req)
    <3>1. t.req \in Payload BY DEF Inv, TypeOK, Threads
    <3> DEFINE n == [t.req EXCEPT !.ack = 0, !.returnValue = t.retVal]
    <3>2. CallOf(n) = CallOf(t.req) /\ Op(n) = Op(t.req) BY <3>1 DEF Payload, CallOf, Op
    <3>3. net' = net \cup {n} /\ UNCHANGED client BY <2>5 DEF reply
    <3>4. \A u \in threads' : asked[CallOf(u.req)] = Op(u.req) BY <2>3, <2>5 DEF reply
    <3> HIDE DEF n
    <3> QED BY <3>2, <3>3, <3>4
  <2>6. ASSUME NEW m \in net, lose(m) PROVE UNCHANGED <<client, threads>> /\ net' \subseteq net
    BY <2>6 DEF lose, server
  <2>7. /\ \A t \in threads : t.req \in Payload /\ asked[CallOf(t.req)] = Op(t.req)
        /\ \A m \in net : m \in Payload /\ asked[CallOf(m)] = Op(m)
    BY DEF Inv, TypeOK, Threads, Kept
  <2>8. CASE \E m \in net : serve(m) BY <2>1, <2>8
  <2>9. CASE \E m \in net : acknowledge(m) BY <2>2, <2>7, <2>9
  <2>10. CASE \E t \in threads : execute(t) BY <2>4, <2>10
  <2>11. CASE \E t \in threads : reply(t) BY <2>5, <2>7, <2>11
  <2>12. CASE \E m \in net : lose(m) BY <2>6, <2>7, <2>12
  <2> QED BY <2>8, <2>9, <2>10, <2>11, <2>12 DEF ServerStep
<1>1. UNCHANGED <<asked, pc, req, seq_number>> BY DEF client
<1>2. \A m \in net' : asked[CallOf(m)] = Op(m) BY DEF Kept
<1> QED BY Zenon, <1>1, <1>2 DEF Kept

\* Every step keeps it.
LEMMA NextKept == Inv /\ Kept /\ [Next]_vars => Kept'
<1> SUFFICES ASSUME Inv, Kept, [Next]_vars PROVE Kept'
    OBVIOUS
<1>1. CASE UNCHANGED vars BY Zenon, <1>1 DEF vars, client, server, Kept
<1> QED BY <1>1, ClientKept, ServerKept DEF Next

\* So it always holds.
LEMMA KeptInvariant == Spec => []Kept
<1>1. Init => Kept BY DEF Init, Kept
<1> QED BY <1>1, NextKept, Invariance, PTL DEF Spec
-----------------------------------------------------------------------------
\* Refinement: a call that is made is an Ask, a step that executes one is a Take, and every
\* other step leaves the store, the calls asked for and those executed as they are.

Done == {x \in Calls : executed[x] > 0}

\* Only execute changes the store or the number of executions.
LEMMA OnlyExecute ==
    ASSUME ServerStep \/ \E m \in net : lose(m), ~ \E t \in threads : execute(t)
    PROVE  UNCHANGED <<datastore, executed>>
<1>1. CASE ServerStep
  BY Zenon, <1>1 DEF ServerStep, serve, acknowledge, reply, server
<1>2. ASSUME NEW m \in net, lose(m) PROVE UNCHANGED server
  BY <1>2 DEF lose
<1> QED
  BY Zenon, <1>1, <1>2 DEF server

\* A thread that runs takes one call, not yet done, into the set of calls done, and does
\* what the call asked for.
LEMMA ExecuteRefines ==
    ASSUME Inv, Kept, NEW t \in threads, execute(t)
    PROVE  S!Next
<1> DEFINE x == CallOf(t.req)
           o == Op(t.req)
<1>1. t.stage = "run" /\ executed' = [executed EXCEPT ![x] = @ + 1]
  BY Zenon DEF execute
<1>2. x \in Calls /\ executed[x] = 0
  BY Zenon, <1>1 DEF Inv, OneThread, TypeOK, Threads, Payload, CallOf, Calls
<1>3. t.req \in Payload /\ o # None /\ asked[x] = o
  <2>1. t.req \in Payload BY DEF Inv, TypeOK, Threads
  <2> QED BY <2>1, OpIs DEF Kept
<1>4. o.type = t.req.type /\ o.key = t.req.key /\ o.value = t.req.value
  BY DEF Op
<1>5. asked' = asked
  BY DEF execute, client
<1> HIDE DEF x, o
<1>6. x \notin Done /\ Done' = Done \cup {x}
  <2>1. executed \in [Calls -> Nat]
    BY DEF Inv, TypeOK
  <2> QED
    BY <1>1, <1>2, <2>1 DEF Done
<1>7. datastore' = S!Effect(o)
  BY <1>4 DEF execute, put, S!Effect
<1>8. S!Take(x)
  BY <1>3, <1>5, <1>6, <1>7 DEF S!Take, Done
<1> QED
  BY <1>2, <1>8 DEF S!Next

\* The server implements a store on which each call takes effect at most once,
\* atomically and as its client asked, whatever the clients and the network do.
THEOREM Refinement == Spec => ImplementsStore
<1>1. Init => S!Init
  BY DEF Init, S!Init, Calls
<1>2. Inv /\ Kept /\ [Next]_vars => [S!Next]_<<datastore, asked, Done>>
  <2> SUFFICES ASSUME Inv, Kept, [Next]_vars PROVE S!Next \/ UNCHANGED <<datastore, asked, Done>>
      OBVIOUS
  <2>1. ASSUME NEW t \in threads, execute(t) PROVE S!Next
    BY <2>1, ExecuteRefines
  <2>2. ASSUME NEW c \in Clients, ClientStep(c) PROVE S!Next \/ UNCHANGED <<datastore, asked, Done>>
    <3>1. UNCHANGED <<datastore, executed>> /\ Done' = Done
      BY <2>2, ClientKept DEF Done
    <3>2. CASE UNCHANGED asked BY <3>1, <3>2
    <3>3. ASSUME NEW x \in Calls, NEW o \in Ops, asked[x] = None, asked' = [asked EXCEPT ![x] = o]
          PROVE  S!Next
      <4>1. S!Ask(x, o) BY <3>1, <3>3 DEF S!Ask, Done
      <4> QED BY <4>1 DEF S!Next
    <3> QED BY <2>2, <3>2, <3>3, ClientKept
  <2>3. CASE (ServerStep \/ \E m \in net : lose(m)) /\ ~ \E t \in threads : execute(t)
    BY <2>3, OnlyExecute, ServerKept DEF Done
  <2>4. CASE UNCHANGED vars
    BY <2>4 DEF vars, client, server, Done
  <2> QED
    BY <2>1, <2>2, <2>3, <2>4 DEF Next
<1> QED
  BY <1>1, <1>2, Invariance, KeptInvariant, PTL DEF Spec, ImplementsStore, S!Spec, Done
=============================================================================
