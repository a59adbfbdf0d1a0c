------------------------------ MODULE NetProofs -----------------------------
(***************************************************************************)
(* Theorems about the network: the IP layer, the resolver, the UDP sockets *)
(* and the TCP sockets, for every number of hosts, ARP and cache entries,  *)
(* pages, processes and sockets, every size of the buffers, queues and     *)
(* windows, and every space of ports and sequence numbers. The bounds of   *)
(* the runs are arbitrary too.                                             *)
(***************************************************************************)
EXTENDS Ip, Dns, Udp, Tcp, MmLemmas

-----------------------------------------------------------------------------
(***************************************************************************)
(* DNS: what is in the cache                                               *)
(***************************************************************************)

\* Without reuse a transaction id names one query.
IdsUnique ==
  /\ \A p \in Proc : query[p].waits => query[p] \in sent
  /\ ~ reused => \A q, r \in sent : q.id = r.id => q = r
  /\ ~ reused => \A i \in CacheIdx : cache[i].valid => cache[i].of = cache[i].name

\* A process resolves a name that has no entry and that no other process is
\* resolving, unless there was a race or an address 0.0.0.0.
NamesUnique ==
  /\ ~ zero => \A i \in CacheIdx : cache[i].valid => cache[i].ip # 0
  /\ ~ raced => \A p, o \in Proc :
       query[p].stage # 0 /\ query[o].stage # 0 /\ p # o => query[p].name # query[o].name
  /\ ~ raced /\ ~ zero => \A p \in Proc, i \in CacheIdx :
       query[p].stage # 0 /\ cache[i].valid => cache[i].name # query[p].name
  /\ ~ raced /\ ~ zero => \A i, j \in CacheIdx :
       cache[i].valid /\ cache[j].valid /\ i # j => cache[i].name # cache[j].name

AnyName == Name \cup {"none"}
Queries == [stage : {0, 1, 2}, name : AnyName, id : Int, server : Server \cup {0},
            waits : BOOLEAN]
Entries == [valid : BOOLEAN, name : AnyName, of : AnyName, ip : {0, 1}, timestamp : Int]

DnsType ==
  /\ query \in [Proc -> Queries]
  /\ \A p \in Proc : query[p].waits => query[p].stage # 0
  /\ sent \subseteq Queries
  /\ cache \in [CacheIdx -> Entries]
  /\ servers \in Server \X (Server \cup {0})
  /\ next_transaction_id \in Int
  /\ now \in Int

Waiting == {p \in Proc : query[p].waits}

DnsInv == DnsType /\ IdsUnique /\ NamesUnique /\ open = Cardinality(Waiting)

LEMMA DnsInvInit == DnsInit => DnsInv
<1> SUFFICES ASSUME DnsInit PROVE DnsInv
  OBVIOUS
<1>1. NoQuery \in Queries /\ NoQuery.waits = FALSE /\ NoQuery.stage = 0
  BY DEF NoQuery, Queries, AnyName
<1>2. NoEntry \in Entries /\ NoEntry.valid = FALSE
  BY DEF NoEntry, Entries, AnyName
<1>3. /\ \A p \in Proc : query[p] = NoQuery
      /\ \A i \in CacheIdx : cache[i] = NoEntry
      /\ sent = {} /\ open = 0
  BY DEF DnsInit
<1>4. DnsType
  <2>1. query \in [Proc -> Queries] /\ cache \in [CacheIdx -> Entries]
    BY <1>1, <1>2 DEF DnsInit
  <2>2. servers \in Server \X (Server \cup {0}) /\ next_transaction_id \in Int /\ now \in Int
    BY DnsAssumption DEF DnsInit
  <2>3. QED
    BY <1>1, <1>3, <2>1, <2>2 DEF DnsType
<1>5. IdsUnique /\ NamesUnique
  BY <1>1, <1>2, <1>3 DEF IdsUnique, NamesUnique
<1>6. Waiting = {}
  BY <1>1, <1>3 DEF Waiting
<1>7. QED
  BY <1>3, <1>4, <1>5, <1>6, FS_EmptySet DEF DnsInv

\* A query goes out, or is made and not sent, for a process that was not waiting.
LEMMA AskStep ==
  ASSUME DnsInv, NEW p \in Proc, NEW stage \in {1, 2}, NEW name \in AnyName, NEW ok \in BOOLEAN,
         ~ query[p].waits, ask(p, stage, name, ok)
  PROVE  /\ DnsType' /\ IdsUnique' /\ open' = Cardinality(Waiting')
         /\ query' = [query EXCEPT ![p] = query'[p]] /\ cache' = cache /\ zero' = zero
         /\ query'[p].name = name /\ query'[p].stage # 0
<1> DEFINE q == [stage |-> stage, name |-> name, id |-> next_transaction_id,
                 server |-> servers[stage], waits |-> ok]
<1>1. /\ query' = [query EXCEPT ![p] = q]
      /\ next_transaction_id' = NextId(next_transaction_id)
      /\ open' = IF ok THEN open + 1 ELSE open
      /\ sent' = sent \cup {q}
      /\ reused' = (reused \/ \E r \in sent : r.id = q.id)
      /\ UNCHANGED <<cache, servers, now, zero>>
  BY DEF ask
<1>2. q \in Queries
  <2>1. servers[stage] \in Server \cup {0} /\ next_transaction_id \in Int
    BY DEF DnsInv, DnsType
  <2>2. QED
    BY <2>1 DEF Queries
<1>3. q.name = name /\ q.stage = stage /\ q.waits = ok /\ stage # 0
  OBVIOUS
<1> HIDE DEF q
<1>4. query \in [Proc -> Queries] /\ query'[p] = q
      /\ \A o \in Proc : o # p => query'[o] = query[o]
  BY <1>1 DEF DnsInv, DnsType
<1>5. DnsType'
  <2>1. NextId(next_transaction_id) \in Int
    BY DnsAssumption DEF NextId, DnsInv, DnsType
  <2>2. query' \in [Proc -> Queries] /\ sent' \subseteq Queries
    BY <1>1, <1>2 DEF DnsInv, DnsType
  <2>3. \A o \in Proc : query'[o].waits => query'[o].stage # 0
    BY <1>3, <1>4 DEF DnsInv, DnsType
  <2>4. QED
    BY <1>1, <2>1, <2>2, <2>3 DEF DnsInv, DnsType
<1>6. IdsUnique'
  <2>1. \A o \in Proc : query'[o].waits => query'[o] \in sent'
    BY <1>1, <1>4 DEF DnsInv, IdsUnique
  <2>2. ~ reused' => \A r, s \in sent' : r.id = s.id => r = s
    BY <1>1 DEF DnsInv, IdsUnique
  <2>3. ~ reused' => \A i \in CacheIdx : cache'[i].valid => cache'[i].of = cache'[i].name
    BY <1>1 DEF DnsInv, IdsUnique
  <2>4. QED
    BY <2>1, <2>2, <2>3 DEF IdsUnique
<1>7. open' = Cardinality(Waiting')
  <2>1. p \notin Waiting /\ IsFiniteSet(Waiting)
    BY DnsAssumption, FS_Subset DEF Waiting
  <2>2. Waiting' = IF ok THEN Waiting \cup {p} ELSE Waiting
    BY <1>3, <1>4, <2>1 DEF Waiting
  <2>3. QED
    BY <1>1, <2>1, <2>2, FS_AddElement DEF DnsInv
<1>8. QED
  BY <1>1, <1>3, <1>4, <1>5, <1>6, <1>7

\* The look-up misses only what is not in the cache, or has the address 0.
LEMMA LookupMisses ==
  ASSUME DnsInv, NEW name, dns_cache_lookup(name) = 0, ~ zero
  PROVE  \A i \in CacheIdx : cache[i].valid => cache[i].name # name
<1> DEFINE hits == {i \in CacheIdx : cache[i].valid /\ cache[i].name = name}
<1>1. hits \subseteq Nat
  BY DnsAssumption DEF CacheIdx
<1>2. ASSUME hits # {} PROVE FALSE
  <2>1. Min(hits) \in hits
    BY <1>1, <1>2, MinOfNats
  <2>2. dns_cache_lookup(name) = cache[Min(hits)].ip
    BY <1>2 DEF dns_cache_lookup
  <2>3. cache[Min(hits)].ip # 0
    BY <2>1 DEF DnsInv, NamesUnique
  <2>4. QED
    BY <2>2, <2>3
<1>3. QED
  BY <1>2

LEMMA ResolveStep ==
  ASSUME DnsInv, NEW p \in Proc, NEW name \in Name, NEW ok \in BOOLEAN, dns_resolve(p, name, ok)
  PROVE  DnsInv'
<1>1. /\ query[p] = NoQuery /\ dns_cache_lookup(name) = 0 /\ ask(p, 1, name, ok)
      /\ raced' = (raced \/ \E o \in Proc : query[o].name = name)
  BY DEF dns_resolve
<1>2. /\ DnsType' /\ IdsUnique' /\ open' = Cardinality(Waiting')
      /\ query' = [query EXCEPT ![p] = query'[p]] /\ cache' = cache /\ zero' = zero
      /\ query'[p].name = name /\ query'[p].stage # 0
  <2>1. ~ query[p].waits /\ name \in AnyName
    BY <1>1 DEF NoQuery, AnyName
  <2>2. QED
    BY <1>1, <2>1, AskStep
<1>3. \A o \in Proc : o # p => query'[o] = query[o]
  BY <1>2 DEF DnsInv, DnsType
<1>4. NamesUnique'
  <2>1. ~ zero' => \A i \in CacheIdx : cache'[i].valid => cache'[i].ip # 0
    BY <1>2 DEF DnsInv, NamesUnique
  <2>2. ~ raced' => \A o, r \in Proc :
          query'[o].stage # 0 /\ query'[r].stage # 0 /\ o # r => query'[o].name # query'[r].name
    <3> SUFFICES ASSUME ~ raced', NEW o \in Proc, NEW r \in Proc, o # r,
                        query'[o].stage # 0, query'[r].stage # 0
                 PROVE  query'[o].name # query'[r].name
      BY Zenon
    <3>1. ~ raced /\ query[o].name # name /\ query[r].name # name /\ query'[p].name = name
      BY <1>1, <1>2, Zenon
    <3>2. CASE o = p
      BY <1>3, <3>1, <3>2, Zenon
    <3>3. CASE r = p
      BY <1>3, <3>1, <3>3, Zenon
    <3>4. CASE o # p /\ r # p
      BY <1>3, <3>1, <3>4, Zenon DEF DnsInv, NamesUnique
    <3>5. QED
      BY <3>2, <3>3, <3>4
  <2>3. ~ raced' /\ ~ zero' => \A o \in Proc, i \in CacheIdx :
          query'[o].stage # 0 /\ cache'[i].valid => cache'[i].name # query'[o].name
    <3> SUFFICES ASSUME ~ raced', ~ zero', NEW o \in Proc, NEW i \in CacheIdx,
                        query'[o].stage # 0, cache'[i].valid
                 PROVE  cache'[i].name # query'[o].name
      BY Zenon
    <3>1. ~ raced /\ ~ zero /\ cache[i].valid /\ cache'[i] = cache[i] /\ query'[p].name = name
      BY <1>1, <1>2, Zenon
    <3>2. CASE o = p
      BY <1>1, <3>1, <3>2, LookupMisses
    <3>3. CASE o # p
      <4>1. query'[o] = query[o]
        BY <1>3, <3>3
      <4>2. query[o].stage # 0 /\ cache[i].valid => cache[i].name # query[o].name
        BY <3>1, Zenon DEF DnsInv, NamesUnique
      <4>3. QED
        BY <3>1, <4>1, <4>2, Zenon
    <3>4. QED
      BY <3>2, <3>3
  <2>4. ~ raced' /\ ~ zero' => \A i, j \in CacheIdx :
          cache'[i].valid /\ cache'[j].valid /\ i # j => cache'[i].name # cache'[j].name
    BY <1>1, <1>2 DEF DnsInv, NamesUnique
  <2>5. QED
    BY <2>1, <2>2, <2>3, <2>4 DEF NamesUnique
<1>5. QED
  BY <1>2, <1>4 DEF DnsInv

LEMMA SecondaryStep ==
  ASSUME DnsInv, NEW p \in Proc, NEW ok \in BOOLEAN, ask_secondary(p, ok)
  PROVE  DnsInv'
<1>1. /\ query[p].stage = 1 /\ ~ query[p].waits
      /\ ask(p, 2, query[p].name, ok) /\ raced' = raced
  BY DEF ask_secondary
<1>2. /\ DnsType' /\ IdsUnique' /\ open' = Cardinality(Waiting')
      /\ query' = [query EXCEPT ![p] = query'[p]] /\ cache' = cache /\ zero' = zero
      /\ query'[p].name = query[p].name /\ query'[p].stage # 0
  <2>1. query[p].name \in AnyName
    BY DEF DnsInv, DnsType, Queries
  <2>2. QED
    BY <1>1, <2>1, AskStep
<1>3. \A o \in Proc : /\ query'[o].name = query[o].name
                      /\ query'[o].stage # 0 => query[o].stage # 0
  BY <1>1, <1>2 DEF DnsInv, DnsType
<1>4. NamesUnique'
  <2>1. NamesUnique /\ UNCHANGED <<cache, raced, zero>>
    BY <1>1, <1>2 DEF DnsInv
  <2>2. QED
    BY <1>3, <2>1 DEF NamesUnique
<1>5. QED
  BY <1>2, <1>4 DEF DnsInv

\* A process stops waiting for its query.
LEMMA OneWaitsLess ==
  ASSUME DnsInv, NEW p \in Proc, query[p].waits, ~ query'[p].waits,
         \A o \in Proc : o # p => query'[o] = query[o]
  PROVE  Cardinality(Waiting') = open - 1
<1>1. p \in Waiting /\ IsFiniteSet(Waiting)
  BY DnsAssumption, FS_Subset DEF Waiting
<1>2. Waiting' = Waiting \ {p}
  BY <1>1 DEF Waiting
<1>3. QED
  BY <1>1, <1>2, FS_RemoveElement DEF DnsInv

LEMMA FailedStep ==
  ASSUME DnsInv, NEW p \in Proc, failed(p)
  PROVE  DnsInv'
<1>1. /\ query[p].waits /\ open' = open - 1
      /\ query' = [query EXCEPT ![p].waits = FALSE]
      /\ UNCHANGED <<cache, next_transaction_id, servers, now, sent, reused, raced, zero>>
  BY DEF failed, AfterFailure
<1>2. /\ query'[p] = [query[p] EXCEPT !.waits = FALSE]
      /\ \A o \in Proc : o # p => query'[o] = query[o]
      /\ query' \in [Proc -> Queries]
  <2>1. query[p] \in Queries /\ query \in [Proc -> Queries]
    BY DEF DnsInv, DnsType
  <2>2. [query[p] EXCEPT !.waits = FALSE] \in Queries
    BY <2>1 DEF Queries
  <2>3. QED
    BY <1>1, <2>1, <2>2
<1>3. \A o \in Proc : /\ query'[o].name = query[o].name /\ query'[o].stage = query[o].stage
                      /\ query'[o].waits => query'[o] = query[o]
  <2>1. /\ query'[p].name = query[p].name /\ query'[p].stage = query[p].stage
        /\ ~ query'[p].waits
    BY <1>2 DEF DnsInv, DnsType, Queries
  <2>2. QED
    BY <1>2, <2>1
<1>4. DnsType'
  BY <1>1, <1>2, <1>3 DEF DnsInv, DnsType
<1>5. IdsUnique' /\ NamesUnique'
  BY <1>1, <1>3 DEF DnsInv, IdsUnique, NamesUnique
<1>6. ~ query'[p].waits
  BY <1>2 DEF DnsInv, DnsType, Queries
<1>7. open' = Cardinality(Waiting')
  BY <1>1, <1>2, <1>6, OneWaitsLess
<1>8. QED
  BY <1>4, <1>5, <1>7 DEF DnsInv

\* The entry a name and its address go into replaces one other entry at most.
Replaces(place, name, of, ip) ==
  \A i \in CacheIdx :
    IF i = place
      THEN cache'[i].name = name /\ cache'[i].of = of /\ cache'[i].ip = ip
      ELSE cache'[i] = cache[i]

LEMMA AddedEntry ==
  ASSUME DnsInv, NEW name \in AnyName, NEW of \in AnyName, NEW ip \in {0, 1},
         dns_cache_add(name, of, ip)
  PROVE  /\ cache' \in [CacheIdx -> Entries]
         /\ \E place : Replaces(place, name, of, ip)
<1> DEFINE entry == [valid |-> TRUE, name |-> name, of |-> of, ip |-> ip, timestamp |-> now]
<1>0. cache \in [CacheIdx -> Entries] /\ now \in Int
  BY DEF DnsInv, DnsType
<1>1. entry \in Entries /\ entry.name = name /\ entry.of = of /\ entry.ip = ip
  BY <1>0 DEF Entries
<1>2. cache' = IF CachePlace = 0 THEN cache ELSE [cache EXCEPT ![CachePlace] = entry]
  BY DEF dns_cache_add
<1> HIDE DEF entry
<1>3. CASE CachePlace = 0
  <2>1. \A i \in CacheIdx : i # 0
    BY DEF CacheIdx
  <2>2. Replaces(0, name, of, ip)
    BY <1>2, <1>3, <2>1 DEF Replaces
  <2>3. QED
    BY <1>0, <1>2, <1>3, <2>2
<1>4. CASE CachePlace # 0
  <2>1. cache' \in [CacheIdx -> Entries]
    BY <1>0, <1>1, <1>2, <1>4
  <2>2. \A i \in CacheIdx : cache'[i] = IF i = CachePlace THEN entry ELSE cache[i]
    BY <1>0, <1>2, <1>4
  <2>3. Replaces(CachePlace, name, of, ip)
    BY <1>1, <2>2 DEF Replaces
  <2>4. QED
    BY <2>1, <2>3
<1>5. QED
  BY <1>3, <1>4

LEMMA AnsweredStep ==
  ASSUME DnsInv, NEW p \in Proc, NEW r \in sent, NEW ip \in {0, 1}, answered(p, r, ip)
  PROVE  DnsInv'
<1>1. /\ query[p].waits /\ r.id = query[p].id
      /\ dns_cache_add(query[p].name, r.name, ip)
      /\ zero' = (zero \/ ip = 0)
      /\ open' = open - 1
      /\ query' = [query EXCEPT ![p] = NoQuery]
      /\ UNCHANGED <<next_transaction_id, servers, now, sent, reused, raced>>
  BY DEF answered, Expected
<1>2. NoQuery \in Queries /\ NoQuery.waits = FALSE /\ NoQuery.stage = 0
  BY DEF NoQuery, Queries, AnyName
<1>3. /\ query' \in [Proc -> Queries] /\ query'[p] = NoQuery
      /\ \A o \in Proc : o # p => query'[o] = query[o]
  BY <1>1, <1>2 DEF DnsInv, DnsType
<1>4. query[p].name \in AnyName /\ r.name \in AnyName /\ query[p].stage # 0 /\ query[p] \in sent
  BY <1>1 DEF DnsInv, DnsType, Queries, IdsUnique
<1>5. cache' \in [CacheIdx -> Entries]
  BY <1>1, <1>4, AddedEntry
<1>6. PICK place : Replaces(place, query[p].name, r.name, ip)
  BY <1>1, <1>4, AddedEntry
<1>7. DnsType'
  BY <1>1, <1>2, <1>3, <1>5 DEF DnsInv, DnsType
<1>8. IdsUnique'
  <2>1. \A o \in Proc : query'[o].waits => query'[o] \in sent'
    BY <1>1, <1>2, <1>3 DEF DnsInv, IdsUnique
  <2>2. ~ reused' => \A q, s \in sent' : q.id = s.id => q = s
    BY <1>1 DEF DnsInv, IdsUnique
  <2>3. ASSUME ~ reused'
        PROVE  \A i \in CacheIdx : cache'[i].valid => cache'[i].of = cache'[i].name
    <3>1. r = query[p]
      BY <1>1, <1>4, <2>3 DEF DnsInv, IdsUnique
    <3>2. QED
      BY <1>1, <1>6, <2>3, <3>1 DEF DnsInv, IdsUnique, Replaces
  <2>4. QED
    BY <2>1, <2>2, <2>3 DEF IdsUnique
<1>9. NamesUnique'
  <2>1. ~ zero' => \A i \in CacheIdx : cache'[i].valid => cache'[i].ip # 0
    BY <1>1, <1>6 DEF DnsInv, NamesUnique, Replaces
  <2>2. ~ raced' => \A o, u \in Proc :
          query'[o].stage # 0 /\ query'[u].stage # 0 /\ o # u => query'[o].name # query'[u].name
    BY <1>1, <1>2, <1>3 DEF DnsInv, NamesUnique
  <2>3. ASSUME ~ raced', ~ zero', NEW o \in Proc, NEW i \in CacheIdx,
               query'[o].stage # 0, cache'[i].valid
        PROVE  cache'[i].name # query'[o].name
    <3>1. ~ raced /\ ~ zero /\ o # p /\ query'[o] = query[o]
      BY <1>1, <1>2, <1>3, <2>3
    <3>2. CASE i = place
      BY <1>4, <1>6, <2>3, <3>1, <3>2 DEF DnsInv, NamesUnique, Replaces
    <3>3. CASE i # place
      BY <1>6, <2>3, <3>1, <3>3 DEF DnsInv, NamesUnique, Replaces
    <3>4. QED
      BY <3>2, <3>3
  <2>4. ASSUME ~ raced', ~ zero', NEW i \in CacheIdx, NEW j \in CacheIdx,
               cache'[i].valid, cache'[j].valid, i # j
        PROVE  cache'[i].name # cache'[j].name
    <3>1. ~ raced /\ ~ zero
      BY <1>1, <2>4
    <3>2. \A k \in CacheIdx : cache[k].valid => cache[k].name # query[p].name
      BY <1>4, <3>1 DEF DnsInv, NamesUnique
    <3>3. CASE i = place
      BY <1>6, <2>4, <3>2, <3>3 DEF Replaces
    <3>4. CASE j = place
      BY <1>6, <2>4, <3>2, <3>4 DEF Replaces
    <3>5. CASE i # place /\ j # place
      BY <1>6, <2>4, <3>1, <3>5 DEF DnsInv, NamesUnique, Replaces
    <3>6. QED
      BY <3>3, <3>4, <3>5
  <2>5. QED
    BY <2>1, <2>2, <2>3, <2>4 DEF NamesUnique
<1>10. open' = Cardinality(Waiting')
  BY <1>1, <1>2, <1>3, OneWaitsLess
<1>11. QED
  BY <1>7, <1>8, <1>9, <1>10 DEF DnsInv

LEMMA DnsInvStep == DnsInv /\ [DnsNext]_dnsVars => DnsInv'
<1> SUFFICES ASSUME DnsInv, [DnsNext]_dnsVars PROVE DnsInv'
  OBVIOUS
<1>1. ASSUME NEW p \in Proc, NEW name \in Name, NEW ok \in BOOLEAN, dns_resolve(p, name, ok)
      PROVE  DnsInv'
  BY <1>1, ResolveStep
<1>2. ASSUME NEW p \in Proc, NEW r \in sent, NEW ip \in {0, 1}, answered(p, r, ip)
      PROVE  DnsInv'
  BY <1>2, AnsweredStep
<1>3. ASSUME NEW p \in Proc, failed(p)
      PROVE  DnsInv'
  BY <1>3, FailedStep
<1>4. ASSUME NEW p \in Proc, NEW ok \in BOOLEAN, ask_secondary(p, ok)
      PROVE  DnsInv'
  BY <1>4, SecondaryStep
<1>5. ASSUME NEW p \in Proc, give_up(p)
      PROVE  DnsInv'
  <2>1. /\ ~ query[p].waits /\ query' = [query EXCEPT ![p] = NoQuery]
        /\ UNCHANGED <<cache, next_transaction_id, servers, open, now, sent, reused, raced, zero>>
    BY <1>5 DEF give_up
  <2>2. NoQuery \in Queries /\ NoQuery.waits = FALSE /\ NoQuery.stage = 0
    BY DEF NoQuery, Queries, AnyName
  <2>3. /\ query' \in [Proc -> Queries] /\ query'[p] = NoQuery
        /\ \A o \in Proc : o # p => query'[o] = query[o]
    BY <2>1, <2>2 DEF DnsInv, DnsType
  <2>4. DnsType' /\ IdsUnique'
    BY <2>1, <2>2, <2>3 DEF DnsInv, DnsType, IdsUnique
  <2>5. NamesUnique'
    BY <2>1, <2>2, <2>3 DEF DnsInv, NamesUnique
  <2>6. Waiting' = Waiting
    BY <2>1, <2>2, <2>3 DEF Waiting
  <2>7. QED
    BY <2>1, <2>4, <2>5, <2>6 DEF DnsInv
<1>6. CASE dns_flush_cache
  <2>1. /\ cache' = [i \in CacheIdx |-> NoEntry]
        /\ UNCHANGED <<next_transaction_id, servers, query, open, now, sent, reused, raced, zero>>
    BY <1>6 DEF dns_flush_cache
  <2>2. NoEntry \in Entries /\ NoEntry.valid = FALSE
    BY DEF NoEntry, Entries, AnyName
  <2>3. cache' \in [CacheIdx -> Entries] /\ \A i \in CacheIdx : ~ cache'[i].valid
    BY <2>1, <2>2
  <2>4. QED
    BY <2>1, <2>3 DEF DnsInv, DnsType, IdsUnique, NamesUnique, Waiting
<1>7. ASSUME NEW pair \in Setting, dns_set_nameserver(pair[1], pair[2])
      PROVE  DnsInv'
  <2>1. /\ servers' = <<pair[1], pair[2]>>
        /\ UNCHANGED <<cache, next_transaction_id, query, open, now, sent, reused, raced, zero>>
    BY <1>7 DEF dns_set_nameserver
  <2>2. servers' \in Server \X (Server \cup {0})
    BY <2>1, DnsAssumption
  <2>3. QED
    BY <2>1, <2>2 DEF DnsInv, DnsType, IdsUnique, NamesUnique, Waiting
<1>8. CASE timer_tick
  <2>1. now' \in Int /\ UNCHANGED <<cache, next_transaction_id, servers, query, open, sent, reused, raced, zero>>
    BY <1>8, DnsAssumption DEF timer_tick, DnsInv, DnsType
  <2>2. QED
    BY <2>1 DEF DnsInv, DnsType, IdsUnique, NamesUnique, Waiting
<1>9. CASE UNCHANGED dnsVars
  BY <1>9 DEF dnsVars, DnsInv, DnsType, IdsUnique, NamesUnique, Waiting
<1>10. QED
  BY <1>1, <1>2, <1>3, <1>4, <1>5, <1>6, <1>7, <1>8, <1>9 DEF DnsNext

\* The inductive invariant of the resolver.
THEOREM DnsInvTheorem == DnsSpec => []DnsInv
<1>1. DnsInit => DnsInv
  BY DnsInvInit
<1>2. DnsInv /\ [DnsNext]_dnsVars => DnsInv'
  BY DnsInvStep
<1>3. QED
  BY <1>1, <1>2, PTL DEF DnsSpec

\* What dns_cache_add has put into the cache for a name was said of that name
\* by a server, whatever answers come late, twice or to another query's socket,
\* until transaction ids are used again; and a name has two entries only after
\* a race of two processes or an address 0.0.0.0.
THEOREM CacheTrueTheorem == DnsSpec => []CacheTrue
<1>1. DnsInv => CacheTrue
  BY DEF DnsInv, IdsUnique, NamesUnique, CacheTrue
<1>2. QED
  BY <1>1, DnsInvTheorem, PTL

\* send_dns_query closes its socket on every path.
THEOREM SocketsClosedTheorem == DnsSpec => []SocketsClosed
<1>1. DnsInv => SocketsClosed
  BY DEF DnsInv, Waiting, SocketsClosed
<1>2. QED
  BY <1>1, DnsInvTheorem, PTL

-----------------------------------------------------------------------------
(***************************************************************************)
(* IP: pages, counters and the ARP table                                   *)
(***************************************************************************)
Stats == [in_packets : Nat, in_hdr_errors : Nat, in_addr_errors : Nat,
          in_unknown_protos : Nat, in_discards : Nat, in_delivers : Nat,
          out_requests : Nat, out_discards : Nat, out_no_routes : Nat]

ArpEntry == [valid : BOOLEAN, ip : Host \cup {"none"}, last_used : Nat]

Received(st) == st.in_hdr_errors + st.in_addr_errors + st.in_discards + st.in_delivers
Sent(st)     == st.out_requests + st.out_discards + st.out_no_routes

\* The entry a process has been given the pointer to is the one of its
\* destination, unless that entry has been overwritten for another address.
SendingInv ==
  sending # Idle =>
    /\ sending.slot \in Slots
    /\ ~ evicted => /\ arp_cache[sending.slot].valid
                    /\ arp_cache[sending.slot].ip = sending.dst

IpType ==
  /\ arp_cache \in [Slots -> ArpEntry]
  /\ stats \in Stats
  /\ used \in Nat /\ others \in Nat /\ frames \in Nat /\ calls \in Nat /\ ticks \in Nat

\* PacketsAccounted, with the two sums.
Accounts ==
  /\ used = others + (IF sending = Idle THEN 0 ELSE 2)
  /\ frames = Received(stats) /\ calls = Sent(stats) /\ ~ strayed

IpInv == IpType /\ SendingInv /\ Accounts

\* What each counter adds to the two sums.
LEMMA CountedResult ==
  ASSUME NEW st \in Stats
  PROVE  /\ \A f \in {"in_hdr_errors", "in_addr_errors", "in_discards", "in_delivers"} :
              /\ Counted(st, f) \in Stats
              /\ Received(Counted(st, f)) = Received(st) + 1
              /\ Sent(Counted(st, f)) = Sent(st)
         /\ \A f \in {"out_requests", "out_discards", "out_no_routes"} :
              /\ Counted(st, f) \in Stats
              /\ Received(Counted(st, f)) = Received(st)
              /\ Sent(Counted(st, f)) = Sent(st) + 1
         /\ \A f \in {"in_packets", "in_unknown_protos"} :
              /\ Counted(st, f) \in Stats
              /\ Received(Counted(st, f)) = Received(st)
              /\ Sent(Counted(st, f)) = Sent(st)
<1>1. ASSUME NEW f \in {"in_hdr_errors", "in_addr_errors", "in_discards", "in_delivers"}
      PROVE  /\ Counted(st, f) \in Stats
             /\ Received(Counted(st, f)) = Received(st) + 1
             /\ Sent(Counted(st, f)) = Sent(st)
  BY DEF Stats, Counted, Received, Sent
<1>2. ASSUME NEW f \in {"out_requests", "out_discards", "out_no_routes"}
      PROVE  /\ Counted(st, f) \in Stats
             /\ Received(Counted(st, f)) = Received(st)
             /\ Sent(Counted(st, f)) = Sent(st) + 1
  BY DEF Stats, Counted, Received, Sent
<1>3. ASSUME NEW f \in {"in_packets", "in_unknown_protos"}
      PROVE  /\ Counted(st, f) \in Stats
             /\ Received(Counted(st, f)) = Received(st)
             /\ Sent(Counted(st, f)) = Sent(st)
  BY DEF Stats, Counted, Received, Sent
<1>4. QED
  BY <1>1, <1>2, <1>3

\* arp_resolve notes the time of its use in an entry and leaves its address.
SameAddresses(old, new) ==
  /\ new \in [Slots -> ArpEntry]
  /\ \A i \in Slots : new[i].valid = old[i].valid /\ new[i].ip = old[i].ip

LEMMA ResolveResult ==
  ASSUME IpType, NEW table \in [Slots -> ArpEntry], NEW dst
  PROVE  LET r == arp_resolve(table, dst) IN
         /\ SameAddresses(table, r.cache)
         /\ r.slot # 0 => /\ r.slot \in Slots
                          /\ table[r.slot].valid /\ table[r.slot].ip = dst
<1> DEFINE hits == ArpHits(table, dst)
           i    == Min(hits)
<1>1. CASE hits = {}
  BY <1>1 DEF arp_resolve, SameAddresses
<1>2. CASE hits # {}
  <2>1. hits \subseteq Nat
    BY IpAssumption DEF ArpHits, Slots
  <2>2. i \in hits
    BY <1>2, <2>1, MinOfNats
  <2>3. i \in Slots /\ table[i].valid /\ table[i].ip = dst
    BY <2>2 DEF ArpHits
  <2>4. arp_resolve(table, dst) = [slot |-> i, cache |-> [table EXCEPT ![i].last_used = ticks]]
    BY <1>2 DEF arp_resolve
  <2> HIDE DEF i
  <2>5. [table[i] EXCEPT !.last_used = ticks] \in ArpEntry
    BY <2>3 DEF IpType, ArpEntry
  <2>6. SameAddresses(table, [table EXCEPT ![i].last_used = ticks])
    <3> DEFINE new == [table EXCEPT ![i].last_used = ticks]
    <3>1. new \in [Slots -> ArpEntry]
      BY <2>3, <2>5
    <3>2. \A j \in Slots : j # i => new[j] = table[j]
      BY <2>3
    <3>3. new[i].valid = table[i].valid /\ new[i].ip = table[i].ip
      BY <2>3 DEF ArpEntry
    <3>4. QED
      BY <3>1, <3>2, <3>3 DEF SameAddresses
  <2>7. QED
    BY <2>3, <2>4, <2>6
<1>3. QED
  BY <1>1, <1>2

\* What a call leaves that is over: the pages it had are free again, and it has
\* been counted k times.
Over(n, table, st, r, k) ==
  /\ r.used = n /\ SameAddresses(table, r.cache)
  /\ r.stats \in Stats /\ Received(r.stats) = Received(st) /\ Sent(r.stats) = Sent(st) + k

\* What a call leaves that can go on.
Addressed(n, table, st, r, dst) ==
  /\ r.used = n + 1 /\ SameAddresses(table, r.cache) /\ r.stats = st
  /\ r.slot \in Slots /\ table[r.slot].valid /\ table[r.slot].ip = dst

LEMMA SendBeginResult ==
  ASSUME IpType, NEW n \in Nat, NEW table \in [Slots -> ArpEntry], NEW st \in Stats, NEW dst
  PROVE  LET b == SendBegin(n, table, st, dst) IN
         \/ b.slot = 0 /\ Over(n, table, st, b, 1)
         \/ b.slot # 0 /\ Addressed(n, table, st, b, dst)
<1> DEFINE r == arp_resolve(table, dst)
           x == [used |-> n, cache |-> table, stats |-> Counted(st, "out_discards"), slot |-> 0]
           y == [used |-> n, cache |-> table, stats |-> Counted(st, "out_no_routes"), slot |-> 0]
           z == [used |-> n + 1, cache |-> r.cache, stats |-> st, slot |-> r.slot]
<1>1. SendBegin(n, table, st, dst) =
        IF n >= HeapPages THEN x ELSE IF r.slot = 0 THEN y ELSE z
  BY DEF SendBegin, AfterMiss
<1>2. /\ SameAddresses(table, r.cache)
      /\ r.slot # 0 => r.slot \in Slots /\ table[r.slot].valid /\ table[r.slot].ip = dst
  BY ResolveResult
<1> HIDE DEF r
<1>3. SameAddresses(table, table)
  BY DEF SameAddresses
<1>4. x.slot = 0 /\ Over(n, table, st, x, 1)
  BY <1>3, CountedResult DEF Over
<1>5. y.slot = 0 /\ Over(n, table, st, y, 1)
  BY <1>3, CountedResult DEF Over
<1>6. r.slot # 0 => z.slot # 0 /\ Addressed(n, table, st, z, dst)
  BY <1>2 DEF Addressed
<1> HIDE DEF x, y, z
<1>7. QED
  BY <1>1, <1>4, <1>5, <1>6

LEMMA SendPacketResult ==
  ASSUME IpType, NEW n \in Nat, NEW table \in [Slots -> ArpEntry], NEW st \in Stats, NEW dst,
         NEW ok \in BOOLEAN
  PROVE  Over(n, table, st, ip_send_packet(n, table, st, dst, ok), 1)
<1> DEFINE b == SendBegin(n, table, st, dst)
           r == [b EXCEPT !.used = @ - 1, !.stats = AfterFrame(@, ok)]
<1>1. ip_send_packet(n, table, st, dst, ok) = IF b.slot = 0 THEN b ELSE r
  BY DEF ip_send_packet
<1>2. \/ b.slot = 0 /\ Over(n, table, st, b, 1)
      \/ b.slot # 0 /\ Addressed(n, table, st, b, dst)
  BY SendBeginResult
<1>3. \E u, v, w, x : b = [used |-> u, cache |-> v, stats |-> w, slot |-> x]
  BY DEF SendBegin
<1> HIDE DEF b
<1>4. CASE b.slot = 0
  BY <1>1, <1>2, <1>4
<1>5. CASE b.slot # 0
  <2>1. Addressed(n, table, st, b, dst)
    BY <1>2, <1>5
  <2>2. r.used = n /\ r.cache = b.cache /\ r.stats = AfterFrame(st, ok)
    BY <1>3, <2>1 DEF Addressed
  <2>3. /\ AfterFrame(st, ok) \in Stats /\ Received(AfterFrame(st, ok)) = Received(st)
        /\ Sent(AfterFrame(st, ok)) = Sent(st) + 1
    BY CountedResult DEF AfterFrame
  <2> HIDE DEF r
  <2>4. Over(n, table, st, r, 1)
    BY <2>1, <2>2, <2>3 DEF Over, Addressed
  <2>5. QED
    BY <1>1, <1>5, <2>4
<1>6. QED
  BY <1>4, <1>5

LEMMA EchoReplyResult ==
  ASSUME IpType, NEW n \in Nat, NEW table \in [Slots -> ArpEntry], NEW st \in Stats, NEW dst,
         NEW ok \in BOOLEAN
  PROVE  Over(n, table, st, icmp_send_echo_reply(n, table, st, dst, ok), Called(n))
<1> DEFINE r == ip_send_packet(n + 1, table, st, dst, ok)
           x == [used |-> n, cache |-> table, stats |-> st, slot |-> 0]
           z == [r EXCEPT !.used = @ - 1]
<1>1. icmp_send_echo_reply(n, table, st, dst, ok) = IF n >= HeapPages THEN x ELSE z
  BY DEF icmp_send_echo_reply
<1>2. Over(n + 1, table, st, r, 1)
  BY SendPacketResult
<1>3. \E u, v, w, y : r = [used |-> u, cache |-> v, stats |-> w, slot |-> y]
  BY DEF ip_send_packet, SendBegin
<1> HIDE DEF r
<1>4. z.used = n /\ z.cache = r.cache /\ z.stats = r.stats
  BY <1>2, <1>3 DEF Over
<1>5. Over(n, table, st, z, 1)
  <2> HIDE DEF z
  <2>1. QED
    BY <1>2, <1>4 DEF Over
<1>6. Over(n, table, st, x, 0)
  <2>1. Sent(st) \in Nat
    BY DEF Sent, Stats
  <2>2. QED
    BY <2>1 DEF Over, SameAddresses
<1> HIDE DEF x, z
<1>7. QED
  BY <1>1, <1>5, <1>6 DEF Called

\* An address is learnt: one entry is written, and a process that holds that
\* entry's address still finds its own there or an eviction on record.
LEMMA LearntResult ==
  ASSUME IpInv, NEW src \in Host, NEW place \in Places(arp_cache, src)
  PROVE  LET learnt == Learnt(arp_cache, src, place) IN
         /\ place \in Slots /\ learnt \in [Slots -> ArpEntry]
         /\ \A i \in Slots :
              IF i = place THEN learnt[i].valid /\ learnt[i].ip = src ELSE learnt[i] = arp_cache[i]
<1>1. place \in Slots
  <2>1. {i \in Slots : ~ arp_cache[i].valid} \subseteq Nat
    BY IpAssumption DEF Slots
  <2>2. {i \in Slots : ~ arp_cache[i].valid} # {} =>
          Min({i \in Slots : ~ arp_cache[i].valid}) \in Slots
    BY <2>1, MinOfNats
  <2>3. QED
    BY <2>2 DEF Places
<1> DEFINE entry == [valid |-> TRUE, ip |-> src, last_used |-> ticks]
<1>2. entry \in ArpEntry /\ entry.valid /\ entry.ip = src
  BY DEF IpInv, IpType, ArpEntry
<1>3. arp_cache \in [Slots -> ArpEntry] /\ Learnt(arp_cache, src, place) = [arp_cache EXCEPT ![place] = entry]
  BY DEF IpInv, IpType, Learnt
<1> HIDE DEF entry
<1>4. QED
  BY <1>1, <1>2, <1>3

\* An address is learnt, and then the entries may be marked as used.
LEMMA LearntSending ==
  ASSUME IpInv, NEW src \in Host, NEW place \in Places(arp_cache, src),
         SameAddresses(Learnt(arp_cache, src, place), arp_cache'),
         evicted' = (evicted \/ (arp_cache[place].valid /\ arp_cache[place].ip # src)),
         sending' = sending
  PROVE  SendingInv'
<1> DEFINE learnt == Learnt(arp_cache, src, place)
<1>1. /\ place \in Slots
      /\ \A i \in Slots :
           IF i = place THEN learnt[i].valid /\ learnt[i].ip = src ELSE learnt[i] = arp_cache[i]
  BY LearntResult
<1>2. \A i \in Slots : arp_cache'[i].valid = learnt[i].valid /\ arp_cache'[i].ip = learnt[i].ip
  BY DEF SameAddresses
<1> HIDE DEF learnt
<1> SUFFICES ASSUME sending # Idle
             PROVE  /\ sending.slot \in Slots
                    /\ ~ evicted' => /\ arp_cache'[sending.slot].valid
                                     /\ arp_cache'[sending.slot].ip = sending.dst
  BY DEF SendingInv, Idle
<1>3. /\ sending.slot \in Slots
      /\ ~ evicted => arp_cache[sending.slot].valid /\ arp_cache[sending.slot].ip = sending.dst
  BY DEF IpInv, SendingInv
<1>4. CASE sending.slot = place
  BY <1>1, <1>2, <1>3, <1>4
<1>5. CASE sending.slot # place
  BY <1>1, <1>2, <1>3, <1>5
<1>6. QED
  BY <1>3, <1>4, <1>5

LEMMA IpInvInit == IpInit => IpInv
<1> SUFFICES ASSUME IpInit PROVE IpInv
  OBVIOUS
<1>1. arp_cache \in [Slots -> ArpEntry]
  BY DEF IpInit, ArpEntry
<1>2. stats \in Stats /\ Received(stats) = 0 /\ Sent(stats) = 0
  BY DEF IpInit, Stats, Received, Sent
<1>3. QED
  BY <1>1, <1>2 DEF IpInit, IpInv, IpType, SendingInv, Accounts

LEMMA BeginStep ==
  ASSUME IpInv, NEW dst \in Host, send_echo_begin(dst)
  PROVE  IpInv'
<1> DEFINE b == SendBegin(used + 1, arp_cache, stats, dst)
<1>0. IpType /\ SendingInv /\ Accounts /\ used \in Nat /\ calls \in Nat
  BY DEF IpInv, IpType
<1>1. /\ sending = Idle /\ arp_cache' = b.cache /\ stats' = b.stats /\ evicted' = FALSE
      /\ IF b.slot = 0
           THEN used' = b.used - 1 /\ calls' = calls + 1 /\ UNCHANGED sending
           ELSE used' = b.used /\ sending' = [dst |-> dst, slot |-> b.slot] /\ UNCHANGED calls
      /\ UNCHANGED <<driver_send, others, frames, strayed, ticks>>
  BY DEF send_echo_begin
<1>2. \/ b.slot = 0 /\ Over(used + 1, arp_cache, stats, b, 1)
      \/ b.slot # 0 /\ Addressed(used + 1, arp_cache, stats, b, dst)
  BY <1>0, SendBeginResult DEF IpType
<1> HIDE DEF b
<1>3. CASE b.slot = 0
  <2>1. /\ used' = used /\ calls' = calls + 1 /\ sending' = sending
        /\ stats' \in Stats /\ Received(stats') = Received(stats) /\ Sent(stats') = Sent(stats) + 1
        /\ arp_cache' \in [Slots -> ArpEntry]
    BY <1>0, <1>1, <1>2, <1>3 DEF Over, SameAddresses
  <2>2. IpType'
    BY <1>0, <1>1, <2>1 DEF IpType
  <2>3. Accounts'
    BY <1>0, <1>1, <2>1 DEF Accounts
  <2>4. SendingInv'
    BY <1>1, <2>1 DEF SendingInv, Idle
  <2>5. QED
    BY <2>2, <2>3, <2>4 DEF IpInv
<1>4. CASE b.slot # 0
  <2>1. /\ used' = used + 2 /\ calls' = calls /\ stats' = stats
        /\ sending' = [dst |-> dst, slot |-> b.slot]
        /\ b.slot \in Slots /\ arp_cache[b.slot].valid /\ arp_cache[b.slot].ip = dst
        /\ SameAddresses(arp_cache, arp_cache')
    BY <1>0, <1>1, <1>2, <1>4 DEF Addressed
  <2>2. IpType'
    BY <1>0, <1>1, <2>1 DEF IpType, SameAddresses
  <2>3. sending' # Idle /\ sending'.slot = b.slot /\ sending'.dst = dst
    BY <1>4, <2>1 DEF Idle
  <2>4. Accounts'
    <3>1. used' = others' + 2
      BY <1>0, <1>1, <2>1 DEF Accounts, IpType
    <3>2. QED
      BY <1>0, <1>1, <2>1, <2>3, <3>1 DEF Accounts
  <2>5. SendingInv'
    BY <2>1, <2>3 DEF SendingInv, SameAddresses
  <2>6. QED
    BY <2>2, <2>4, <2>5 DEF IpInv
<1>5. QED
  BY <1>3, <1>4

LEMMA EndStep ==
  ASSUME IpInv, NEW ok \in BOOLEAN, send_echo_end(ok)
  PROVE  IpInv'
<1>0. IpType /\ SendingInv /\ Accounts /\ stats \in Stats
  BY DEF IpInv, IpType
<1>1. /\ sending # Idle /\ sending' = Idle
      /\ strayed' = (strayed \/ (~ evicted /\ arp_cache[sending.slot].ip # sending.dst))
      /\ stats' = AfterFrame(stats, ok)
      /\ used' = used - 2 /\ calls' = calls + 1
      /\ UNCHANGED <<arp_cache, others, frames, evicted, ticks>>
  BY DEF send_echo_end
<1>2. /\ stats' \in Stats /\ Received(stats') = Received(stats)
      /\ Sent(stats') = Sent(stats) + 1
  BY <1>0, <1>1, CountedResult DEF AfterFrame
<1>3. used' = others
  BY <1>0, <1>1 DEF Accounts, IpType
<1>4. IpType'
  BY <1>0, <1>1, <1>2, <1>3 DEF IpType
<1>5. ~ strayed'
  BY <1>0, <1>1 DEF SendingInv, Accounts
<1>6. Accounts'
  <2>1. others' \in Nat /\ used' = others' /\ frames' = Received(stats') /\ calls' = Sent(stats')
    BY <1>0, <1>1, <1>2, <1>3 DEF Accounts, IpType
  <2>2. QED
    BY <1>1, <1>5, <2>1 DEF Accounts
<1>7. SendingInv'
  BY <1>1 DEF SendingInv, Idle
<1>8. QED
  BY <1>4, <1>6, <1>7 DEF IpInv

LEMMA ArpStep ==
  ASSUME IpInv, NEW src \in Host, arp_handle_packet(src)
  PROVE  IpInv'
<1>0. IpType /\ Accounts
  BY DEF IpInv
<1>1. PICK place \in Places(arp_cache, src) :
        /\ arp_cache' = Learnt(arp_cache, src, place)
        /\ evicted' = (evicted \/ (arp_cache[place].valid /\ arp_cache[place].ip # src))
  BY DEF arp_handle_packet
<1>2. UNCHANGED <<used, others, sending, stats, frames, calls, strayed, ticks>>
  BY DEF arp_handle_packet
<1>3. arp_cache' \in [Slots -> ArpEntry]
  BY <1>1, LearntResult
<1>4. SameAddresses(Learnt(arp_cache, src, place), arp_cache')
  BY <1>1, <1>3 DEF SameAddresses
<1>5. SendingInv'
  BY <1>1, <1>2, <1>4, LearntSending
<1>6. IpType' /\ Accounts'
  BY <1>0, <1>2, <1>3 DEF IpType, Accounts, Idle
<1>7. QED
  BY <1>5, <1>6 DEF IpInv

LEMMA FlawedStep ==
  ASSUME IpInv, NEW flaw \in Flaws, input_flawed(flaw)
  PROVE  IpInv'
<1>0. IpType /\ SendingInv /\ Accounts /\ stats \in Stats
  BY DEF IpInv, IpType
<1>1. /\ frames' = frames + 1 /\ stats' = ip_validate_header(stats, flaw)
      /\ UNCHANGED <<arp_cache, used, others, sending, calls, evicted, strayed, ticks>>
  BY DEF input_flawed
<1>2. PICK f \in {"in_hdr_errors", "in_addr_errors", "in_discards"} :
        stats' = Counted(stats, f)
  BY <1>1 DEF ip_validate_header
<1>3. /\ stats' \in Stats /\ Received(stats') = Received(stats) + 1
      /\ Sent(stats') = Sent(stats)
  <2>1. /\ Counted(stats, f) \in Stats
        /\ Received(Counted(stats, f)) = Received(stats) + 1
        /\ Sent(Counted(stats, f)) = Sent(stats)
    BY <1>0, <1>2, CountedResult
  <2>2. QED
    BY <1>2, <2>1
<1>4. IpType' /\ Accounts'
  BY <1>0, <1>1, <1>3 DEF IpType, Accounts, Idle
<1>5. SendingInv'
  BY <1>0, <1>1 DEF SendingInv, Idle
<1>6. QED
  BY <1>4, <1>5 DEF IpInv

\* A frame without flaw is counted as delivered or as discarded, once.
LEMMA InputStatsResult ==
  ASSUME NEW st \in Stats, NEW dst, NEW proto
  PROVE  LET r == InputStats(st, dst, proto) IN
         r \in Stats /\ Received(r) = Received(st) + 1 /\ Sent(r) = Sent(st)
<1> DEFINE in    == Counted(st, "in_packets")
           known == IF proto = "unknown" THEN Counted(in, "in_unknown_protos") ELSE in
<1>1. in \in Stats /\ Received(in) = Received(st) /\ Sent(in) = Sent(st)
  BY CountedResult
<1>2. InputStats(st, dst, proto) =
        IF ForUs(dst) THEN Counted(known, "in_delivers") ELSE Counted(in, "in_discards")
  BY DEF InputStats
<1> HIDE DEF in
<1>3. known \in Stats /\ Received(known) = Received(st) /\ Sent(known) = Sent(st)
  BY <1>1, CountedResult
<1> HIDE DEF known
<1>4. LET x == Counted(known, "in_delivers") IN
      x \in Stats /\ Received(x) = Received(known) + 1 /\ Sent(x) = Sent(known)
  BY <1>3, CountedResult
<1>5. LET x == Counted(in, "in_discards") IN
      x \in Stats /\ Received(x) = Received(in) + 1 /\ Sent(x) = Sent(in)
  BY <1>1, CountedResult
<1>6. QED
  BY <1>1, <1>2, <1>3, <1>4, <1>5

\* Whatever a frame makes the handler send is over when the handler returns.
LEMMA InputStep ==
  ASSUME IpInv, NEW src \in Host, NEW dst, NEW proto \in {"echo", "icmp", "UDP", "TCP", "unknown"},
         NEW sum, NEW ok \in BOOLEAN, ip_input(src, dst, proto, sum, ok)
  PROVE  IpInv'
<1>0. IpType /\ Accounts /\ stats \in Stats /\ used \in Nat /\ calls \in Nat
  BY DEF IpInv, IpType
<1> DEFINE st        == InputStats(stats, dst, proto)
           learnt(i) == Learnt(arp_cache, src, i)
           quiet(i)  == [used |-> used, cache |-> learnt(i), stats |-> st, slot |-> 0]
           reply(i)  == icmp_send_echo_reply(used, learnt(i), st, src, ok)
           r(i)      == IF Answers(dst, proto, sum) THEN reply(i) ELSE quiet(i)
           k         == IF Answers(dst, proto, sum) THEN Called(used) ELSE 0
<1>1. PICK i \in Places(arp_cache, src) :
        /\ arp_cache' = r(i).cache /\ used' = r(i).used /\ stats' = r(i).stats
        /\ evicted' = (evicted \/ (arp_cache[i].valid /\ arp_cache[i].ip # src))
        /\ calls' = calls + k
  BY DEF ip_input, Answers, icmp_handle_packet, icmp_send_dest_unreachable
<1>2. frames' = frames + 1 /\ UNCHANGED <<others, sending, strayed, ticks>>
  BY DEF ip_input
<1>3. st \in Stats /\ Received(st) = Received(stats) + 1 /\ Sent(st) = Sent(stats)
  BY <1>0, InputStatsResult
<1>4. learnt(i) \in [Slots -> ArpEntry]
  BY LearntResult
<1> HIDE DEF st, learnt
<1>5. Over(used, learnt(i), st, reply(i), Called(used))
  BY <1>0, <1>3, <1>4, EchoReplyResult
<1>6. Over(used, learnt(i), st, quiet(i), 0)
  <2>1. Sent(st) \in Nat
    BY <1>3 DEF Sent, Stats
  <2>2. QED
    BY <1>3, <1>4, <2>1 DEF Over, SameAddresses
<1> HIDE DEF quiet, reply
<1>7. Over(used, learnt(i), st, r(i), k)
  BY <1>5, <1>6
<1>8. k \in Nat
  BY DEF Called
<1> HIDE DEF r, k
<1>9. /\ used' = used /\ stats' \in Stats
      /\ Received(stats') = Received(stats) + 1 /\ Sent(stats') = Sent(stats) + k
      /\ SameAddresses(learnt(i), arp_cache')
  BY <1>1, <1>3, <1>7 DEF Over
<1>10. SendingInv'
  BY <1>1, <1>2, <1>9, LearntSending DEF learnt
<1>11. IpType'
  BY <1>0, <1>1, <1>2, <1>8, <1>9 DEF IpType, SameAddresses
<1>12. Accounts'
  BY <1>0, <1>1, <1>2, <1>9 DEF Accounts, Idle
<1>13. QED
  BY <1>10, <1>11, <1>12 DEF IpInv

LEMMA IpInvStep == IpInv /\ [IpNext]_ipVars => IpInv'
<1> SUFFICES ASSUME IpInv, [IpNext]_ipVars PROVE IpInv'
  OBVIOUS
<1>0. IpType /\ SendingInv /\ Accounts
  BY DEF IpInv
<1>1. CASE ethernet_init
  BY <1>0, <1>1 DEF ethernet_init, IpInv, IpType, SendingInv, Accounts, Idle
<1>2. CASE Elsewhere
  <2>1. /\ UNCHANGED <<arp_cache, sending, stats, frames, calls, evicted, strayed>>
        /\ \E d \in {-1, 0, 1} : used' = used + d /\ others' = others + d
        /\ used' \in Nat /\ others' \in Nat /\ ticks' \in Nat
    BY <1>0, <1>2 DEF Elsewhere, IpType, Accounts
  <2>2. IpType'
    BY <1>0, <2>1 DEF IpType
  <2>3. SendingInv'
    BY <1>0, <2>1 DEF SendingInv, Idle
  <2>4. Accounts'
    <3>1. used' = others' + (IF sending = Idle THEN 0 ELSE 2)
      <4> DEFINE kept == IF sending = Idle THEN 0 ELSE 2
      <4>1. kept \in Nat /\ used = others + kept /\ used \in Nat /\ others \in Nat
        BY <1>0 DEF Accounts, IpType
      <4> HIDE DEF kept
      <4>2. used' = others' + kept
        BY <2>1, <4>1
      <4>3. QED
        BY <4>2 DEF kept
    <3>2. QED
      BY <1>0, <2>1, <3>1 DEF Accounts
  <2>5. QED
    BY <2>2, <2>3, <2>4 DEF IpInv
<1>3. CASE \E dst \in Host : send_echo_begin(dst)
  BY <1>3, BeginStep
<1>4. CASE \E ok \in BOOLEAN : send_echo_end(ok)
  BY <1>4, EndStep
<1>5. CASE \E src \in Host : arp_handle_packet(src)
  BY <1>5, ArpStep
<1>6. CASE \E flaw \in Flaws : input_flawed(flaw)
  BY <1>6, FlawedStep
<1>7. CASE \E src \in Host, dst \in {"local", "broadcast", "other"},
              proto \in {"echo", "icmp", "UDP", "TCP", "unknown"}, sum \in 0 .. AllOnes,
              ok \in BOOLEAN : ip_input(src, dst, proto, sum, ok)
  BY <1>7, InputStep
<1>8. CASE UNCHANGED ipVars
  BY <1>0, <1>8 DEF ipVars, IpInv, IpType, SendingInv, Accounts, Idle
<1>9. QED
  BY <1>1, <1>2, <1>3, <1>4, <1>5, <1>6, <1>7, <1>8 DEF IpNext

\* The inductive invariant of IP, ARP and ICMP: the entry of the ARP table a
\* process points at while a frame may come in is its destination's.
THEOREM IpInvTheorem == IpSpec => []IpInv
<1>1. QED
  BY IpInvInit, IpInvStep, PTL DEF IpSpec

\* Whatever fails and whenever a frame comes in: ip_send_packet and its callers
\* free their pages, every frame and every call is counted once, and a packet
\* goes to the host it is for unless its ARP entry was evicted meanwhile.
THEOREM PacketsAccountedTheorem == IpSpec => []PacketsAccounted
<1>1. IpInv => PacketsAccounted
  BY DEF IpInv, Accounts, Received, Sent, PacketsAccounted
<1>2. QED
  BY <1>1, IpInvTheorem, PTL

-----------------------------------------------------------------------------
(***************************************************************************)
(* UDP                                                                     *)
(***************************************************************************)

(***************************************************************************)
(* The packets of a queue                                                  *)
(***************************************************************************)
Packet == [page : Pages, len : Nat]

PacketPages(q) == {q[i].page : i \in DOMAIN q}

PagesDiffer(q) == \A i, j \in DOMAIN q : q[i].page = q[j].page => i = j

\* f[k] is the bytes of the first k packets.
SumsUp(f, q) == f[0] = 0 /\ \A k \in 1 .. Len(q) : f[k] = f[k - 1] + q[k].len

LEMMA BytesSum ==
  ASSUME NEW q \in Seq(Packet)
  PROVE  \E f \in [0 .. Len(q) -> Nat] : SumsUp(f, q) /\ Bytes(q) = f[Len(q)]
<1> DEFINE n == Len(q)
           F == [k \in 1 .. n |-> [s \in Nat |-> s + q[k].len]]
           P(f) == f = [k \in 0 .. n |-> IF k = 0 THEN 0 ELSE f[k - 1] + q[k].len]
           sum == CHOOSE f : P(f)
<1>1. n \in Nat /\ \A k \in 1 .. n : q[k].len \in Nat
  <2>1. n \in Nat /\ \A k \in 1 .. n : q[k] \in Packet
    BY LenProperties, ElementOfSeq
  <2>2. QED
    BY <2>1 DEF Packet
<1>2. F \in [1 .. n -> [Nat -> Nat]]
  BY <1>1
<1> HIDE DEF n
<1>3. PICK g \in [0 .. n -> Nat] : Rounds(g, 0, F, n)
  <2> HIDE DEF F
  <2>1. 0 \in Nat
    OBVIOUS
  <2>2. QED
    BY <1>1, <1>2, <2>1, LoopExists
<1>4. \A k \in 1 .. n : g[k] = g[k - 1] + q[k].len
  <2>1. TAKE k \in 1 .. n
  <2>2. k - 1 \in 0 .. n
    BY <1>1
  <2>3. g[k - 1] \in Nat /\ g[k] = F[k][g[k - 1]]
    BY <1>3, <2>2 DEF Rounds
  <2>4. QED
    BY <2>3
<1>5. \A k \in 0 .. n : g[k] = IF k = 0 THEN 0 ELSE g[k - 1] + q[k].len
  <2>1. TAKE k \in 0 .. n
  <2>2. k = 0 \/ k \in 1 .. n
    BY <1>1
  <2>3. QED
    BY <1>3, <1>4, <2>2 DEF Rounds
<1>6. P(g)
  BY <1>5
<1>7. P(sum)
  BY <1>6
<1> HIDE DEF sum
<1>8. \A k \in 0 .. n : sum[k] = IF k = 0 THEN 0 ELSE sum[k - 1] + q[k].len
  BY <1>7
<1> DEFINE Q == {k \in 0 .. n : sum[k] = g[k]}
<1>9. 0 \in Q /\ \A k \in 1 .. n : k - 1 \in Q => k \in Q
  BY <1>1, <1>5, <1>8
<1>10. n \in Q
  <2> HIDE DEF Q
  <2>1. QED
    BY <1>1, <1>9, RoundInduction
<1>11. Bytes(q) = sum[n]
  BY DEF Bytes, sum, n
<1>12. SumsUp(g, q) /\ Bytes(q) = g[n]
  BY <1>3, <1>4, <1>10, <1>11 DEF SumsUp, Rounds, n
<1>13. QED
  BY <1>12 DEF n

\* The sums of a queue are determined by it.
LEMMA BytesIs ==
  ASSUME NEW q \in Seq(Packet), NEW f, SumsUp(f, q)
  PROVE  Bytes(q) = f[Len(q)]
<1>1. PICK g \in [0 .. Len(q) -> Nat] : SumsUp(g, q) /\ Bytes(q) = g[Len(q)]
  BY BytesSum
<1>2. Len(q) \in Nat
  BY LenProperties
<1> DEFINE n == Len(q)
           Q == {k \in 0 .. n : f[k] = g[k]}
<1> HIDE DEF n
<1>3. 0 \in Q /\ \A k \in 1 .. n : k - 1 \in Q => k \in Q
  BY <1>1, <1>2 DEF SumsUp, n
<1>4. n \in Q
  <2> HIDE DEF Q
  <2>1. QED
    BY <1>2, <1>3, RoundInduction DEF n
<1>5. QED
  BY <1>1, <1>4 DEF n

LEMMA PacketAppended ==
  ASSUME NEW q \in Seq(Packet), NEW x \in Packet, NEW r, r = Append(q, x)
  PROVE  /\ r \in Seq(Packet) /\ Bytes(r) = Bytes(q) + x.len
         /\ PacketPages(r) = PacketPages(q) \cup {x.page}
         /\ PagesDiffer(q) /\ x.page \notin PacketPages(q) => PagesDiffer(r)
<1>1. PICK n \in Nat : n = Len(q)
  BY LenProperties
<1>2. /\ r \in Seq(Packet) /\ Len(r) = n + 1 /\ DOMAIN r = 1 .. n + 1 /\ DOMAIN q = 1 .. n
      /\ (\A i \in 1 .. n : r[i] = q[i]) /\ r[n + 1] = x
  BY <1>1, QueueGrown
<1>3. /\ \A i \in 1 .. n + 1 : i \in 1 .. n \/ i = n + 1
      /\ \A i \in 1 .. n : i \in 1 .. n + 1
      /\ n + 1 \in 1 .. n + 1
  OBVIOUS
<1>4. Bytes(r) = Bytes(q) + x.len
  <2>1. PICK f \in [0 .. n -> Nat] : SumsUp(f, q) /\ Bytes(q) = f[n]
    BY <1>1, BytesSum
  <2> DEFINE h == [k \in 0 .. n + 1 |-> IF k = n + 1 THEN f[n] + x.len ELSE f[k]]
  <2>2. h[0] = 0 /\ h[n + 1] = f[n] + x.len /\ h[n] = f[n] /\ n + 1 - 1 = n
    BY <2>1 DEF SumsUp
  <2>3. \A k \in 1 .. n : h[k] = f[k] /\ h[k - 1] = f[k - 1] /\ f[k] = f[k - 1] + q[k].len
    BY <1>1, <2>1 DEF SumsUp
  <2> HIDE DEF h
  <2>4. \A k \in 1 .. n + 1 : h[k] = h[k - 1] + r[k].len
    BY <1>2, <1>3, <2>2, <2>3
  <2>5. SumsUp(h, r)
    BY <1>2, <2>2, <2>4 DEF SumsUp
  <2>6. QED
    BY <1>2, <2>1, <2>2, <2>5, BytesIs
<1>5. PacketPages(r) = PacketPages(q) \cup {x.page}
  <2>1. \A p : p \in PacketPages(r) <=> \E i \in 1 .. n + 1 : r[i].page = p
    BY <1>2, Zenon DEF PacketPages
  <2>2. \A p : p \in PacketPages(q) <=> \E i \in 1 .. n : q[i].page = p
    BY <1>2, Zenon DEF PacketPages
  <2>3. ASSUME NEW p, p \in PacketPages(r) PROVE p \in PacketPages(q) \/ p = x.page
    BY <1>2, <1>3, <2>1, <2>2, <2>3, Zenon
  <2>4. ASSUME NEW p, p \in PacketPages(q) \/ p = x.page PROVE p \in PacketPages(r)
    BY <1>2, <1>3, <2>1, <2>2, <2>4, Zenon
  <2>5. QED
    BY <2>3, <2>4
<1>6. ASSUME PagesDiffer(q), x.page \notin PacketPages(q) PROVE PagesDiffer(r)
  <2>1. \A i \in 1 .. n : q[i].page # x.page
    BY <1>2, <1>6 DEF PacketPages
  <2>2. SUFFICES ASSUME NEW i \in 1 .. n + 1, NEW j \in 1 .. n + 1, r[i].page = r[j].page
                 PROVE  i = j
    BY <1>2 DEF PagesDiffer
  <2>3. \A k, l \in 1 .. n : q[k].page = q[l].page => k = l
    BY <1>2, <1>6 DEF PagesDiffer
  <2>4. QED
    BY <1>2, <1>3, <2>1, <2>2, <2>3
<1>7. QED
  BY <1>2, <1>4, <1>5, <1>6

LEMMA PacketTaken ==
  ASSUME NEW q \in Seq(Packet), q # <<>>, NEW r, r = Tail(q)
  PROVE  /\ Head(q) \in Packet /\ r \in Seq(Packet) /\ Bytes(q) = Head(q).len + Bytes(r)
         /\ Bytes(r) \in Nat
         /\ PagesDiffer(q) => PagesDiffer(r) /\ PacketPages(r) = PacketPages(q) \ {Head(q).page}
         /\ Head(q).page \in PacketPages(q)
<1>1. PICK n \in Nat : n = Len(q)
  BY LenProperties
<1>2. /\ r \in Seq(Packet) /\ Len(r) = n - 1 /\ Head(q) \in Packet
      /\ \A i \in 1 .. n - 1 : r[i] = q[i + 1]
  BY <1>1, HeadTailProperties
<1>3. /\ DOMAIN q = 1 .. n /\ DOMAIN r = 1 .. n - 1 /\ Head(q) = q[1] /\ n # 0
      /\ \A i \in 1 .. n : q[i] \in Packet
  <2>1. n # 0
    BY <1>1, EmptySeq
  <2>2. DOMAIN q = 1 .. n /\ DOMAIN r = 1 .. n - 1 /\ \A i \in 1 .. n : q[i] \in Packet
    BY <1>1, <1>2, LenProperties, ElementOfSeq
  <2>3. QED
    BY <2>1, <2>2
<1> DEFINE a == q[1]
<1>4. a \in Packet /\ a.len \in Nat
  BY <1>2, <1>3 DEF Packet
<1> HIDE DEF a
<1>5. PICK g \in [0 .. n - 1 -> Nat] : SumsUp(g, r) /\ Bytes(r) = g[n - 1]
  BY <1>2, BytesSum
<1>6. Bytes(q) = a.len + Bytes(r)
  <2> DEFINE h == [k \in 0 .. n |-> IF k = 0 THEN 0 ELSE g[k - 1] + a.len]
  <2>1. g[0] = 0 /\ \A k \in 1 .. n - 1 : g[k] = g[k - 1] + r[k].len
    BY <1>2, <1>5 DEF SumsUp
  <2>2. \A k \in 2 .. n : k - 1 \in 1 .. n - 1 /\ r[k - 1] = q[k] /\ q[k].len \in Nat
    BY <1>2, <1>3 DEF Packet
  <2>3. \A k \in 1 .. n : k = 1 \/ k \in 2 .. n
    OBVIOUS
  <2>4. h[0] = 0 /\ h[1] = a.len /\ h[n] = g[n - 1] + a.len
    BY <1>3, <1>4, <2>1
  <2>5. ASSUME NEW k \in 2 .. n PROVE h[k] = h[k - 1] + q[k].len
    <3>1. h[k] = g[k - 1] + a.len /\ h[k - 1] = g[k - 2] + a.len
      BY <1>3
    <3>2. PICK m \in 1 .. n - 1 : m = k - 1
      BY <2>2
    <3>3. g[m] = g[m - 1] + q[k].len /\ q[k].len \in Nat
      BY <2>1, <2>2, <3>2
    <3>4. m - 1 = k - 2 /\ m - 1 \in 0 .. n - 1
      BY <3>2
    <3>5. g[m - 1] \in Nat
      BY <1>5, <3>4
    <3> HIDE DEF h
    <3>6. h[k] = g[m] + a.len /\ h[k - 1] = g[m - 1] + a.len
      BY <3>1, <3>2, <3>4
    <3>7. PICK x \in Nat, y \in Nat, z \in Nat : x = g[m - 1] /\ y = a.len /\ z = q[k].len
      BY <1>4, <3>3, <3>5
    <3>8. h[k - 1] = x + y
      BY <3>3, <3>6, <3>7
    <3>9. h[k] = (x + z) + y
      BY <3>3, <3>6, <3>7
    <3>10. (x + z) + y = (x + y) + z
      OBVIOUS
    <3>11. QED
      BY <3>7, <3>8, <3>9, <3>10, Zenon
  <2>6. h[1] = h[0] + q[1].len
    BY <1>4, <2>4 DEF a
  <2> HIDE DEF h
  <2>7. SumsUp(h, q)
    BY <1>1, <2>3, <2>4, <2>5, <2>6 DEF SumsUp
  <2>8. Bytes(q) = g[n - 1] + a.len
    BY <1>1, <2>4, <2>7, BytesIs
  <2>9. g[n - 1] \in Nat
    BY <1>3, <1>5
  <2>10. QED
    BY <1>4, <1>5, <2>8, <2>9
<1>7. ASSUME PagesDiffer(q)
      PROVE  PagesDiffer(r) /\ PacketPages(r) = PacketPages(q) \ {a.page}
  <2>1. \A i, j \in 1 .. n : q[i].page = q[j].page => i = j
    BY <1>3, <1>7 DEF PagesDiffer
  <2>2. \A i \in 1 .. n - 1 : i + 1 \in 1 .. n /\ r[i].page = q[i + 1].page
    BY <1>2
  <2>3. PagesDiffer(r)
    <3>1. SUFFICES ASSUME NEW i \in 1 .. n - 1, NEW j \in 1 .. n - 1, r[i].page = r[j].page
                   PROVE  i = j
      BY <1>3 DEF PagesDiffer
    <3>2. PICK k \in 1 .. n, l \in 1 .. n : k = i + 1 /\ l = j + 1
      BY <2>2
    <3>3. q[k].page = q[l].page
      BY <2>2, <3>1, <3>2
    <3>4. k = l
      BY <2>1, <3>3
    <3>5. QED
      BY <3>2, <3>4
  <2>4. \A p : p \in PacketPages(r) <=> \E i \in 1 .. n - 1 : r[i].page = p
    BY <1>3, Zenon DEF PacketPages
  <2>5. \A p : p \in PacketPages(q) <=> \E i \in 1 .. n : q[i].page = p
    BY <1>3, Zenon DEF PacketPages
  <2>6. ASSUME NEW p, p \in PacketPages(r) PROVE p \in PacketPages(q) /\ p # a.page
    <3>1. PICK i \in 1 .. n - 1 : r[i].page = p
      BY <2>4, <2>6
    <3>2. i + 1 \in 1 .. n /\ q[i + 1].page = p /\ i + 1 # 1 /\ 1 \in 1 .. n
      BY <1>3, <2>2, <3>1
    <3>3. QED
      BY <2>1, <2>5, <3>2 DEF a
  <2>7. ASSUME NEW p, p \in PacketPages(q), p # a.page PROVE p \in PacketPages(r)
    <3>1. PICK i \in 1 .. n : q[i].page = p
      BY <2>5, <2>7
    <3>2. i # 1
      BY <2>7, <3>1 DEF a
    <3>3. i - 1 \in 1 .. n - 1 /\ i - 1 + 1 = i
      BY <3>2
    <3>4. r[i - 1].page = p
      BY <2>2, <3>1, <3>3
    <3>5. QED
      BY <2>4, <3>3, <3>4
  <2>8. QED
    BY <2>3, <2>6, <2>7
<1>8. a.page \in PacketPages(q) /\ Head(q) = a
  <2>1. 1 \in DOMAIN q
    BY <1>3
  <2>2. QED
    BY <1>3, <2>1 DEF PacketPages, a
<1>9. Bytes(r) \in Nat
  BY <1>3, <1>5
<1>10. QED
  BY <1>2, <1>6, <1>7, <1>8, <1>9

-----------------------------------------------------------------------------
(***************************************************************************)
(* The inductive invariant                                                 *)
(***************************************************************************)
UdpRec ==
  [port : UdpPort \cup {0}, bound : BOOLEAN, connected : BOOLEAN, buf : Pages,
   queue : Seq(Packet), recv_count : Nat]

UdpType ==
  /\ page_bitmap \subseteq Pages /\ Reserved \subseteq page_bitmap
  /\ udp_sockets_list \in Seq(Pages) /\ udp_sock \in [Pages -> UdpRec]

\* The pages of a socket s whose structure is c, and that they are different.
Own(c, s) == {s, c.buf} \cup PacketPages(c.queue)
Apart(c, s) == c.buf # s /\ {s, c.buf} \cap PacketPages(c.queue) = {} /\ PagesDiffer(c.queue)

\* The pages B are the kernel's and those of the sockets O, each of one socket.
Exact(B, O, f) ==
  /\ B = Reserved \cup UNION {Own(f[s], s) : s \in O}
  /\ \A s \in O : Apart(f[s], s)
  /\ \A s, t \in O : s # t => Own(f[s], s) \cap Own(f[t], t) = {}

UdpMemInv ==
  ~ hung /\ ~ big => Distinct(udp_sockets_list) /\ Exact(page_bitmap, Open, udp_sock)

\* A call is in the middle only after a wait in an image with the schedule() of
\* kernel.c, and its socket stays open.
WaitInv ==
  /\ waiter \in [s : Pages, len : Nat]
  /\ pc # "none" => linked = "kernel.c" /\ waiter.s \in Open
  /\ hung => pc = "locked"

\* What a step does to the sockets, but for a call in the middle.
SocketsInv == UdpType /\ UdpMemInv /\ OneSocketPerPort /\ CountCoversQueue

UdpInv == SocketsInv /\ WaitInv

LEMMA ExactIsMemory ==
  ASSUME UdpMemInv
  PROVE  UdpMemoryExact
<1>1. \A s : Own(udp_sock[s], s) = Owned(s) /\ (Apart(udp_sock[s], s) <=> Separate(s))
  BY DEF Own, Owned, Apart, Separate, PacketPages, QueuedPages, PagesDiffer
<1>2. SUFFICES ASSUME ~ hung /\ ~ big
               PROVE  /\ page_bitmap = Reserved \cup UNION {Owned(s) : s \in Open}
                      /\ \A s \in Open : Separate(s)
                      /\ \A s, t \in Open : s # t => Owned(s) \cap Owned(t) = {}
  BY DEF UdpMemoryExact
<1>3. Exact(page_bitmap, Open, udp_sock)
  BY <1>2 DEF UdpMemInv
<1>4. QED
  BY <1>1, <1>3 DEF Exact

(***************************************************************************)
(* Memory, when one socket changes, comes or goes                          *)
(***************************************************************************)
LEMMA ExactChanged ==
  ASSUME NEW B, NEW O, NEW f, NEW C, NEW g, NEW s \in O, Exact(B, O, f),
         \A t \in O : t # s => g[t] = f[t],
         Apart(g[s], s), Own(g[s], s) \cap (B \ Own(f[s], s)) = {},
         \A p : p \in C <=> p \in Reserved \/ p \in B \ Own(f[s], s) \/ p \in Own(g[s], s)
  PROVE  Exact(C, O, g)
<1>1. \A t \in O : t # s => Own(g[t], t) = Own(f[t], t)
  OBVIOUS
<1> HIDE DEF Own
<1>2. \A p : p \in B <=> p \in Reserved \/ \E t \in O : p \in Own(f[t], t)
  BY DEF Exact
<1>3. \A t \in O, u \in O : t # u => Own(f[t], t) \cap Own(f[u], u) = {}
  BY DEF Exact
<1>4. \A t \in O : t # s => Own(f[t], t) \subseteq B \ Own(f[s], s)
  BY <1>2, <1>3
<1>5. \A p : p \in C <=> p \in Reserved \/ \E t \in O : p \in Own(g[t], t)
  <2>1. ASSUME NEW p, p \in C PROVE p \in Reserved \/ \E t \in O : p \in Own(g[t], t)
    BY <1>1, <1>2, <2>1
  <2>2. ASSUME NEW p, p \in Reserved \/ \E t \in O : p \in Own(g[t], t) PROVE p \in C
    BY <1>1, <1>4, <2>2
  <2>3. QED
    BY <2>1, <2>2
<1>6. C = Reserved \cup UNION {Own(g[t], t) : t \in O}
  BY <1>5
<1>7. \A t \in O : Apart(g[t], t)
  BY DEF Exact
<1>8. \A t \in O, u \in O : t # u => Own(g[t], t) \cap Own(g[u], u) = {}
  BY <1>1, <1>3, <1>4
<1>9. QED
  BY <1>6, <1>7, <1>8 DEF Exact

LEMMA ExactAdded ==
  ASSUME NEW B, NEW O, NEW f, NEW C, NEW g, NEW s, s \notin O, Exact(B, O, f),
         \A t \in O : g[t] = f[t],
         Apart(g[s], s), Own(g[s], s) \cap B = {}, C = B \cup Own(g[s], s)
  PROVE  Exact(C, O \cup {s}, g)
<1>1. \A t \in O : t # s /\ Own(g[t], t) = Own(f[t], t)
  OBVIOUS
<1> HIDE DEF Own
<1>2. \A p : p \in B <=> p \in Reserved \/ \E t \in O : p \in Own(f[t], t)
  BY DEF Exact
<1>3. \A t \in O, u \in O : t # u => Own(f[t], t) \cap Own(f[u], u) = {}
  BY DEF Exact
<1>4. \A t \in O : Own(g[t], t) \cap Own(g[s], s) = {}
  BY <1>1, <1>2
<1>5. \A p : p \in C <=> p \in Reserved \/ \E t \in O \cup {s} : p \in Own(g[t], t)
  BY <1>1, <1>2
<1>6. C = Reserved \cup UNION {Own(g[t], t) : t \in O \cup {s}}
  BY <1>5
<1>7. \A t \in O \cup {s} : Apart(g[t], t)
  BY DEF Exact
<1>8. \A t, u \in O \cup {s} : t # u => Own(g[t], t) \cap Own(g[u], u) = {}
  BY <1>1, <1>3, <1>4
<1>9. QED
  BY <1>6, <1>7, <1>8 DEF Exact

LEMMA ExactRemoved ==
  ASSUME NEW B, NEW O, NEW f, NEW C, NEW g, NEW s \in O, Exact(B, O, f),
         \A t \in O : t # s => g[t] = f[t], C = B \ (Own(f[s], s) \ Reserved)
  PROVE  Exact(C, O \ {s}, g)
<1>1. \A t \in O \ {s} : t \in O /\ t # s /\ g[t] = f[t] /\ Own(g[t], t) = Own(f[t], t)
  OBVIOUS
<1> HIDE DEF Own
<1>2. \A p : p \in B <=> p \in Reserved \/ \E t \in O : p \in Own(f[t], t)
  BY DEF Exact
<1>3. \A t \in O, u \in O : t # u => Own(f[t], t) \cap Own(f[u], u) = {}
  BY DEF Exact
<1>4. \A p : p \in C <=> p \in Reserved \/ \E t \in O \ {s} : p \in Own(g[t], t)
  <2>1. ASSUME NEW p, p \in C PROVE p \in Reserved \/ \E t \in O \ {s} : p \in Own(g[t], t)
    BY <1>1, <1>2, <2>1
  <2>2. ASSUME NEW p, p \in Reserved \/ \E t \in O \ {s} : p \in Own(g[t], t) PROVE p \in C
    BY <1>1, <1>2, <1>3, <2>2
  <2>3. QED
    BY <2>1, <2>2
<1>5. C = Reserved \cup UNION {Own(g[t], t) : t \in O \ {s}}
  BY <1>4
<1>6. \A t \in O \ {s} : Apart(g[t], t)
  BY <1>1 DEF Exact
<1>7. \A t, u \in O \ {s} : t # u => Own(g[t], t) \cap Own(g[u], u) = {}
  BY <1>1, <1>3
<1>8. QED
  BY <1>5, <1>6, <1>7 DEF Exact

-----------------------------------------------------------------------------
(***************************************************************************)
(* The steps                                                               *)
(***************************************************************************)
LEMMA UdpSocketsArePages ==
  ASSUME UdpType
  PROVE  /\ Open \subseteq Pages
         /\ \A s \in Open : udp_sock[s] \in UdpRec
<1>1. udp_sockets_list \in Seq(Pages)
  BY DEF UdpType
<1>2. \A i \in DOMAIN udp_sockets_list : udp_sockets_list[i] \in Pages
  BY <1>1, ElementOfSeq, LenProperties
<1>3. QED
  BY <1>2 DEF Open, Range, UdpType

LEMMA UdpOneChanged ==
  ASSUME UdpType, NEW s \in Pages, NEW d \in UdpRec, udp_sock' = [udp_sock EXCEPT ![s] = d]
  PROVE  /\ udp_sock' \in [Pages -> UdpRec]
         /\ udp_sock'[s] = d
         /\ \A t \in Pages : t # s => udp_sock'[t] = udp_sock[t]
<1>1. udp_sock \in [Pages -> UdpRec]
  BY DEF UdpType
<1> HIDE DEF UdpRec
<1>2. QED
  BY <1>1

LEMMA NewUdpFields ==
  ASSUME NEW b \in Pages, NEW d, d = NewUdpSocket(b)
  PROVE  /\ d \in UdpRec /\ d.buf = b /\ d.queue = <<>> /\ ~ d.bound /\ d.recv_count = 0
         /\ PacketPages(d.queue) = {} /\ PagesDiffer(d.queue) /\ Bytes(d.queue) = 0
<1>1. <<>> \in Seq(Packet) /\ 0 \in UdpPort \cup {0} /\ 0 \in Nat
  OBVIOUS
<1>2. d \in UdpRec /\ d.buf = b /\ d.queue = <<>> /\ ~ d.bound /\ d.recv_count = 0
  BY <1>1 DEF NewUdpSocket, UdpRec
<1>3. DOMAIN <<>> = {} /\ Len(<<>>) = 0
  OBVIOUS
<1>4. PacketPages(<<>>) = {} /\ PagesDiffer(<<>>)
  BY <1>3 DEF PacketPages, PagesDiffer
<1>5. Bytes(<<>>) = 0
  <2>1. PICK f \in [0 .. Len(<<>>) -> Nat] : SumsUp(f, <<>>) /\ Bytes(<<>>) = f[Len(<<>>)]
    BY <1>1, BytesSum
  <2>2. QED
    BY <1>3, <2>1 DEF SumsUp
<1>6. QED
  BY <1>2, <1>4, <1>5

LEMMA ExactStep ==
  ASSUME Exact(page_bitmap, Open, udp_sock), NEW s \in Open, NEW d, udp_sock'[s] = d,
         \A t \in Open : t # s => udp_sock'[t] = udp_sock[t],
         Apart(d, s), Own(d, s) \cap (page_bitmap \ Own(udp_sock[s], s)) = {}, NEW C,
         \A p : p \in C <=>
           p \in Reserved \/ p \in page_bitmap \ Own(udp_sock[s], s) \/ p \in Own(d, s)
  PROVE  Exact(C, Open, udp_sock')
<1>1. PICK B, O, f, g : B = page_bitmap /\ O = Open /\ f = udp_sock /\ g = udp_sock'
  OBVIOUS
<1>2. Exact(B, O, f) /\ s \in O /\ (\A t \in O : t # s => g[t] = f[t])
  BY <1>1
<1>3. /\ Apart(g[s], s) /\ Own(g[s], s) \cap (B \ Own(f[s], s)) = {}
      /\ \A p : p \in C <=> p \in Reserved \/ p \in B \ Own(f[s], s) \/ p \in Own(g[s], s)
  BY <1>1
<1>4. Exact(C, O, g)
  BY <1>2, <1>3, ExactChanged
<1>5. QED
  BY <1>1, <1>4

\* A step that changes the structure of one socket, c to d, and leaves its
\* packets alone.
LEMMA OnlyNames ==
  ASSUME SocketsInv, NEW s \in Open, NEW d \in UdpRec,
         udp_sock' = [udp_sock EXCEPT ![s] = d],
         d.buf = udp_sock[s].buf, d.queue = udp_sock[s].queue,
         d.recv_count = udp_sock[s].recv_count,
         UNCHANGED <<page_bitmap, udp_sockets_list, hung, big>>
  PROVE  UdpType' /\ UdpMemInv' /\ CountCoversQueue' /\ Open' = Open
<1>1. UdpType
  BY DEF SocketsInv
<1>2. s \in Pages /\ Open \subseteq Pages
  BY <1>1, UdpSocketsArePages
<1>3. /\ udp_sock' \in [Pages -> UdpRec] /\ udp_sock'[s] = d
      /\ \A t \in Open : t # s => udp_sock'[t] = udp_sock[t]
  BY <1>1, <1>2, UdpOneChanged
<1>4. Open' = Open
  BY DEF Open
<1>5. UdpType'
  BY <1>1, <1>3 DEF UdpType
<1>6. UdpMemInv'
  <2>1. ASSUME Exact(page_bitmap, Open, udp_sock) PROVE Exact(page_bitmap, Open, udp_sock')
    <3>1. Own(d, s) = Own(udp_sock[s], s) /\ (Apart(udp_sock[s], s) => Apart(d, s))
      BY DEF Own, Apart
    <3>2. Apart(udp_sock[s], s) /\ Own(udp_sock[s], s) \subseteq page_bitmap /\ Reserved \subseteq page_bitmap
      BY <2>1 DEF Exact
    <3>3. /\ Apart(d, s) /\ Own(d, s) \cap (page_bitmap \ Own(udp_sock[s], s)) = {}
          /\ \A p : p \in page_bitmap <=>
               p \in Reserved \/ p \in page_bitmap \ Own(udp_sock[s], s) \/ p \in Own(d, s)
      BY <3>1, <3>2
    <3>4. QED
      BY <1>3, <2>1, <3>3, ExactStep
  <2>2. QED
    BY <1>4, <2>1, Zenon DEF SocketsInv, UdpMemInv
<1>7. CountCoversQueue'
  BY <1>3, <1>4 DEF SocketsInv, CountCoversQueue
<1>8. QED
  BY <1>4, <1>5, <1>6, <1>7

LEMMA BindStep ==
  ASSUME SocketsInv, NEW s \in Open, NEW port \in UdpPort, udp_bind(s, port)
  PROVE  SocketsInv'
<1> DEFINE c == udp_sock[s]
           d == [c EXCEPT !.port = port, !.bound = TRUE]
<1>1. UdpType /\ OneSocketPerPort
  BY DEF SocketsInv
<1>2. s \in Pages /\ Open \subseteq Pages /\ c \in UdpRec
  BY <1>1, UdpSocketsArePages
<1>3. d \in UdpRec
  BY <1>2 DEF UdpRec
<1>4. udp_sock' = [udp_sock EXCEPT ![s] = d]
  BY <1>1, <1>2 DEF udp_bind, UdpType
<1>5. d.buf = c.buf /\ d.queue = c.queue /\ d.recv_count = c.recv_count /\ d.port = port /\ d.bound
  BY <1>2 DEF UdpRec
<1> HIDE DEF d
<1>6. UNCHANGED <<page_bitmap, udp_sockets_list, hung, big>>
  BY DEF udp_bind, Control
<1>7. UdpType' /\ UdpMemInv' /\ CountCoversQueue' /\ Open' = Open
  BY <1>3, <1>4, <1>5, <1>6, OnlyNames
<1>8. /\ udp_sock'[s] = d /\ \A t \in Open : t # s => udp_sock'[t] = udp_sock[t]
  BY <1>1, <1>2, <1>3, <1>4, UdpOneChanged
<1>9. \A t \in Open : port # 0 => ~ (udp_sock[t].bound /\ udp_sock[t].port = port)
  BY DEF udp_bind, MayBind, BoundTo, Open, Range
<1>10. OneSocketPerPort'
  <2>1. SUFFICES ASSUME NEW t \in Open, NEW u \in Open, t # u, udp_sock'[t].bound, udp_sock'[u].bound,
                        udp_sock'[t].port = udp_sock'[u].port
                 PROVE  udp_sock'[t].port = 0
    BY <1>7 DEF OneSocketPerPort
  <2>2. CASE t # s /\ u # s
    BY <1>1, <1>8, <2>1, <2>2 DEF OneSocketPerPort
  <2>3. CASE t = s
    BY <1>5, <1>8, <1>9, <2>1, <2>3
  <2>4. CASE u = s
    BY <1>5, <1>8, <1>9, <2>1, <2>4
  <2>5. QED
    BY <2>2, <2>3, <2>4
<1>11. QED
  BY <1>7, <1>10 DEF SocketsInv

LEMMA ConnectStep ==
  ASSUME SocketsInv, NEW s \in Open, udp_connect(s)
  PROVE  SocketsInv'
<1> DEFINE c == udp_sock[s]
           d == [c EXCEPT !.connected = TRUE]
<1>1. UdpType /\ OneSocketPerPort
  BY DEF SocketsInv
<1>2. s \in Pages /\ Open \subseteq Pages /\ c \in UdpRec
  BY <1>1, UdpSocketsArePages
<1>3. d \in UdpRec
  BY <1>2 DEF UdpRec
<1>4. udp_sock' = [udp_sock EXCEPT ![s] = d]
  BY <1>1, <1>2 DEF udp_connect, UdpType
<1>5. /\ d.buf = c.buf /\ d.queue = c.queue /\ d.recv_count = c.recv_count /\ d.port = c.port
      /\ d.bound <=> c.bound
  BY <1>2 DEF UdpRec
<1> HIDE DEF d
<1>6. UNCHANGED <<page_bitmap, udp_sockets_list, hung, big>>
  BY DEF udp_connect, Control
<1>7. UdpType' /\ UdpMemInv' /\ CountCoversQueue' /\ Open' = Open
  BY <1>3, <1>4, <1>5, <1>6, OnlyNames
<1>8. /\ udp_sock'[s] = d /\ \A t \in Open : t # s => udp_sock'[t] = udp_sock[t]
  BY <1>1, <1>2, <1>3, <1>4, UdpOneChanged
<1>9. \A t \in Open : (udp_sock'[t].bound <=> udp_sock[t].bound) /\ udp_sock'[t].port = udp_sock[t].port
  BY <1>5, <1>8
<1>10. OneSocketPerPort'
  BY <1>1, <1>7, <1>9 DEF OneSocketPerPort
<1>11. QED
  BY <1>7, <1>10 DEF SocketsInv

\* The packet is freed again, if it is no longer than a page.
LEMMA SendtoStep ==
  ASSUME SocketsInv, NEW s \in Open, NEW n \in SendPages, NEW addressed,
         udp_sendto(s, n, addressed)
  PROVE  SocketsInv'
<1> DEFINE r == kmalloc(page_bitmap, n)
<1>1. UdpType /\ OneSocketPerPort /\ CountCoversQueue /\ UdpMemInv
  BY DEF SocketsInv
<1>2. page_bitmap \subseteq Pages /\ Reserved \subseteq page_bitmap /\ n \in Nat /\ n # 0
  BY <1>1, UdpAssumption DEF UdpType
<1>3. /\ page_bitmap' = IF r.page = NULL THEN r.bitmap ELSE kfree(r.bitmap, r.page)
      /\ UNCHANGED <<udp_sockets_list, udp_sock, hung>> /\ Open' = Open
      /\ big' = (big \/ n > 1)
  BY DEF udp_sendto, Control, Open
<1>4. r.bitmap \subseteq Pages /\ Reserved \subseteq r.bitmap /\ (r.page # NULL => r.page \in Pages \ page_bitmap)
  BY <1>2, KmallocResult
<1>5. r.page # NULL => kfree(r.bitmap, r.page) = r.bitmap \ ({r.page} \ Reserved)
  BY <1>4, KfreeResult
<1>6. UdpType'
  BY <1>1, <1>3, <1>4, <1>5 DEF UdpType
<1>7. n = 1 => page_bitmap' = page_bitmap
  <2>1. SUFFICES ASSUME n = 1 PROVE page_bitmap' = page_bitmap
    OBVIOUS
  <2>2. \/ r.page = NULL /\ r.bitmap = page_bitmap
        \/ /\ r.page # NULL /\ r.page \in Pages /\ r.page \notin page_bitmap /\ r.page \notin Reserved
           /\ r.bitmap = page_bitmap \cup {r.page}
    BY <1>2, <2>1, OnePage
  <2>3. QED
    BY <1>3, <1>5, <2>2
<1>8. n > 1 \/ n = 1
  BY <1>2
<1>9. UdpMemInv'
  BY <1>1, <1>3, <1>7, <1>8, Zenon DEF UdpMemInv
<1>10. OneSocketPerPort' /\ CountCoversQueue'
  BY <1>1, <1>3 DEF OneSocketPerPort, CountCoversQueue
<1>11. QED
  BY <1>6, <1>9, <1>10 DEF SocketsInv

\* A step that changes no port leaves the ports unique.
LEMMA PortsKept ==
  ASSUME OneSocketPerPort, Open' \subseteq Open,
         \A t \in Open' : udp_sock'[t].bound => udp_sock[t].bound /\ udp_sock'[t].port = udp_sock[t].port
  PROVE  OneSocketPerPort'
BY DEF OneSocketPerPort

\* What a receive does once it has the lock.
LEMMA TakeStep ==
  ASSUME SocketsInv, NEW s \in Open, NEW len \in Nat, Take(s, len),
         UNCHANGED <<udp_sockets_list, hung, big>>
  PROVE  SocketsInv' /\ Open' = Open
<1> DEFINE c == udp_sock[s]
           q == c.queue
           copied == IF len < Head(q).len THEN len ELSE Head(q).len
           d == [c EXCEPT !.queue = Tail(q), !.recv_count = c.recv_count - copied]
<1>1. UdpType /\ OneSocketPerPort /\ CountCoversQueue /\ UdpMemInv
  BY DEF SocketsInv
<1>2. s \in Pages /\ Open \subseteq Pages /\ c \in UdpRec
  BY <1>1, UdpSocketsArePages
<1>3. Open' = Open
  BY DEF Open
<1>4. CASE UNCHANGED <<page_bitmap, udp_sock>>
  <2>1. UdpType' /\ OneSocketPerPort' /\ CountCoversQueue'
    BY <1>1, <1>3, <1>4 DEF UdpType, OneSocketPerPort, CountCoversQueue
  <2>2. UdpMemInv'
    BY <1>1, <1>3, <1>4 DEF UdpMemInv
  <2>3. QED
    BY <1>3, <2>1, <2>2 DEF SocketsInv
<1>5. CASE q # <<>> /\ c.recv_count # 0
  <2>1. q \in Seq(Packet) /\ c.recv_count \in Nat
    BY <1>2 DEF UdpRec
  <2>2. /\ Head(q) \in Packet /\ Tail(q) \in Seq(Packet) /\ Bytes(q) = Head(q).len + Bytes(Tail(q))
        /\ Bytes(Tail(q)) \in Nat /\ Head(q).page \in PacketPages(q)
        /\ PagesDiffer(q) => /\ PagesDiffer(Tail(q))
                             /\ PacketPages(Tail(q)) = PacketPages(q) \ {Head(q).page}
    BY <1>5, <2>1, PacketTaken
  <2>3. PICK n \in Nat, p \in Pages : n = Head(q).len /\ p = Head(q).page
    BY <2>2 DEF Packet
  <2>4. c.recv_count >= Bytes(q)
    BY <1>1 DEF CountCoversQueue
  <2>5. copied \in Nat /\ copied <= n
    BY <2>3
  <2>6. c.recv_count - copied \in Nat /\ c.recv_count - copied >= Bytes(Tail(q))
    <3> HIDE DEF copied
    <3>1. PICK x \in Nat, y \in Nat, z \in Nat : x = c.recv_count /\ y = copied /\ z = Bytes(Tail(q))
      BY <2>1, <2>2, <2>5
    <3>2. x >= n + z /\ y <= n
      BY <2>2, <2>3, <2>4, <2>5, <3>1
    <3>3. x - y \in Nat /\ x - y >= z
      BY <3>2
    <3>4. QED
      BY <3>1, <3>3
  <2>7. /\ udp_sock' = [udp_sock EXCEPT ![s] = d]
        /\ page_bitmap' = kfree(page_bitmap, p)
    BY <1>1, <1>2, <1>5, <2>3 DEF Take, CountAfter, UdpType
  <2> HIDE DEF copied
  <2>8. d \in UdpRec /\ d.buf = c.buf /\ d.queue = Tail(q) /\ d.port = c.port /\ (d.bound <=> c.bound)
        /\ d.recv_count = c.recv_count - copied
    BY <1>2, <2>2, <2>6 DEF UdpRec
  <2> HIDE DEF d
  <2>9. /\ udp_sock' \in [Pages -> UdpRec] /\ udp_sock'[s] = d
        /\ \A t \in Open : t # s => udp_sock'[t] = udp_sock[t]
    BY <1>1, <1>2, <2>7, <2>8, UdpOneChanged
  <2>10. page_bitmap' = page_bitmap \ ({p} \ Reserved)
    BY <1>1, <2>7, KfreeResult DEF UdpType
  <2>11. UdpType'
    BY <1>1, <2>9, <2>10 DEF UdpType
  <2>12. OneSocketPerPort'
    BY <1>1, <1>3, <2>8, <2>9, PortsKept
  <2>13. CountCoversQueue'
    BY <1>1, <1>3, <2>6, <2>8, <2>9 DEF CountCoversQueue
  <2>14. ASSUME Exact(page_bitmap, Open, udp_sock) PROVE Exact(page_bitmap', Open, udp_sock')
    <3>1. Apart(c, s) /\ Own(c, s) \subseteq page_bitmap /\ Reserved \subseteq page_bitmap
      BY <2>14 DEF Exact
    <3>2. Apart(d, s) /\ p \in Own(c, s) /\ Own(d, s) = Own(c, s) \ {p}
      BY <2>2, <2>3, <2>8, <3>1 DEF Apart, Own
    <3>3. /\ Own(d, s) \cap (page_bitmap \ Own(c, s)) = {}
          /\ \A x : x \in page_bitmap' <=>
               x \in Reserved \/ x \in page_bitmap \ Own(c, s) \/ x \in Own(d, s)
      <4> HIDE DEF c
      <4>1. QED
        BY <2>10, <3>1, <3>2
    <3>4. QED
      BY <2>9, <2>14, <3>2, <3>3, ExactStep
  <2>15. UdpMemInv'
    BY <1>1, <1>3, <2>14, Zenon DEF UdpMemInv
  <2>16. QED
    BY <1>3, <2>11, <2>12, <2>13, <2>15 DEF SocketsInv
<1>6. QED
  BY <1>4, <1>5 DEF Take

LEMMA SocketStep ==
  ASSUME SocketsInv, udp_socket
  PROVE  SocketsInv' /\ Open \subseteq Open'
<1> DEFINE r1 == kmalloc(page_bitmap, 1)
           r2 == kmalloc(r1.bitmap, 1)
<1>1. UdpType /\ OneSocketPerPort /\ CountCoversQueue /\ UdpMemInv
  BY DEF SocketsInv
<1>2. page_bitmap \subseteq Pages /\ Reserved \subseteq page_bitmap
  BY <1>1 DEF UdpType
<1>3. UNCHANGED <<hung, big>>
  BY DEF udp_socket, Control
<1>4. CASE UNCHANGED <<page_bitmap, udp_sockets_list, udp_sock>>
  <2>1. Open' = Open
    BY <1>4 DEF Open
  <2>2. UdpType' /\ OneSocketPerPort' /\ CountCoversQueue'
    BY <1>1, <1>4, <2>1 DEF UdpType, OneSocketPerPort, CountCoversQueue
  <2>3. UdpMemInv'
    BY <1>1, <1>3, <1>4, <2>1 DEF UdpMemInv
  <2>4. QED
    BY <2>1, <2>2, <2>3 DEF SocketsInv
<1>5. CASE r1.page # NULL
  <2>1. PICK p \in Pages : /\ p = r1.page /\ p \notin page_bitmap /\ p \notin Reserved
                           /\ r1.bitmap = page_bitmap \cup {p}
    BY <1>2, <1>5, OnePage
  <2>2. page_bitmap \cup {p} \subseteq Pages /\ Reserved \subseteq page_bitmap \cup {p}
    BY <1>2
  <2> DEFINE k2 == kmalloc(page_bitmap \cup {p}, 1)
  <2>3. r2 = k2
    BY <2>1
  <2>4. \/ k2.page = NULL /\ k2.bitmap = page_bitmap \cup {p}
        \/ /\ k2.page # NULL /\ k2.page \in Pages /\ k2.page \notin page_bitmap \cup {p}
           /\ k2.page \notin Reserved
           /\ k2.bitmap = page_bitmap \cup {p} \cup {k2.page}
    BY <2>2, OnePage
  <2>5. CASE k2.page = NULL
    <3>1. page_bitmap' = kfree(page_bitmap \cup {p}, p) /\ UNCHANGED <<udp_sockets_list, udp_sock>>
      BY <1>5, <2>1, <2>3, <2>4, <2>5 DEF udp_socket
    <3>2. kfree(page_bitmap \cup {p}, p) = (page_bitmap \cup {p}) \ ({p} \ Reserved)
      BY <2>2, KfreeResult
    <3>3. page_bitmap' = page_bitmap
      BY <2>1, <3>1, <3>2
    <3>4. QED
      BY <1>4, <3>1, <3>3
  <2>6. CASE k2.page # NULL
    <3>1. PICK b \in Pages : /\ b = k2.page /\ b \notin page_bitmap /\ b # p /\ b \notin Reserved
                             /\ k2.bitmap = page_bitmap \cup {p, b}
      BY <2>4, <2>6
    <3>2. /\ page_bitmap' = page_bitmap \cup {p, b}
          /\ udp_sockets_list' = Append(udp_sockets_list, p)
          /\ udp_sock' = [udp_sock EXCEPT ![p] = NewUdpSocket(b)]
      BY <1>5, <2>1, <2>3, <2>6, <3>1 DEF udp_socket
    <3>3. PICK d \in UdpRec : /\ d = NewUdpSocket(b) /\ d.buf = b /\ ~ d.bound /\ d.recv_count = 0
                              /\ PacketPages(d.queue) = {} /\ PagesDiffer(d.queue)
                              /\ Bytes(d.queue) = 0
      BY NewUdpFields
    <3>4. /\ udp_sock' \in [Pages -> UdpRec] /\ udp_sock'[p] = d
          /\ \A t \in Pages : t # p => udp_sock'[t] = udp_sock[t]
      BY <1>1, <3>2, <3>3, UdpOneChanged
    <3>5. udp_sockets_list \in Seq(Pages)
      BY <1>1 DEF UdpType
    <3>6. udp_sockets_list' \in Seq(Pages)
      BY <3>2, <3>5, QueueGrown
    <3>7. Open' = Open \cup {p}
      <4>1. \A x : x \in Range(udp_sockets_list') <=> x \in Range(udp_sockets_list) \/ x = p
        BY <3>2, <3>5, QueueElements
      <4>2. QED
        BY <4>1 DEF Open
    <3>8. Open \subseteq Pages
      BY <1>1, UdpSocketsArePages
    <3>9. UdpType'
      BY <1>1, <3>2, <3>4, <3>6 DEF UdpType
    <3>10. OneSocketPerPort'
      BY <1>1, <3>3, <3>4, <3>7, <3>8 DEF OneSocketPerPort
    <3>11. CountCoversQueue'
      BY <1>1, <3>3, <3>4, <3>7, <3>8 DEF CountCoversQueue
    <3>12. ASSUME Distinct(udp_sockets_list), Exact(page_bitmap, Open, udp_sock)
           PROVE  Distinct(udp_sockets_list') /\ Exact(page_bitmap', Open', udp_sock')
      <4>1. p \notin Open
        <5>1. \A t \in Open : Own(udp_sock[t], t) \subseteq page_bitmap
          BY <3>12 DEF Exact
        <5>2. \A t \in Open : t \in Own(udp_sock[t], t)
          BY DEF Own
        <5>3. QED
          BY <2>1, <5>1, <5>2
      <4>2. Distinct(udp_sockets_list')
        BY <3>2, <3>5, <3>12, <4>1, QueueDistinct DEF Open
      <4>3. PICK B, O, f, g : B = page_bitmap /\ O = Open /\ f = udp_sock /\ g = udp_sock'
        OBVIOUS
      <4>4. Exact(B, O, f) /\ p \notin O /\ (\A t \in O : g[t] = f[t]) /\ g[p] = d
        BY <3>4, <3>8, <3>12, <4>1, <4>3
      <4>5. Apart(d, p) /\ Own(d, p) = {p, b} /\ Own(d, p) \cap B = {}
        <5>1. d.buf = b /\ PacketPages(d.queue) = {} /\ PagesDiffer(d.queue)
          BY <3>3
        <5>2. p \notin B /\ b \notin B /\ b # p
          BY <2>1, <3>1, <4>3
        <5>3. Own(d, p) = {p, b}
          BY <5>1 DEF Own
        <5>4. Apart(d, p)
          BY <5>1, <5>2 DEF Apart
        <5>5. QED
          BY <5>2, <5>3, <5>4
      <4>6. page_bitmap' = B \cup Own(g[p], p) /\ Apart(g[p], p) /\ Own(g[p], p) \cap B = {}
        BY <3>2, <4>3, <4>4, <4>5
      <4>7. Exact(page_bitmap', O \cup {p}, g)
        BY <4>4, <4>6, ExactAdded
      <4>8. QED
        BY <3>7, <4>2, <4>3, <4>7
    <3>13. UdpMemInv'
      BY <1>1, <1>3, <3>12, Zenon DEF UdpMemInv
    <3>14. QED
      BY <3>7, <3>9, <3>10, <3>11, <3>13 DEF SocketsInv
  <2>7. QED
    BY <2>5, <2>6
<1>6. QED
  BY <1>4, <1>5 DEF udp_socket

LEMMA CloseStep ==
  ASSUME SocketsInv, NEW s \in Open, udp_close(s)
  PROVE  SocketsInv'
<1>1. UdpType /\ OneSocketPerPort /\ CountCoversQueue /\ UdpMemInv
  BY DEF SocketsInv
<1>2. s \in Pages /\ Open \subseteq Pages
  BY <1>1, UdpSocketsArePages
<1>3. PICK i \in DOMAIN udp_sockets_list :
        udp_sockets_list[i] = s /\ udp_sockets_list' = RemoveAt(udp_sockets_list, i)
  BY DEF udp_close
<1>4. udp_sockets_list \in Seq(Pages)
  BY <1>1 DEF UdpType
<1>5. /\ udp_sockets_list' \in Seq(Pages) /\ Range(udp_sockets_list') \subseteq Range(udp_sockets_list)
      /\ Distinct(udp_sockets_list) =>
           Range(udp_sockets_list') = Range(udp_sockets_list) \ {s} /\ Distinct(udp_sockets_list')
  BY <1>3, <1>4, TakenOut
<1>6. Open' \subseteq Open /\ (Distinct(udp_sockets_list) => Open' = Open \ {s})
  BY <1>5 DEF Open
<1>7. NULL \in Pages
  BY MmAssumption DEF NULL, Pages
<1>8. PICK d \in UdpRec : d = NewUdpSocket(NULL) /\ ~ d.bound /\ d.recv_count = 0 /\ Bytes(d.queue) = 0
  BY <1>7, NewUdpFields
<1>9. udp_sock' = [udp_sock EXCEPT ![s] = d]
  BY <1>8 DEF udp_close
<1>10. /\ udp_sock' \in [Pages -> UdpRec] /\ udp_sock'[s] = d
       /\ \A t \in Open : t # s => udp_sock'[t] = udp_sock[t]
  BY <1>1, <1>2, <1>8, <1>9, UdpOneChanged
<1>11. page_bitmap' = page_bitmap \ (Own(udp_sock[s], s) \ Reserved)
  <2>1. FreedByClose(s) = Own(udp_sock[s], s)
    BY DEF FreedByClose, Own, QueuedPages, PacketPages
  <2>2. page_bitmap' = page_bitmap \ {p \in FreedByClose(s) : p >= ReservedPages}
    BY DEF udp_close
  <2>3. \A p \in Pages : p >= ReservedPages <=> p \notin Reserved
    BY MmAssumption DEF Reserved, Pages
  <2>4. page_bitmap \subseteq Pages
    BY <1>1 DEF UdpType
  <2>5. QED
    BY <2>1, <2>2, <2>3, <2>4
<1>12. UdpType'
  BY <1>1, <1>5, <1>10, <1>11 DEF UdpType
<1>13. OneSocketPerPort'
  BY <1>1, <1>6, <1>8, <1>10, PortsKept
<1>14. CountCoversQueue'
  BY <1>1, <1>6, <1>8, <1>10 DEF CountCoversQueue
<1>15. ASSUME Distinct(udp_sockets_list), Exact(page_bitmap, Open, udp_sock)
       PROVE  Distinct(udp_sockets_list') /\ Exact(page_bitmap', Open', udp_sock')
  <2>1. PICK B, O, f, g : B = page_bitmap /\ O = Open /\ f = udp_sock /\ g = udp_sock'
    OBVIOUS
  <2>2. Exact(B, O, f) /\ s \in O /\ (\A t \in O : t # s => g[t] = f[t])
    BY <1>10, <1>15, <2>1
  <2>3. page_bitmap' = B \ (Own(f[s], s) \ Reserved)
    BY <1>11, <2>1
  <2>4. Exact(page_bitmap', O \ {s}, g)
    BY <2>2, <2>3, ExactRemoved
  <2>5. QED
    BY <1>5, <1>6, <1>15, <2>1, <2>4
<1>16. UNCHANGED <<hung, big>>
  BY DEF udp_close, Control
<1>17. UdpMemInv'
  BY <1>1, <1>15, <1>16, Zenon DEF UdpMemInv
<1>18. QED
  BY <1>12, <1>13, <1>14, <1>17 DEF SocketsInv

\* The first socket of the list that is bound to the port is an open one.
LEMMA FirstBound ==
  ASSUME UdpType, NEW port, BoundTo(port) # {}
  PROVE  udp_sockets_list[Min(BoundTo(port))] \in Open
<1>1. udp_sockets_list \in Seq(Pages)
  BY DEF UdpType
<1>2. BoundTo(port) \subseteq DOMAIN udp_sockets_list
  BY DEF BoundTo
<1>3. BoundTo(port) \subseteq Nat
  BY <1>1, <1>2, LenProperties
<1>4. Min(BoundTo(port)) \in BoundTo(port)
  BY <1>3, MinOfNats
<1>5. QED
  BY <1>2, <1>4 DEF Open, Range

LEMMA PacketStep ==
  ASSUME SocketsInv, WaitInv, NEW port \in UdpPort, NEW len \in DataLens,
         udp_handle_packet(port, len)
  PROVE  SocketsInv' /\ WaitInv'
<1> DEFINE m == udp_sockets_list[Min(BoundTo(port))]
           r == kmalloc(page_bitmap, 1)
<1>1. UdpType /\ OneSocketPerPort /\ CountCoversQueue /\ UdpMemInv
  BY DEF SocketsInv
<1>2. m \in Open
  BY <1>1, FirstBound DEF udp_handle_packet
<1>3. PICK s \in Open : s = m
  BY <1>2
<1>4. /\ ~ hung /\ r.page # NULL /\ UNCHANGED <<linked, udp_sockets_list, pc, waiter, big>>
  BY DEF udp_handle_packet
<1>5. page_bitmap \subseteq Pages /\ Reserved \subseteq page_bitmap
  BY <1>1 DEF UdpType
<1>6. PICK p \in Pages : /\ p = r.page /\ p \notin page_bitmap /\ p \notin Reserved
                         /\ r.bitmap = page_bitmap \cup {p}
  BY <1>4, <1>5, OnePage
<1>7. page_bitmap' = page_bitmap \cup {p} /\ Open' = Open
  BY <1>4, <1>6 DEF udp_handle_packet, Open
<1>8. CASE pc = "locked" /\ waiter.s = s
  <2>1. hung' /\ udp_sock' = udp_sock
    BY <1>3, <1>8 DEF udp_handle_packet
  <2>2. UdpType' /\ OneSocketPerPort' /\ CountCoversQueue'
    BY <1>1, <1>4, <1>7, <2>1 DEF UdpType, OneSocketPerPort, CountCoversQueue
  <2>3. UdpMemInv'
    BY <2>1, Zenon DEF UdpMemInv
  <2>4. WaitInv'
    BY <1>4, <1>7, <1>8 DEF WaitInv
  <2>5. QED
    BY <2>2, <2>3, <2>4 DEF SocketsInv
<1>9. CASE ~ (pc = "locked" /\ waiter.s = s)
  <2> DEFINE c == udp_sock[s]
             q == c.queue
             x == [page |-> p, len |-> len]
             d == [c EXCEPT !.queue = Append(q, x), !.recv_count = c.recv_count + len]
  <2>1. s \in Pages /\ Open \subseteq Pages /\ c \in UdpRec
    BY <1>1, UdpSocketsArePages
  <2>2. q \in Seq(Packet) /\ c.recv_count \in Nat /\ len \in Nat
    BY <2>1, UdpAssumption DEF UdpRec
  <2>3. x \in Packet /\ x.page = p /\ x.len = len
    BY <2>2 DEF Packet
  <2>4. udp_sock' = [udp_sock EXCEPT ![s] = d] /\ hung' = hung
    BY <1>1, <1>3, <1>6, <1>9, <2>1 DEF udp_handle_packet, UdpType
  <2> HIDE DEF x, m
  <2>5. /\ Append(q, x) \in Seq(Packet) /\ Bytes(Append(q, x)) = Bytes(q) + len
        /\ PacketPages(Append(q, x)) = PacketPages(q) \cup {p}
        /\ PagesDiffer(q) /\ p \notin PacketPages(q) => PagesDiffer(Append(q, x))
    BY <2>2, <2>3, PacketAppended, ZenonT(40)
  <2>6. d \in UdpRec /\ d.buf = c.buf /\ d.queue = Append(q, x) /\ d.port = c.port
        /\ (d.bound <=> c.bound) /\ d.recv_count = c.recv_count + len
    <3>0. Append(q, x) \in Seq(Packet) /\ c.recv_count + len \in Nat
      BY <2>2, <2>5
    <3>1. PICK z \in Seq(Packet), n \in Nat : z = Append(q, x) /\ n = c.recv_count + len
      BY <3>0, Zenon
    <3>2. d = [c EXCEPT !.queue = z, !.recv_count = n]
      BY <3>1, Zenon
    <3>3. d \in UdpRec /\ d.buf = c.buf /\ d.queue = z /\ d.port = c.port
          /\ (d.bound <=> c.bound) /\ d.recv_count = n
      BY <2>1, <3>2 DEF UdpRec
    <3>4. QED
      BY <3>1, <3>3
  <2> HIDE DEF d
  <2>7. /\ udp_sock' \in [Pages -> UdpRec] /\ udp_sock'[s] = d
        /\ \A t \in Open : t # s => udp_sock'[t] = udp_sock[t]
    BY <1>1, <2>1, <2>4, <2>6, UdpOneChanged
  <2>8. UdpType'
    BY <1>1, <1>4, <1>7, <2>7 DEF UdpType
  <2>9. OneSocketPerPort'
    BY <1>1, <1>7, <2>6, <2>7, PortsKept
  <2>10. CountCoversQueue'
    <3>1. Bytes(q) \in Nat
      <4>1. PICK f \in [0 .. Len(q) -> Nat] : Bytes(q) = f[Len(q)]
        BY <2>2, BytesSum
      <4>2. Len(q) \in 0 .. Len(q)
        BY <2>2, LenProperties
      <4>3. QED
        BY <4>1, <4>2
    <3>2. c.recv_count >= Bytes(q)
      BY <1>1 DEF CountCoversQueue
    <3>3. c.recv_count + len >= Bytes(q) + len
      BY <2>2, <3>1, <3>2
    <3>4. d.recv_count >= Bytes(d.queue)
      BY <2>5, <2>6, <3>3
    <3>5. QED
      BY <1>1, <1>7, <2>7, <3>4 DEF CountCoversQueue
  <2>11. ASSUME Exact(page_bitmap, Open, udp_sock) PROVE Exact(page_bitmap', Open, udp_sock')
    <3>1. Apart(c, s) /\ Own(c, s) \subseteq page_bitmap /\ Reserved \subseteq page_bitmap
      BY <2>11 DEF Exact
    <3>2. Apart(d, s) /\ Own(d, s) = Own(c, s) \cup {p}
      BY <1>6, <2>5, <2>6, <3>1 DEF Apart, Own
    <3>3. /\ Own(d, s) \cap (page_bitmap \ Own(c, s)) = {}
          /\ \A y : y \in page_bitmap' <=>
               y \in Reserved \/ y \in page_bitmap \ Own(c, s) \/ y \in Own(d, s)
      <4> HIDE DEF c
      <4>1. QED
        BY <1>6, <1>7, <3>1, <3>2
    <3>4. QED
      BY <2>7, <2>11, <3>2, <3>3, ExactStep
  <2>12. UdpMemInv'
    BY <1>1, <1>4, <1>7, <2>4, <2>11, Zenon DEF UdpMemInv
  <2>13. WaitInv'
    BY <1>4, <1>7, <2>4 DEF WaitInv
  <2>14. QED
    BY <2>8, <2>9, <2>10, <2>12, <2>13 DEF SocketsInv
<1>10. QED
  BY <1>8, <1>9

\* A step that leaves the sockets alone.
LEMMA SocketsKept ==
  ASSUME SocketsInv, UNCHANGED <<page_bitmap, udp_sockets_list, udp_sock, hung, big>>
  PROVE  SocketsInv' /\ Open' = Open
<1>1. Open' = Open
  BY DEF Open
<1>2. UdpType' /\ OneSocketPerPort' /\ CountCoversQueue'
  BY <1>1 DEF SocketsInv, UdpType, OneSocketPerPort, CountCoversQueue
<1>3. UdpMemInv'
  BY <1>1 DEF SocketsInv, UdpMemInv
<1>4. QED
  BY <1>1, <1>2, <1>3 DEF SocketsInv

LEMMA WaitKept ==
  ASSUME WaitInv, UNCHANGED <<linked, pc, waiter, hung>>, pc = "none" \/ Open \subseteq Open'
  PROVE  WaitInv'
BY DEF WaitInv

LEMMA UdpInitial == UdpInit => UdpInv
<1> SUFFICES ASSUME UdpInit PROVE UdpInv
  OBVIOUS
<1>1. NULL \in Pages /\ Reserved \subseteq Pages
  BY MmAssumption DEF NULL, Pages, Reserved
<1>2. NewUdpSocket(NULL) \in UdpRec
  BY <1>1, NewUdpFields
<1>3. UdpType
  <2>1. udp_sock \in [Pages -> UdpRec]
    BY <1>2 DEF UdpInit
  <2>2. page_bitmap = Reserved /\ udp_sockets_list \in Seq(Pages)
    BY DEF UdpInit, mm_init
  <2>3. QED
    BY <1>1, <2>1, <2>2 DEF UdpType
<1>4. Open = {} /\ Distinct(udp_sockets_list)
  <2>1. udp_sockets_list = <<>> /\ DOMAIN <<>> = {}
    BY DEF UdpInit
  <2>2. QED
    BY <2>1 DEF Open, Range, Distinct
<1>5. Exact(page_bitmap, Open, udp_sock)
  <2>1. page_bitmap = Reserved
    BY DEF UdpInit, mm_init
  <2>2. QED
    BY <1>4, <2>1 DEF Exact
<1>6. UdpMemInv /\ OneSocketPerPort /\ CountCoversQueue
  BY <1>4, <1>5 DEF UdpMemInv, OneSocketPerPort, CountCoversQueue
<1>7. WaitInv
  BY <1>1 DEF UdpInit, WaitInv
<1>8. QED
  BY <1>3, <1>6, <1>7 DEF UdpInv, SocketsInv

LEMMA UdpStep == UdpInv /\ [UdpNext]_udpVars => UdpInv'
<1> SUFFICES ASSUME UdpInv, [UdpNext]_udpVars PROVE UdpInv'
  OBVIOUS
<1>1. SocketsInv /\ WaitInv /\ UdpType
  BY DEF UdpInv, SocketsInv
<1>2. CASE udp_socket
  <2>1. SocketsInv' /\ Open \subseteq Open'
    BY <1>1, <1>2, SocketStep
  <2>2. UNCHANGED <<linked, pc, waiter, hung>>
    BY <1>2 DEF udp_socket, Control
  <2>3. QED
    BY <1>1, <2>1, <2>2, WaitKept DEF UdpInv
<1>3. ASSUME NEW s \in Open, NEW port \in UdpPort, udp_bind(s, port) PROVE UdpInv'
  <2>1. SocketsInv'
    BY <1>1, <1>3, BindStep
  <2>2. pc = "none" /\ UNCHANGED <<linked, pc, waiter, hung>>
    BY <1>3 DEF udp_bind, Control, Calls
  <2>3. QED
    BY <1>1, <2>1, <2>2, WaitKept DEF UdpInv
<1>4. ASSUME NEW s \in Open, udp_connect(s) PROVE UdpInv'
  <2>1. SocketsInv'
    BY <1>1, <1>4, ConnectStep
  <2>2. pc = "none" /\ UNCHANGED <<linked, pc, waiter, hung>>
    BY <1>4 DEF udp_connect, Control, Calls
  <2>3. QED
    BY <1>1, <2>1, <2>2, WaitKept DEF UdpInv
<1>5. ASSUME NEW s \in Open, NEW n \in SendPages, NEW addressed \in BOOLEAN, udp_sendto(s, n, addressed)
      PROVE  UdpInv'
  <2>1. SocketsInv'
    BY <1>1, <1>5, SendtoStep
  <2>2. pc = "none" /\ UNCHANGED <<linked, pc, waiter, hung>>
    BY <1>5 DEF udp_sendto, Control, Calls
  <2>3. QED
    BY <1>1, <2>1, <2>2, WaitKept DEF UdpInv
<1>6. ASSUME NEW s \in Open, udp_close(s) PROVE UdpInv'
  <2>1. SocketsInv'
    BY <1>1, <1>6, CloseStep
  <2>2. pc = "none" /\ UNCHANGED <<linked, pc, waiter, hung>>
    BY <1>6 DEF udp_close, Control, Calls
  <2>3. QED
    BY <1>1, <2>1, <2>2, WaitKept DEF UdpInv
<1>7. ASSUME NEW s \in Open, NEW len \in BufferLens, NEW dontwait \in BOOLEAN,
             udp_recvfrom(s, len, dontwait)
      PROVE  UdpInv'
  <2>1. len \in Nat /\ Take(s, len) /\ UNCHANGED <<linked, udp_sockets_list, pc, waiter, hung, big>>
    BY <1>7, UdpAssumption DEF udp_recvfrom
  <2>2. SocketsInv' /\ Open' = Open
    BY <1>1, <2>1, TakeStep
  <2>3. QED
    BY <1>1, <2>1, <2>2, WaitKept DEF UdpInv
<1>8. ASSUME NEW s \in Open, NEW len \in BufferLens, udp_recvfrom_wait(s, len) PROVE UdpInv'
  <2>1. len \in Nat /\ UNCHANGED <<linked, udp_sockets_list, hung, big>> /\ pc = "none" /\ s \in Pages
    BY <1>1, <1>8, UdpAssumption, UdpSocketsArePages DEF udp_recvfrom_wait, Calls
  <2>2. CASE linked = "kernel.c"
    <3>1. pc' = "woken" /\ waiter' = [s |-> s, len |-> len] /\ UNCHANGED <<page_bitmap, udp_sock>>
      BY <1>8, <2>2 DEF udp_recvfrom_wait
    <3>2. SocketsInv' /\ Open' = Open
      BY <1>1, <2>1, <3>1, SocketsKept
    <3>3. ~ hung'
      BY <1>8, <2>1 DEF udp_recvfrom_wait, Calls
    <3>4. WaitInv'
      BY <2>1, <2>2, <3>1, <3>2, <3>3 DEF WaitInv
    <3>5. QED
      BY <3>2, <3>4 DEF UdpInv
  <2>3. CASE linked # "kernel.c"
    <3>1. Take(s, len) /\ UNCHANGED <<pc, waiter>>
      BY <1>8, <2>3 DEF udp_recvfrom_wait
    <3>2. SocketsInv' /\ Open' = Open
      BY <1>1, <2>1, <3>1, TakeStep
    <3>3. QED
      BY <1>1, <2>1, <3>1, <3>2, WaitKept DEF UdpInv
  <2>4. QED
    BY <2>2, <2>3
<1>9. CASE udp_recvfrom_lock
  <2>1. /\ pc = "woken" /\ pc' = "locked"
        /\ UNCHANGED <<linked, page_bitmap, udp_sockets_list, udp_sock, waiter, hung, big>>
    BY <1>9 DEF udp_recvfrom_lock
  <2>2. SocketsInv' /\ Open' = Open
    BY <1>1, <2>1, SocketsKept
  <2>3. WaitInv'
    BY <1>1, <2>1, <2>2 DEF WaitInv
  <2>4. QED
    BY <2>2, <2>3 DEF UdpInv
<1>10. CASE udp_recvfrom_take
  <2>1. /\ ~ hung /\ pc = "locked" /\ pc' = "none" /\ waiter' = [s |-> NULL, len |-> 0]
        /\ Take(waiter.s, waiter.len) /\ UNCHANGED <<linked, udp_sockets_list, hung, big>>
    BY <1>10 DEF udp_recvfrom_take
  <2>2. PICK s \in Open, len \in Nat : s = waiter.s /\ len = waiter.len
    BY <1>1, <2>1 DEF WaitInv
  <2>3. Take(s, len)
    BY <2>1, <2>2
  <2>4. SocketsInv' /\ Open' = Open
    BY <1>1, <2>1, <2>3, TakeStep
  <2>5. NULL \in Pages
    BY MmAssumption DEF NULL, Pages
  <2>6. WaitInv'
    BY <2>1, <2>5 DEF WaitInv
  <2>7. QED
    BY <2>4, <2>6 DEF UdpInv
<1>11. ASSUME NEW port \in UdpPort, NEW len \in DataLens, udp_handle_packet(port, len) PROVE UdpInv'
  BY <1>1, <1>11, PacketStep DEF UdpInv
<1>12. CASE UNCHANGED udpVars
  <2>1. SocketsInv' /\ Open' = Open
    BY <1>1, <1>12, SocketsKept DEF udpVars
  <2>2. QED
    BY <1>1, <1>12, <2>1, WaitKept DEF UdpInv, udpVars
<1>13. QED
  BY <1>2, <1>3, <1>4, <1>5, <1>6, <1>7, <1>8, <1>9, <1>10, <1>11, <1>12 DEF UdpNext

(***************************************************************************)
(* The inductive invariant of the UDP sockets holds: what the calls and    *)
(* the handler of udp.c find, in whatever order they run.                  *)
(***************************************************************************)
THEOREM UdpInductive == UdpSpec => []UdpInv
<1>1. UdpInit => UdpInv
  BY UdpInitial
<1>2. UdpInv /\ [UdpNext]_udpVars => UdpInv'
  BY UdpStep
<1>3. QED
  BY <1>1, <1>2, PTL DEF UdpSpec

(***************************************************************************)
(* Of the pages above the kernel's exactly those are marked used that a    *)
(* structure, a receive buffer or a queued packet occupies, each by one of *)
(* them, whatever calls failed and whenever sockets were closed.           *)
(***************************************************************************)
THEOREM UdpMemoryIsExact == UdpSpec => []UdpMemoryExact
<1>1. UdpInv => UdpMemoryExact
  BY ExactIsMemory DEF UdpInv, SocketsInv
<1>2. QED
  BY <1>1, UdpInductive, PTL

(***************************************************************************)
(* udp_bind lets no two sockets have the same port, other than 0, so       *)
(* udp_handle_packet has one receiver for a datagram.                      *)
(***************************************************************************)
THEOREM UdpPortsUnique == UdpSpec => []OneSocketPerPort
<1>1. UdpInv => OneSocketPerPort
  BY DEF UdpInv, SocketsInv
<1>2. QED
  BY <1>1, UdpInductive, PTL

(***************************************************************************)
(* recv_count never falls behind the packets queued, so udp_recvfrom never *)
(* answers "would block" with data there.                                  *)
(***************************************************************************)
THEOREM UdpCountCovers == UdpSpec => []CountCoversQueue
<1>1. UdpInv => CountCoversQueue
  BY DEF UdpInv, SocketsInv
<1>2. QED
  BY <1>1, UdpInductive, PTL

(***************************************************************************)
(* udp_handle_packet spins for ever only if it interrupted a blocking      *)
(* receive that holds the lock of the same socket after its wait, in an    *)
(* image with the schedule() of kernel.c.                                  *)
(***************************************************************************)
THEOREM UdpHangs == UdpSpec => []HangNeedsWait
<1>1. UdpInv => HangNeedsWait
  BY DEF UdpInv, WaitInv, HangNeedsWait
<1>2. QED
  BY <1>1, UdpInductive, PTL

-----------------------------------------------------------------------------
(***************************************************************************)
(* TCP                                                                     *)
(***************************************************************************)

(***************************************************************************)
(* The inductive invariant                                                 *)
(***************************************************************************)
States == {"CLOSED", "LISTEN", "SYN_SENT", "SYN_RECEIVED", "ESTABLISHED", "FIN_WAIT_1",
           "FIN_WAIT_2", "CLOSE_WAIT", "CLOSING", "LAST_ACK", "TIME_WAIT"}

Byte == Nat \X Nat

TcpBuf ==
  [data : [0 .. BufSize - 1 -> Byte], head : 0 .. BufSize - 1, tail : 0 .. BufSize - 1,
   used : 0 .. BufSize, last : Byte]

TcpRec ==
  [port : Nat, remote : Peer \cup {0}, state : States, type : {"ACTIVE", "PASSIVE"},
   send_seq : 0 .. SeqSpace - 1, recv_seq : 0 .. SeqSpace - 1,
   send_ack : 0 .. SeqSpace - 1, window : Nat,
   outstanding : SUBSET [seq : Nat, len : Nat],
   queue : [QueueSlots -> 0 .. MaxSocks], head : QueueSlots, count : 0 .. QueueMax,
   owner : 0 .. MaxSocks, isn : 0 .. SeqSpace - 1, conn : Nat, sent : Nat, acked : Nat,
   offered : Nat, whole : BOOLEAN, heard : BOOLEAN]

TcpType ==
  /\ tcp_sockets \in Seq(Socks) /\ Distinct(tcp_sockets)
  /\ sock \in [Socks -> TcpRec] /\ buf \in [Socks -> [send : TcpBuf, recv : TcpBuf]]
  /\ next_local_port \in 0 .. PortSpace - 1 /\ made \in 0 .. MaxSocks
  /\ Listed \subseteq held /\ held \subseteq 1 .. made

\* The slots of the accept queue, counted from its head.
Slot(c, i)  == (c.head + i) % QueueMax
Entry(c, i) == c.queue[Slot(c, i)]

\* A socket and those in its slots have the buffers of the same one.
GroupInv ==
  /\ \A s \in 1 .. made :
       /\ sock[s].owner \in 1 .. made
       /\ \A t \in Queued(s) : t \in 1 .. made /\ t # s /\ sock[t].owner = sock[s].owner
  /\ \A s \in Listed : sock[s].owner = s

\* The connections that wait are in the order in which they were made.
Ordered(c) ==
  /\ \A i \in 0 .. c.count - 1 : Entry(c, i) # 0
  /\ \A i, j \in 0 .. c.count - 1 : i < j => Entry(c, i) < Entry(c, j)

AcceptInv ==
  /\ accepted \in Seq([by : Socks, got : Socks])
  /\ \A s \in 1 .. made : Ordered(sock[s])
  /\ \A j \in DOMAIN accepted :
       /\ accepted[j].by \in 1 .. made /\ accepted[j].got \in 1 .. made
       /\ sock[accepted[j].got].owner = sock[accepted[j].by].owner
       /\ \A i \in DOMAIN accepted :
            i < j /\ accepted[i].by = accepted[j].by => accepted[i].got < accepted[j].got
       /\ \A i \in 0 .. sock[accepted[j].by].count - 1 :
            accepted[j].got < Entry(sock[accepted[j].by], i)

\* The slots of a listed socket that are free hold nothing but connections
\* programs have: a new connection may overwrite them.
FreeSlotsHeld(c) == \A i \in c.count .. QueueMax - 1 : Entry(c, i) \in held \cup {0}

Needed == UNION {Parts(s) : s \in Reachable}

TcpMemInv ==
  /\ \A s \in Reachable : Queued(s) \subseteq Reachable
  /\ \A s \in Listed : FreeSlotsHeld(sock[s])
  /\ Needed \subseteq live
  /\ live = Needed \/ dropped

\* The bytes of a buffer, oldest first, and the newest byte it ever had.
ByteAt(b, j) == b.data[(b.head + j) % BufSize]
Newest(b)    == IF b.used = 0 THEN b.last ELSE ByteAt(b, b.used - 1)

\* A ring whose bytes follow each other and the last one taken.
Ring(b) ==
  /\ b.tail = (b.head + b.used) % BufSize
  /\ b.used > 0 => Follows(b.last, ByteAt(b, 0))
  /\ \A j \in 1 .. b.used - 1 : Follows(ByteAt(b, j - 1), ByteAt(b, j))

\* recv_seq is the number of the byte that follows the newest one.
Expects(c, b) ==
  LET e == Newest(b) IN
  /\ e[1] <= c.conn
  /\ c.state = "SYN_SENT" => e[1] < c.conn
  /\ c.state \in {"SYN_RECEIVED", "ESTABLISHED"} =>
       \/ e[1] < c.conn /\ c.recv_seq = Plus(PeerISN, 1)
       \/ /\ e[1] = c.conn /\ c.recv_seq = Plus(PeerISN, e[2] + 1)
          /\ \E len \in Lens : e[2] < MaxIn + len

Heard(c) == c.state \in {"SYN_RECEIVED", "ESTABLISHED", "LAST_ACK"} => c.heard

TcpRecvInv ==
  /\ ~ misread
  /\ \A s \in Socks : Ring(buf[s].recv)
  /\ \A s \in Socks : s > made => buf[s].recv = EmptyBuffer
  /\ \A s \in Listed : Heard(sock[s])
  /\ ~ broken => \A s \in Listed : Expects(sock[s], buf[s].recv)

\* What was sent and not acknowledged is outstanding, in an entry that does not
\* go beyond what was sent.
Kept(c) ==
  c.whole /\ c.isn + 1 + c.sent < SeqSpace =>
    \A k \in c.acked + 1 .. c.sent : \E seg \in c.outstanding :
      /\ c.isn + k \in seg.seq .. seg.seq + seg.len - 1
      /\ seg.seq + seg.len <= c.isn + 1 + c.sent

\* send_ack is an acknowledgment of this connection, or none has come and it is
\* what it was before.
AckKnown(c) ==
  \/ \E k \in 0 .. c.acked : k <= c.sent /\ c.send_ack = Plus(c.isn, k + 1)
  \/ /\ c.acked = 0
     /\ c.sent = 0 \/ Minus(Plus(c.isn, 1), c.send_ack) + c.sent <= c.offered + Mss - 1

Sending(c) ==
  /\ c.offered + Mss <= SeqSpace /\ c.acked <= c.sent /\ c.sent <= MaxOut
  /\ c.sent <= c.acked + c.offered + Mss - 1
  /\ c.state = "SYN_SENT" => c.send_seq = c.isn
  /\ c.state \in {"SYN_SENT", "SYN_RECEIVED"} => c.sent = 0
  /\ c.state \in {"SYN_RECEIVED", "ESTABLISHED"} =>
       /\ c.send_seq = Plus(c.isn, c.sent + 1) /\ c.window <= c.offered
       /\ Kept(c) /\ AckKnown(c)

TcpSendInv == \A s \in Listed : Sending(sock[s])

TcpInv ==
  /\ TcpType /\ GroupInv /\ AcceptInv /\ TcpRecvInv /\ TcpSendInv
  /\ ~ broken => TcpMemInv

-----------------------------------------------------------------------------
(***************************************************************************)
(* Steps that leave owners and accept queues alone                         *)
(***************************************************************************)
SameQueue(c, d) ==
  d.owner = c.owner /\ d.queue = c.queue /\ d.head = c.head /\ d.count = c.count

LEMMA ListedAreSocks ==
  ASSUME TcpType
  PROVE  /\ Listed \subseteq held /\ held \subseteq 1 .. made /\ 1 .. made \subseteq Socks
         /\ \A s \in Socks : sock[s] \in TcpRec
         /\ made \in Nat /\ MaxSocks \in Nat
<1>1. MaxSocks \in Nat
  BY TcpAssumption
<1>2. QED
  BY <1>1 DEF TcpType, Socks

LEMMA TcpOneChanged ==
  ASSUME TcpType, NEW s \in Socks, NEW d \in TcpRec, sock' = [sock EXCEPT ![s] = d]
  PROVE  /\ sock' \in [Socks -> TcpRec] /\ sock'[s] = d
         /\ \A t \in Socks : t # s => sock'[t] = sock[t]
<1>1. sock \in [Socks -> TcpRec]
  BY DEF TcpType
<1> HIDE DEF TcpRec
<1>2. QED
  BY <1>1

LEMMA QueuesFrame ==
  ASSUME TcpType, \A t \in Socks : SameQueue(sock[t], sock'[t]),
         UNCHANGED <<tcp_sockets, made, held, live, accepted, dropped>>
  PROVE  /\ Listed' = Listed
         /\ GroupInv => GroupInv'
         /\ GroupInv /\ AcceptInv => AcceptInv'
         /\ GroupInv /\ TcpMemInv => TcpMemInv'
<1>1. /\ Listed \subseteq held /\ held \subseteq 1 .. made /\ 1 .. made \subseteq Socks
  BY ListedAreSocks
<1>2. Listed' = Listed
  BY DEF Listed
<1>3. \A t \in Socks : Queued(t)' = Queued(t) /\ Parts(t)' = Parts(t)
  BY DEF Queued, Parts, SameQueue
<1>4. \A t \in Socks : \A i : Entry(sock'[t], i) = Entry(sock[t], i)
  BY DEF Entry, Slot, SameQueue
<1>5. \A t \in Socks : sock'[t].count = sock[t].count /\ sock'[t].owner = sock[t].owner
  BY DEF SameQueue
<1>6. ASSUME GroupInv PROVE GroupInv'
  <2>1. \A s \in 1 .. made : \A t \in Queued(s) : t \in 1 .. made
    BY <1>6 DEF GroupInv
  <2>2. QED
    BY <1>1, <1>2, <1>3, <1>5, <1>6, <2>1 DEF GroupInv
<1>7. ASSUME GroupInv, AcceptInv PROVE AcceptInv'
  <2>1. \A s \in 1 .. made : Ordered(sock'[s])
    BY <1>1, <1>4, <1>5, <1>7 DEF AcceptInv, Ordered
  <2>2. \A j \in DOMAIN accepted : accepted[j].by \in Socks /\ accepted[j].got \in Socks
    BY <1>1, <1>7 DEF AcceptInv
  <2>3. \A j \in DOMAIN accepted :
          /\ accepted[j].by \in 1 .. made /\ accepted[j].got \in 1 .. made
          /\ sock'[accepted[j].got].owner = sock'[accepted[j].by].owner
    BY <1>5, <1>7, <2>2 DEF AcceptInv
  <2>4. ASSUME NEW j \in DOMAIN accepted, NEW i \in 0 .. sock'[accepted[j].by].count - 1
        PROVE  accepted[j].got < Entry(sock'[accepted[j].by], i)
    <3>1. i \in 0 .. sock[accepted[j].by].count - 1
      BY <1>5, <2>2, <2>4
    <3>2. accepted[j].got < Entry(sock[accepted[j].by], i)
      BY <1>7, <3>1 DEF AcceptInv
    <3>3. QED
      BY <1>4, <2>2, <3>2
  <2>5. /\ accepted \in Seq([by : Socks, got : Socks])
        /\ \A j \in DOMAIN accepted : \A i \in DOMAIN accepted :
             i < j /\ accepted[i].by = accepted[j].by => accepted[i].got < accepted[j].got
    BY <1>7 DEF AcceptInv
  <2>6. accepted' = accepted /\ made' = made
    OBVIOUS
  <2>7. QED
    BY <2>1, <2>3, <2>4, <2>5, <2>6 DEF AcceptInv
<1>8. ASSUME GroupInv, TcpMemInv PROVE TcpMemInv'
  <2>1. \A s \in Listed \cup held : Queued(s) \subseteq Socks /\ s \in Socks
    BY <1>1, <1>8 DEF GroupInv
  <2>2. Reachable' = Reachable /\ Reachable \subseteq Socks
    BY <1>2, <1>3, <2>1 DEF Reachable
  <2>3. Needed' = Needed
    BY <1>3, <2>2 DEF Needed
  <2>4. \A s \in Listed : FreeSlotsHeld(sock[s]) => FreeSlotsHeld(sock[s])'
    BY <1>1, <1>4, <1>5 DEF FreeSlotsHeld
  <2>5. QED
    BY <1>2, <1>3, <1>8, <2>2, <2>3, <2>4 DEF TcpMemInv
<1>9. QED
  BY <1>2, <1>6, <1>7, <1>8

LEMMA NewestIsByte ==
  ASSUME NEW b \in TcpBuf
  PROVE  Newest(b) \in Byte /\ Newest(b)[1] \in Nat /\ Newest(b)[2] \in Nat
<1>1. /\ b.head \in 0 .. BufSize - 1 /\ b.used \in 0 .. BufSize /\ b.last \in Byte
      /\ b.data \in [0 .. BufSize - 1 -> Byte]
  BY DEF TcpBuf
<1>2. BufSize \in Nat \ {0}
  BY TcpAssumption
<1>3. CASE b.used = 0
  BY <1>1, <1>3 DEF Newest, Byte
<1>4. CASE b.used # 0
  <2>1. PICK x \in Nat : x = b.head + (b.used - 1)
    BY <1>1, <1>4
  <2>2. x % BufSize \in 0 .. BufSize - 1
    BY <1>2, Division
  <2>3. Newest(b) = b.data[x % BufSize]
    BY <1>4, <2>1 DEF Newest, ByteAt
  <2>4. QED
    BY <1>1, <2>2, <2>3 DEF Byte
<1>5. QED
  BY <1>3, <1>4

LEMMA OneSocketStep ==
  ASSUME TcpInv, ~ broken, NEW s \in held, NEW d \in TcpRec, SameQueue(sock[s], d),
         sock' = [sock EXCEPT ![s] = d],
         buf' \in [Socks -> [send : TcpBuf, recv : TcpBuf]],
         \A t \in Socks : t # s => buf'[t].recv = buf[t].recv, Ring(buf'[s].recv),
         s \in Listed => Heard(d) /\ Sending(d) /\ Expects(d, buf'[s].recv),
         UNCHANGED <<tcp_sockets, next_local_port, made, held, live, accepted, dropped,
                     misread, broken>>
  PROVE  TcpInv'
<1>1. TcpType /\ GroupInv /\ AcceptInv /\ TcpRecvInv /\ TcpSendInv /\ TcpMemInv
  BY DEF TcpInv
<1>2. /\ Listed \subseteq held /\ held \subseteq 1 .. made /\ 1 .. made \subseteq Socks
      /\ made \in Nat
  BY <1>1, ListedAreSocks
<1>3. s \in Socks /\ s \in 1 .. made
  BY <1>2
<1>4. /\ sock' \in [Socks -> TcpRec] /\ sock'[s] = d
      /\ \A t \in Socks : t # s => sock'[t] = sock[t]
  BY <1>1, <1>3, TcpOneChanged
<1>5. \A t \in Socks : SameQueue(sock[t], sock'[t])
  BY <1>4 DEF SameQueue
<1>6. Listed' = Listed /\ GroupInv' /\ AcceptInv' /\ TcpMemInv'
  BY <1>1, <1>5, QueuesFrame
<1>7. TcpType'
  BY <1>1, <1>4, <1>6 DEF TcpType
<1>8. TcpRecvInv'
  <2>1. \A t \in Socks : t > made => t # s
    BY <1>2, <1>3 DEF Socks
  <2>2. \A t \in Listed : Heard(sock'[t])
    BY <1>1, <1>2, <1>4 DEF TcpRecvInv
  <2>3. \A t \in Listed : Expects(sock'[t], buf'[t].recv)
    BY <1>1, <1>2, <1>4 DEF TcpRecvInv
  <2>4. \A t \in Socks : Ring(buf'[t].recv)
    BY <1>1 DEF TcpRecvInv
  <2>5. \A t \in Socks : t > made => buf'[t].recv = EmptyBuffer
    BY <1>1, <2>1 DEF TcpRecvInv
  <2>6. ~ misread'
    BY <1>1 DEF TcpRecvInv
  <2>7. QED
    BY <1>6, <2>2, <2>3, <2>4, <2>5, <2>6, Zenon DEF TcpRecvInv
<1>9. TcpSendInv'
  BY <1>1, <1>2, <1>4, <1>6 DEF TcpSendInv
<1>10. QED
  BY <1>6, <1>7, <1>8, <1>9 DEF TcpInv

\* The same, when the buffers stay too.
LEMMA OneStructureStep ==
  ASSUME TcpInv, ~ broken, NEW s \in held, NEW d \in TcpRec, SameQueue(sock[s], d),
         sock' = [sock EXCEPT ![s] = d],
         s \in Listed => Heard(d) /\ Sending(d) /\ Expects(d, buf[s].recv),
         UNCHANGED <<tcp_sockets, buf, next_local_port, made, held, live, accepted, dropped,
                     misread, broken>>
  PROVE  TcpInv'
<1>1. TcpType /\ TcpRecvInv
  BY DEF TcpInv
<1>2. s \in Socks
  BY <1>1, ListedAreSocks
<1>3. buf' \in [Socks -> [send : TcpBuf, recv : TcpBuf]] /\ Ring(buf'[s].recv)
  BY <1>1, <1>2 DEF TcpType, TcpRecvInv
<1>4. QED
  BY <1>3, OneSocketStep

LEMMA HeldInv ==
  ASSUME TcpInv, ~ broken, NEW s \in held
  PROVE  /\ s \in Socks /\ s \in 1 .. made /\ sock[s] \in TcpRec
         /\ s \in Listed => /\ Heard(sock[s]) /\ Sending(sock[s])
                            /\ Expects(sock[s], buf[s].recv) /\ sock[s].owner = s
<1>1. TcpType /\ TcpRecvInv /\ TcpSendInv /\ GroupInv
  BY DEF TcpInv
<1>2. s \in Socks /\ s \in 1 .. made /\ sock[s] \in TcpRec
  BY <1>1, ListedAreSocks
<1>3. QED
  BY <1>1, <1>2 DEF TcpRecvInv, TcpSendInv, GroupInv

LEMMA TcpBindStep ==
  ASSUME TcpInv, ~ broken, NEW s \in held, NEW port \in Port, tcp_bind(s, port)
  PROVE  TcpInv'
<1> DEFINE c == sock[s]
           d == [c EXCEPT !.port = port]
<1>1. c \in TcpRec
  BY HeldInv
<1>2. d \in TcpRec
  BY <1>1, TcpAssumption DEF TcpRec
<1>3. SameQueue(c, d)
  BY <1>1 DEF TcpRec, SameQueue
<1>4. (Heard(c) => Heard(d)) /\ (Expects(c, buf[s].recv) => Expects(d, buf[s].recv))
  BY <1>1 DEF TcpRec, Heard, Expects
<1>5. Sending(c) => Sending(d)
  BY <1>1 DEF TcpRec, Sending, Kept, AckKnown
<1>6. sock' = [sock EXCEPT ![s] = d]
  BY DEF tcp_bind
<1> HIDE DEF d
<1>7. QED
  BY <1>2, <1>3, <1>4, <1>5, <1>6, HeldInv, OneStructureStep DEF tcp_bind

LEMMA TcpListenStep ==
  ASSUME TcpInv, ~ broken, NEW s \in held, tcp_listen(s)
  PROVE  TcpInv'
<1> DEFINE c == sock[s]
           d == [c EXCEPT !.type = "PASSIVE", !.state = "LISTEN"]
<1>1. c \in TcpRec
  BY HeldInv
<1>2. d \in TcpRec
  BY <1>1 DEF TcpRec, States
<1>3. SameQueue(c, d)
  BY <1>1 DEF TcpRec, SameQueue
<1>4. Heard(d) /\ (Expects(c, buf[s].recv) => Expects(d, buf[s].recv))
  BY <1>1 DEF TcpRec, Heard, Expects
<1>5. Sending(c) => Sending(d)
  BY <1>1 DEF TcpRec, Sending
<1>6. sock' = [sock EXCEPT ![s] = d]
  BY DEF tcp_listen
<1> HIDE DEF d
<1>7. QED
  BY <1>2, <1>3, <1>4, <1>5, <1>6, HeldInv, OneStructureStep DEF tcp_listen

\* The fields that the arrival of segments is about, but for what is outstanding.
SameTalk(c, d) ==
  /\ d.state = c.state /\ d.heard = c.heard /\ d.conn = c.conn /\ d.isn = c.isn
  /\ d.send_seq = c.send_seq /\ d.recv_seq = c.recv_seq /\ d.send_ack = c.send_ack
  /\ d.window = c.window /\ d.offered = c.offered /\ d.sent = c.sent /\ d.acked = c.acked

Recorded(c, d, seq, len) ==
  \/ d.whole = FALSE
  \/ d.whole = c.whole /\ d.outstanding = c.outstanding \cup {[seq |-> seq, len |-> len]}

LEMMA EnqueuedFields ==
  ASSUME NEW c \in TcpRec, NEW seq \in Nat, NEW len \in Nat, NEW ok,
         NEW d, d = tcp_enqueue_segment(c, seq, len, ok)
  PROVE  d \in TcpRec /\ SameQueue(c, d) /\ SameTalk(c, d) /\ Recorded(c, d, seq, len)
<1>1. CASE ok
  <2>0. c.outstanding \subseteq [seq : Nat, len : Nat]
    BY DEF TcpRec
  <2>1. PICK S \in SUBSET [seq : Nat, len : Nat] : S = c.outstanding \cup {[seq |-> seq, len |-> len]}
    <3>1. [seq |-> seq, len |-> len] \in [seq : Nat, len : Nat]
      OBVIOUS
    <3>2. QED
      BY <2>0, <3>1, Zenon
  <2>2. d = [c EXCEPT !.outstanding = S]
    BY <1>1, <2>1 DEF tcp_enqueue_segment
  <2>3. QED
    BY <1>1, <2>1, <2>2, ZenonT(40) DEF TcpRec, SameQueue, SameTalk, Recorded
<1>2. CASE ~ ok
  <2>1. d = [c EXCEPT !.whole = FALSE]
    BY <1>2 DEF tcp_enqueue_segment
  <2>2. QED
    BY <1>2, <2>1, ZenonT(40) DEF TcpRec, SameQueue, SameTalk, Recorded
<1>3. QED
  BY <1>1, <1>2

LEMMA TcpConnectStep ==
  ASSUME TcpInv, ~ broken, NEW s \in held, NEW peer \in Peer, NEW ok \in BOOLEAN,
         NEW recorded \in BOOLEAN, tcp_connect(s, peer, ok, recorded)
  PROVE  TcpInv'
<1> DEFINE b == sock[s]
           c == [b EXCEPT !.remote = peer, !.type = "ACTIVE",
                          !.send_seq = b.isn, !.recv_seq = 0,
                          !.conn = @ + 1, !.sent = 0, !.acked = 0, !.offered = 0,
                          !.whole = TRUE, !.heard = FALSE]
           e == tcp_enqueue_segment(c, c.send_seq, 0, recorded)
           d == IF ok THEN [e EXCEPT !.state = "SYN_SENT"] ELSE c
<1>1. b \in TcpRec /\ b.state = "CLOSED"
  BY HeldInv DEF tcp_connect
<1>2. SeqSpace \in Nat \ {0} /\ Mss \in Nat \ {0} /\ Mss <= SeqSpace /\ MaxOut \in Nat
  <2>1. FirstWindow + Mss <= SeqSpace /\ FirstWindow \in Nat
    BY TcpAssumption
  <2>2. QED
    BY <2>1, TcpAssumption
<1>3. c \in TcpRec
  <2>1. b.isn \in 0 .. SeqSpace - 1 /\ 0 \in 0 .. SeqSpace - 1 /\ b.conn \in Nat
    BY <1>1, <1>2 DEF TcpRec
  <2>2. PICK n \in 0 .. SeqSpace - 1, z \in 0 .. SeqSpace - 1, m \in Nat :
          n = b.isn /\ z = 0 /\ m = b.conn + 1
    BY <2>1
  <2>3. c = [b EXCEPT !.remote = peer, !.type = "ACTIVE", !.send_seq = n, !.recv_seq = z,
                      !.conn = m, !.sent = 0, !.acked = 0, !.offered = 0,
                      !.whole = TRUE, !.heard = FALSE]
    BY <2>2
  <2> HIDE DEF c
  <2>4. QED
    BY <1>1, <2>3 DEF TcpRec
<1>4. /\ SameQueue(b, c) /\ c.state = "CLOSED" /\ c.conn = b.conn + 1 /\ c.isn = b.isn
      /\ c.send_seq = c.isn /\ c.sent = 0 /\ c.acked = 0 /\ c.offered = 0
  BY <1>1 DEF TcpRec, SameQueue
<1> HIDE DEF c
<1>5. c.send_seq \in Nat /\ b.conn \in Nat
  BY <1>1, <1>2, <1>3 DEF TcpRec
<1>6. /\ e \in TcpRec /\ SameQueue(c, e) /\ e.conn = c.conn /\ e.isn = c.isn
      /\ e.send_seq = c.send_seq /\ e.sent = c.sent /\ e.acked = c.acked /\ e.offered = c.offered
  <2>1. PICK n \in Nat, z \in Nat : n = c.send_seq /\ z = 0
    BY <1>5
  <2>2. e = tcp_enqueue_segment(c, n, z, recorded)
    BY <2>1
  <2> HIDE DEF e
  <2>3. e \in TcpRec /\ SameQueue(c, e) /\ SameTalk(c, e)
    BY <1>3, <2>2, EnqueuedFields
  <2>4. QED
    BY <2>3 DEF SameTalk
<1> HIDE DEF e
<1>7. /\ d \in TcpRec /\ SameQueue(b, d) /\ d.state \in {"CLOSED", "SYN_SENT"}
      /\ d.conn = b.conn + 1 /\ d.send_seq = d.isn /\ d.sent = 0 /\ d.acked = 0 /\ d.offered = 0
  <2>1. CASE ok
    BY <1>4, <1>6, <2>1 DEF TcpRec, SameQueue, States
  <2>2. CASE ~ ok
    BY <1>3, <1>4, <2>2 DEF SameQueue
  <2>3. QED
    BY <2>1, <2>2
<1>8. sock' = [sock EXCEPT ![s] = d]
  BY DEF tcp_connect, c, e
<1> HIDE DEF d
<1>9. Heard(d) /\ Sending(d)
  BY <1>2, <1>7 DEF Heard, Sending
<1>10. s \in Listed => Expects(d, buf[s].recv)
  <2>1. SUFFICES ASSUME s \in Listed PROVE Expects(d, buf[s].recv)
    OBVIOUS
  <2>2. Expects(b, buf[s].recv)
    BY <2>1, HeldInv
  <2>3. PICK x : x = Newest(buf[s].recv)
    OBVIOUS
  <2>4. x[1] <= b.conn
    BY <2>2, <2>3 DEF Expects
  <2>5. x[1] \in Nat
    <3>1. buf[s].recv \in TcpBuf
      BY HeldInv DEF TcpInv, TcpType
    <3>2. QED
      BY <2>3, <3>1, NewestIsByte
  <2>6. QED
    BY <1>5, <1>7, <2>3, <2>4, <2>5 DEF Expects
<1>11. QED
  BY <1>7, <1>8, <1>9, <1>10, OneStructureStep DEF tcp_connect

-----------------------------------------------------------------------------
(***************************************************************************)
(* Numbers modulo SeqSpace                                                 *)
(***************************************************************************)
LEMMA PlusIs ==
  ASSUME NEW a \in 0 .. SeqSpace - 1, NEW b \in 0 .. SeqSpace
  PROVE  /\ Plus(a, b) = IF a + b < SeqSpace THEN a + b ELSE a + b - SeqSpace
         /\ Plus(a, b) \in 0 .. SeqSpace - 1
<1>1. SeqSpace \in Nat \ {0}
  BY TcpAssumption
<1>2. PICK n \in Nat \ {0} : n = SeqSpace
  BY <1>1
<1>3. a \in 0 .. n - 1 /\ b \in 0 .. n
  BY <1>2
<1>4. (a + b) % n = IF a + b < n THEN a + b ELSE a + b - n
  BY <1>3
<1>5. QED
  BY <1>2, <1>3, <1>4 DEF Plus

LEMMA MinusIs ==
  ASSUME NEW a \in 0 .. SeqSpace - 1, NEW b \in 0 .. SeqSpace - 1
  PROVE  /\ Minus(a, b) = IF a >= b THEN a - b ELSE a - b + SeqSpace
         /\ Minus(a, b) \in 0 .. SeqSpace - 1
<1>1. SeqSpace \in Nat \ {0}
  BY TcpAssumption
<1>2. PICK n \in Nat \ {0} : n = SeqSpace
  BY <1>1
<1>3. a \in 0 .. n - 1 /\ b \in 0 .. n - 1
  BY <1>2
<1>4. (a - b) % n = IF a >= b THEN a - b ELSE a - b + n
  BY <1>3
<1>5. QED
  BY <1>2, <1>3, <1>4 DEF Minus

LEMMA PlusPlus ==
  ASSUME NEW a \in 0 .. SeqSpace - 1, NEW b \in Nat, NEW k \in Nat, b + k <= SeqSpace
  PROVE  Plus(Plus(a, b), k) = Plus(a, b + k)
<1>1. SeqSpace \in Nat \ {0}
  BY TcpAssumption
<1>2. PICK n \in Nat \ {0} : n = SeqSpace
  BY <1>1
<1>3. a \in 0 .. n - 1 /\ b \in 0 .. SeqSpace /\ k \in 0 .. SeqSpace /\ b + k \in 0 .. SeqSpace
  BY <1>2
<1>4. PICK p : p = Plus(a, b)
  OBVIOUS
<1>5. p = (IF a + b < n THEN a + b ELSE a + b - n) /\ p \in 0 .. SeqSpace - 1
  BY <1>2, <1>3, <1>4, PlusIs
<1>6. Plus(p, k) = IF p + k < n THEN p + k ELSE p + k - n
  BY <1>2, <1>3, <1>5, PlusIs
<1>7. Plus(a, b + k) = IF a + (b + k) < n THEN a + (b + k) ELSE a + (b + k) - n
  BY <1>2, <1>3, PlusIs
<1>8. Plus(p, k) = Plus(a, b + k)
  BY <1>2, <1>3, <1>5, <1>6, <1>7
<1>9. QED
  BY <1>4, <1>8

LEMMA PlusInjective ==
  ASSUME NEW a \in 0 .. SeqSpace - 1, NEW b \in 1 .. SeqSpace, NEW k \in 1 .. SeqSpace,
         Plus(a, b) = Plus(a, k)
  PROVE  b = k
<1>1. SeqSpace \in Nat \ {0}
  BY TcpAssumption
<1>2. PICK n \in Nat \ {0} : n = SeqSpace
  BY <1>1
<1>3. a \in 0 .. n - 1 /\ b \in 0 .. SeqSpace /\ k \in 0 .. SeqSpace /\ b \in 1 .. n /\ k \in 1 .. n
  BY <1>2
<1>4. /\ Plus(a, b) = IF a + b < n THEN a + b ELSE a + b - n
      /\ Plus(a, k) = IF a + k < n THEN a + k ELSE a + k - n
  BY <1>2, <1>3, PlusIs
<1>5. (IF a + b < n THEN a + b ELSE a + b - n) = (IF a + k < n THEN a + k ELSE a + k - n)
  BY <1>4, Zenon
<1>6. QED
  BY <1>3, <1>5

\* What the window test of tcp_send compares: the bytes sent since the
\* acknowledgment of the first j of them,
LEMMA InFlight ==
  ASSUME NEW isn \in 0 .. SeqSpace - 1, NEW out \in 0 .. SeqSpace - 1, NEW j \in 0 .. out
  PROVE  Minus(Plus(isn, out + 1), Plus(isn, j + 1)) = out - j
<1>1. SeqSpace \in Nat \ {0}
  BY TcpAssumption
<1>2. PICK n \in Nat \ {0} : n = SeqSpace
  BY <1>1
<1>3. isn \in 0 .. n - 1 /\ out + 1 \in 0 .. SeqSpace /\ j + 1 \in 0 .. SeqSpace /\ out + 1 \in 1 .. n /\ j + 1 \in 1 .. n
  BY <1>2
<1>4. PICK x, y : x = Plus(isn, out + 1) /\ y = Plus(isn, j + 1)
  OBVIOUS
<1>5. /\ x = IF isn + (out + 1) < n THEN isn + (out + 1) ELSE isn + (out + 1) - n
      /\ y = IF isn + (j + 1) < n THEN isn + (j + 1) ELSE isn + (j + 1) - n
      /\ x \in 0 .. SeqSpace - 1 /\ y \in 0 .. SeqSpace - 1
  BY <1>2, <1>3, <1>4, PlusIs
<1>6. Minus(x, y) = IF x >= y THEN x - y ELSE x - y + n
  BY <1>2, <1>5, MinusIs
<1>7. Minus(x, y) = out - j
  BY <1>2, <1>3, <1>5, <1>6
<1>8. QED
  BY <1>4, <1>7

\* or, with another number, no less as long as nothing wraps around.
LEMMA InFlightFrom ==
  ASSUME NEW isn \in 0 .. SeqSpace - 1, NEW out \in 0 .. SeqSpace - 1,
         NEW a \in 0 .. SeqSpace - 1, NEW m, m = Minus(Plus(isn, 1), a), m + out < SeqSpace
  PROVE  m \in Nat /\ Minus(Plus(isn, out + 1), a) = m + out
<1>1. SeqSpace \in Nat \ {0}
  BY TcpAssumption
<1>2. PICK n \in Nat \ {0} : n = SeqSpace
  BY <1>1
<1>3. /\ isn \in 0 .. n - 1 /\ out + 1 \in 0 .. SeqSpace /\ 1 \in 0 .. SeqSpace
      /\ out \in 0 .. n - 1 /\ a \in 0 .. n - 1
  BY <1>2
<1>4. PICK x, y : x = Plus(isn, out + 1) /\ y = Plus(isn, 1)
  OBVIOUS
<1>5. /\ x = IF isn + (out + 1) < n THEN isn + (out + 1) ELSE isn + (out + 1) - n
      /\ y = IF isn + 1 < n THEN isn + 1 ELSE isn + 1 - n
      /\ x \in 0 .. SeqSpace - 1 /\ y \in 0 .. SeqSpace - 1
  BY <1>2, <1>3, <1>4, PlusIs
<1>6. /\ Minus(x, a) = IF x >= a THEN x - a ELSE x - a + n
      /\ Minus(y, a) = IF y >= a THEN y - a ELSE y - a + n
  BY <1>2, <1>5, MinusIs
<1>7. m = Minus(y, a) /\ m + out < n
  BY <1>2, <1>4
<1>8. m \in Nat /\ Minus(x, a) = m + out
  BY <1>2, <1>3, <1>5, <1>6, <1>7
<1>9. QED
  BY <1>4, <1>8

-----------------------------------------------------------------------------
(***************************************************************************)
(* tcp_send                                                                *)
(***************************************************************************)
LEMMA SizesOfTcp ==
  /\ SeqSpace \in Nat \ {0} /\ Mss \in Nat \ {0} /\ MaxOut \in Nat /\ MaxOut < SeqSpace
  /\ BufSize \in Nat \ {0} /\ QueueMax \in Nat \ {0} /\ Mss <= SeqSpace
  /\ MaxSocks \in Nat /\ MaxIn \in Nat /\ PortSpace \in Nat \ {0}
<1>1. FirstWindow + Mss <= SeqSpace /\ FirstWindow \in Nat
  BY TcpAssumption
<1>2. QED
  BY <1>1, TcpAssumption

LEMMA RoundNumbers ==
  ASSUME NEW isn \in 0 .. SeqSpace - 1, NEW out \in Nat, NEW acked \in Nat, acked <= out,
         NEW offered \in Nat, NEW window \in Nat, window <= offered, offered + Mss <= SeqSpace,
         NEW a \in 0 .. SeqSpace - 1, NEW k \in Nat, k <= Mss, out + k <= MaxOut,
         Minus(Plus(isn, out + 1), a) < window,
         \/ \E j \in 0 .. acked : j <= out /\ a = Plus(isn, j + 1)
         \/ /\ acked = 0
            /\ out = 0 \/ Minus(Plus(isn, 1), a) + out <= offered + Mss - 1
  PROVE  /\ out + k <= acked + offered + Mss - 1
         /\ \/ \E j \in 0 .. acked : j <= out + k /\ a = Plus(isn, j + 1)
            \/ acked = 0 /\ Minus(Plus(isn, 1), a) + (out + k) <= offered + Mss - 1
<1>1. /\ SeqSpace \in Nat \ {0} /\ Mss \in Nat \ {0} /\ MaxOut \in Nat /\ MaxOut < SeqSpace
  BY SizesOfTcp
<1>2. out \in 0 .. SeqSpace - 1
  BY <1>1
<1>3. CASE \E j \in 0 .. acked : j <= out /\ a = Plus(isn, j + 1)
  <2>1. PICK j \in 0 .. acked : j <= out /\ a = Plus(isn, j + 1)
    BY <1>3
  <2>2. j \in 0 .. out
    BY <2>1
  <2>3. Minus(Plus(isn, out + 1), a) = out - j
    BY <1>2, <2>1, <2>2, InFlight
  <2>4. out - j < window
    BY <2>3
  <2>5. out + k <= acked + offered + Mss - 1 /\ j <= out + k
    BY <1>1, <2>1, <2>4
  <2>6. QED
    BY <2>1, <2>5
<1>4. CASE acked = 0 /\ (out = 0 \/ Minus(Plus(isn, 1), a) + out <= offered + Mss - 1)
  <2>1. PICK m : m = Minus(Plus(isn, 1), a)
    OBVIOUS
  <2>2. m \in 0 .. SeqSpace - 1
    <3>1. 1 \in 0 .. SeqSpace
      BY <1>1
    <3>2. Plus(isn, 1) \in 0 .. SeqSpace - 1
      BY <3>1, PlusIs
    <3>3. QED
      BY <2>1, <3>2, MinusIs
  <2>3. m + out < SeqSpace
    BY <1>1, <1>4, <2>1, <2>2
  <2>4. Minus(Plus(isn, out + 1), a) = m + out
    BY <1>2, <2>1, <2>3, InFlightFrom
  <2>5. m + out < window
    BY <2>4
  <2>6. /\ out + k <= acked + offered + Mss - 1
        /\ m + (out + k) <= offered + Mss - 1
    BY <1>1, <1>4, <2>2, <2>5
  <2>7. QED
    BY <1>4, <2>1, <2>6
<1>5. QED
  BY <1>3, <1>4

\* What the rounds of the loop keep, which begins with c.
RoundOK(c, a) ==
  /\ a.c.sent + a.left <= MaxOut /\ SameQueue(c, a.c)
  /\ a.c.state = c.state /\ a.c.heard = c.heard /\ a.c.conn = c.conn /\ a.c.recv_seq = c.recv_seq
  /\ Sending(c) => Sending(a.c)

\* A segment of k bytes leads from x to y.
AfterSegment(x, y, k) ==
  /\ SameQueue(x, y) /\ y.sent = x.sent + k
  /\ y.state = x.state /\ y.heard = x.heard /\ y.conn = x.conn /\ y.recv_seq = x.recv_seq
  /\ Sending(x) => Sending(y)

LEMMA SegmentSent ==
  ASSUME NEW x \in TcpRec, x.state = "ESTABLISHED", ~ WindowFull(x),
         NEW k \in Nat, k <= Mss, x.sent + k <= MaxOut, NEW ok, NEW y,
         y = [tcp_enqueue_segment(x, x.send_seq, k, ok) EXCEPT
                !.send_seq = Plus(@, k), !.sent = @ + k]
  PROVE  y \in TcpRec /\ AfterSegment(x, y, k)
<1> DEFINE e == tcp_enqueue_segment(x, x.send_seq, k, ok)
<1>1. /\ SeqSpace \in Nat \ {0} /\ Mss \in Nat \ {0} /\ MaxOut \in Nat /\ MaxOut < SeqSpace
      /\ Mss <= SeqSpace
  BY SizesOfTcp
<1>2. PICK q, isn \in 0 .. SeqSpace - 1, out \in Nat, acked \in Nat, offered \in Nat,
           window \in Nat, a \in 0 .. SeqSpace - 1 :
        /\ q = x.send_seq /\ isn = x.isn /\ out = x.sent /\ acked = x.acked
        /\ offered = x.offered /\ window = x.window /\ a = x.send_ack
  BY DEF TcpRec
<1>3. q \in 0 .. SeqSpace - 1 /\ q \in Nat
  BY <1>1, <1>2 DEF TcpRec
<1>4. e \in TcpRec /\ SameQueue(x, e) /\ SameTalk(x, e) /\ Recorded(x, e, q, k)
  <2>1. e = tcp_enqueue_segment(x, q, k, ok)
    BY <1>2
  <2> HIDE DEF e
  <2>2. QED
    BY <1>3, <2>1, EnqueuedFields
<1>5. y = [e EXCEPT !.send_seq = Plus(@, k), !.sent = @ + k]
  OBVIOUS
<1> HIDE DEF e
<1>6. e.send_seq = q /\ e.sent = out
  BY <1>2, <1>4 DEF SameTalk
<1>7. PICK p \in 0 .. SeqSpace - 1, m \in Nat : p = Plus(q, k) /\ m = out + k
  <2>1. k \in 0 .. SeqSpace
    BY <1>1
  <2>2. QED
    BY <1>3, <2>1, PlusIs
<1>8. y = [e EXCEPT !.send_seq = p, !.sent = m]
  BY <1>5, <1>6, <1>7
<1>9. /\ y \in TcpRec /\ SameQueue(e, y) /\ y.send_seq = p /\ y.sent = m /\ y.state = e.state
      /\ y.heard = e.heard /\ y.conn = e.conn /\ y.recv_seq = e.recv_seq
      /\ y.isn = e.isn /\ y.acked = e.acked /\ y.offered = e.offered /\ y.window = e.window
      /\ y.send_ack = e.send_ack /\ y.whole = e.whole /\ y.outstanding = e.outstanding
  BY <1>4, <1>8, ZenonT(40) DEF TcpRec, SameQueue
<1>10. /\ SameQueue(x, y) /\ y.state = x.state /\ y.heard = x.heard /\ y.conn = x.conn
       /\ y.recv_seq = x.recv_seq
       /\ y.isn = isn /\ y.acked = acked /\ y.offered = offered /\ y.window = window /\ y.send_ack = a
       /\ Recorded(x, y, q, k)
  BY <1>2, <1>4, <1>9 DEF SameQueue, SameTalk, Recorded
<1>11. ASSUME Sending(x) PROVE Sending(y)
  <2>1. /\ offered + Mss <= SeqSpace /\ acked <= out /\ out <= MaxOut
        /\ q = Plus(isn, out + 1) /\ window <= offered
    BY <1>2, <1>11 DEF Sending
  <2>2. Kept(x) /\ AckKnown(x)
    BY <1>11 DEF Sending
  <2>3. Minus(q, a) < window
    <3>1. Minus(q, a) \in 0 .. SeqSpace - 1 /\ ~ (Minus(q, a) >= window)
      BY <1>2, <1>3, MinusIs DEF WindowFull
    <3>2. QED
      BY <1>1, <3>1
  <2>4. /\ out + k <= acked + offered + Mss - 1
        /\ \/ \E j \in 0 .. acked : j <= out + k /\ a = Plus(isn, j + 1)
           \/ acked = 0 /\ Minus(Plus(isn, 1), a) + (out + k) <= offered + Mss - 1
    <3>1. \/ \E j \in 0 .. acked : j <= out /\ a = Plus(isn, j + 1)
          \/ /\ acked = 0
             /\ out = 0 \/ Minus(Plus(isn, 1), a) + out <= offered + Mss - 1
      BY <1>2, <2>2 DEF AckKnown
    <3>2. Minus(Plus(isn, out + 1), a) < window /\ out + k <= MaxOut
      BY <1>2, <2>1, <2>3
    <3>3. QED
      BY <2>1, <3>1, <3>2, RoundNumbers
  <2>5. AckKnown(y)
    BY <1>7, <1>9, <1>10, <2>4 DEF AckKnown
  <2>6. p = Plus(isn, m + 1)
    <3>1. out + 1 \in Nat /\ (out + 1) + k <= SeqSpace /\ (out + 1) + k = m + 1
      BY <1>1, <1>2, <1>7
    <3>2. Plus(Plus(isn, out + 1), k) = Plus(isn, (out + 1) + k)
      BY <3>1, PlusPlus
    <3>3. QED
      BY <1>7, <2>1, <3>1, <3>2
  <2>7. Kept(y)
    <3>1. SUFFICES ASSUME y.whole, isn + 1 + m < SeqSpace, NEW i \in acked + 1 .. m
                   PROVE  \E seg \in y.outstanding :
                            /\ isn + i \in seg.seq .. seg.seq + seg.len - 1
                            /\ seg.seq + seg.len <= isn + 1 + m
      BY <1>9, <1>10 DEF Kept
    <3>2. x.whole /\ y.outstanding = x.outstanding \cup {[seq |-> q, len |-> k]}
      BY <1>10, <3>1 DEF Recorded
    <3>3. isn + 1 + out < SeqSpace /\ m = out + k
      BY <1>1, <1>7, <3>1
    <3>4. CASE i <= out
      <4>1. i \in acked + 1 .. out
        BY <3>4
      <4>2. PICK seg \in x.outstanding : /\ isn + i \in seg.seq .. seg.seq + seg.len - 1
                                         /\ seg.seq + seg.len <= isn + 1 + out
        BY <1>2, <2>2, <3>2, <3>3, <4>1 DEF Kept
      <4>3. seg.seq \in Nat /\ seg.len \in Nat
        BY DEF TcpRec
      <4>4. seg \in y.outstanding /\ seg.seq + seg.len <= isn + 1 + m
        BY <3>2, <3>3, <4>2, <4>3
      <4>5. QED
        BY <4>2, <4>4
    <3>5. CASE i > out
      <4>1. PICK seg : seg = [seq |-> q, len |-> k]
        OBVIOUS
      <4>2. seg \in y.outstanding /\ seg.seq = q /\ seg.len = k
        BY <3>2, <4>1
      <4>3. q = isn + (out + 1)
        <5>1. out + 1 \in 0 .. SeqSpace /\ isn + (out + 1) < SeqSpace
          BY <1>1, <3>3
        <5>2. QED
          BY <2>1, <5>1, PlusIs
      <4>4. isn + i \in q .. q + k - 1 /\ q + k <= isn + 1 + m
        BY <3>3, <3>5, <4>3
      <4>5. QED
        BY <4>2, <4>4
    <3>6. QED
      BY <3>4, <3>5
  <2>8. m <= MaxOut /\ acked <= m /\ m <= acked + offered + Mss - 1
    BY <1>1, <1>2, <1>7, <2>1, <2>4
  <2>9. y.state = "ESTABLISHED"
    BY <1>10
  <2>10. QED
    BY <1>9, <1>10, <2>1, <2>5, <2>6, <2>7, <2>8, <2>9 DEF Sending
<1>12. QED
  BY <1>2, <1>7, <1>9, <1>10, <1>11 DEF AfterSegment

LEMMA RoundStep ==
  ASSUME NEW c \in TcpRec, c.state = "ESTABLISHED",
         NEW a \in [c : TcpRec, left : Nat], RoundOK(c, a), NEW ok, NEW r, r = SendRound(a, ok)
  PROVE  r \in [c : TcpRec, left : Nat] /\ RoundOK(c, r)
<1> DEFINE k == IF a.left < Mss THEN a.left ELSE Mss
           x == a.c
           y == [tcp_enqueue_segment(x, x.send_seq, k, ok) EXCEPT
                   !.send_seq = Plus(@, k), !.sent = @ + k]
<1>1. CASE a.left = 0 \/ WindowFull(a.c)
  <2>1. r = a
    BY <1>1 DEF SendRound
  <2>2. QED
    BY <2>1
<1>2. CASE ~ (a.left = 0 \/ WindowFull(a.c))
  <2>1. r = [c |-> y, left |-> a.left - k]
    BY <1>2 DEF SendRound
  <2>2. a.left \in Nat /\ x \in TcpRec /\ Mss \in Nat \ {0}
    BY SizesOfTcp
  <2>3. /\ x.sent + a.left <= MaxOut /\ SameQueue(c, x) /\ x.state = c.state
        /\ x.heard = c.heard /\ x.conn = c.conn /\ x.recv_seq = c.recv_seq
        /\ (Sending(c) => Sending(x))
    BY DEF RoundOK
  <2>4. k \in Nat /\ k <= Mss /\ k <= a.left /\ a.left - k \in Nat
    BY <2>2
  <2>5. x.sent \in Nat /\ MaxOut \in Nat
    BY <2>2, SizesOfTcp DEF TcpRec
  <2>6. x.sent + k <= MaxOut /\ x.state = "ESTABLISHED" /\ ~ WindowFull(x)
    BY <1>2, <2>2, <2>3, <2>4, <2>5
  <2> HIDE DEF x, k
  <2>7. PICK z : z = y
    OBVIOUS
  <2>8. /\ z \in TcpRec /\ SameQueue(x, z) /\ z.sent = x.sent + k
        /\ z.state = x.state /\ z.heard = x.heard /\ z.conn = x.conn /\ z.recv_seq = x.recv_seq
        /\ Sending(x) => Sending(z)
    <3>1. z \in TcpRec /\ AfterSegment(x, z, k)
      BY <2>2, <2>4, <2>6, <2>7, SegmentSent
    <3>2. QED
      BY <3>1 DEF AfterSegment
  <2>9. r.c = z /\ r.left = a.left - k /\ r \in [c : TcpRec, left : Nat]
    BY <2>1, <2>4, <2>7, <2>8
  <2>10. z.sent + (a.left - k) <= MaxOut
    BY <2>2, <2>3, <2>4, <2>5, <2>8
  <2>11. SameQueue(c, z)
    BY <2>3, <2>8 DEF SameQueue
  <2>12. QED
    BY <2>3, <2>8, <2>9, <2>10, <2>11 DEF RoundOK
<1>3. QED
  BY <1>1, <1>2

LoopKeeps(c, d) ==
  /\ SameQueue(c, d)
  /\ d.state = c.state /\ d.heard = c.heard /\ d.conn = c.conn /\ d.recv_seq = c.recv_seq
  /\ Sending(c) => Sending(d)

LEMMA LoopSends ==
  ASSUME NEW c \in TcpRec, c.state = "ESTABLISHED", NEW len \in Nat, c.sent + len <= MaxOut,
         NEW n \in Nat, NEW ok, NEW d, d = SendLoop(c, len, n, ok)
  PROVE  d \in TcpRec /\ LoopKeeps(c, d)
<1> DEFINE T == [c : TcpRec, left : Nat]
           S == {a \in T : RoundOK(c, a)}
           s0 == [c |-> c, left |-> len]
           G == [a \in S |-> SendRound(a, ok)]
           F == [i \in 1 .. n |-> G]
           P(f) == f = [i \in 0 .. n |-> IF i = 0 THEN s0 ELSE SendRound(f[i - 1], ok)]
           rounds == CHOOSE f : P(f)
<1>1. s0 \in S
  <2>1. s0 \in T /\ s0.c = c /\ s0.left = len
    OBVIOUS
  <2> HIDE DEF s0
  <2>2. RoundOK(c, s0)
    BY <2>1 DEF RoundOK, SameQueue
  <2>3. QED
    BY <2>1, <2>2
<1> HIDE DEF s0
<1>2. \A a \in S : SendRound(a, ok) \in S
  <2>1. TAKE a \in S
  <2>2. a \in T /\ RoundOK(c, a)
    OBVIOUS
  <2>3. PICK r : r = SendRound(a, ok)
    OBVIOUS
  <2>4. r \in T /\ RoundOK(c, r)
    BY <2>2, <2>3, RoundStep
  <2>5. QED
    BY <2>3, <2>4
<1> HIDE DEF S
<1>3. G \in [S -> S] /\ \A a \in S : G[a] = SendRound(a, ok)
  BY <1>2
<1> HIDE DEF G
<1>4. F \in [1 .. n -> [S -> S]] /\ \A i \in 1 .. n : F[i] = G
  BY <1>3
<1> HIDE DEF F
<1>5. PICK g \in [0 .. n -> S] : Rounds(g, s0, F, n)
  BY <1>1, <1>4, LoopExists
<1>6. \A i \in 0 .. n : g[i] = IF i = 0 THEN s0 ELSE SendRound(g[i - 1], ok)
  <2>1. TAKE i \in 0 .. n
  <2>2. CASE i = 0
    BY <1>5, <2>2 DEF Rounds
  <2>3. CASE i # 0
    <3>1. i \in 1 .. n /\ i - 1 \in 0 .. n
      BY <2>3
    <3>2. g[i - 1] \in S /\ g[i] = F[i][g[i - 1]]
      BY <1>5, <3>1 DEF Rounds
    <3>3. QED
      BY <1>3, <1>4, <2>3, <3>1, <3>2
  <2>4. QED
    BY <2>2, <2>3
<1>7. P(g)
  BY <1>6
<1>8. P(rounds)
  BY <1>7
<1>9. d = rounds[n].c
  BY DEF SendLoop, s0
<1> HIDE DEF rounds
<1>10. \A i \in 0 .. n : rounds[i] = IF i = 0 THEN s0 ELSE SendRound(rounds[i - 1], ok)
  BY <1>8
<1> DEFINE Q == {i \in 0 .. n : rounds[i] = g[i]}
<1>11. 0 \in Q /\ \A i \in 1 .. n : i - 1 \in Q => i \in Q
  BY <1>6, <1>10
<1>12. n \in Q
  <2> HIDE DEF Q
  <2>1. QED
    BY <1>11, RoundInduction
<1>13. rounds[n] = g[n] /\ g[n] \in S
  BY <1>5, <1>12
<1>14. g[n] \in T /\ RoundOK(c, g[n]) /\ d = g[n].c
  BY <1>9, <1>13 DEF S
<1>15. QED
  BY <1>14 DEF RoundOK, LoopKeeps

-----------------------------------------------------------------------------
(***************************************************************************)
(* The ring buffers                                                        *)
(***************************************************************************)
\* The place of byte j of the ring that begins at h.
LEMMA Wrapped ==
  ASSUME NEW n \in Nat \ {0}, NEW h \in 0 .. n - 1, NEW j \in 0 .. n
  PROVE  /\ (h + j) % n = IF h + j < n THEN h + j ELSE h + j - n
         /\ (h + j) % n \in 0 .. n - 1
OBVIOUS

LEMMA BufFields ==
  ASSUME NEW b \in TcpBuf
  PROVE  /\ b.head \in 0 .. BufSize - 1 /\ b.tail \in 0 .. BufSize - 1
         /\ b.used \in 0 .. BufSize /\ b.last \in Byte /\ b.data \in [0 .. BufSize - 1 -> Byte]
BY DEF TcpBuf

\* The buffer b with len bytes more is d.
Enqueued(b, bytes, len, d) ==
  /\ d.head = b.head /\ d.last = b.last /\ d.used = b.used + len
  /\ d.tail = (b.tail + len) % BufSize
  /\ \A j \in 1 .. len : d.data[Place(b, j)] = bytes[j]
  /\ \A i \in 0 .. BufSize - 1 : (\A j \in 1 .. len : Place(b, j) # i) => d.data[i] = b.data[i]

LEMMA EnqueueResult ==
  ASSUME NEW b \in TcpBuf, NEW len \in Nat, NEW bytes \in [1 .. len -> Byte], HasRoom(b, len),
         NEW d, d = tcp_buffer_enqueue(b, bytes)
  PROVE  d \in TcpBuf /\ Enqueued(b, bytes, len, d)
<1> DEFINE js(i) == {j \in DOMAIN bytes : Place(b, j) = i}
           data == [i \in 0 .. BufSize - 1 |->
                      IF js(i) = {} THEN b.data[i] ELSE bytes[CHOOSE j \in js(i) : TRUE]]
<1>1. Len(bytes) = len /\ DOMAIN bytes = 1 .. len
  <2>1. bytes \in Seq(Byte)
    OBVIOUS
  <2>2. QED
    BY <2>1, LenProperties
<1>2a. PICK n \in Nat \ {0} : n = BufSize
  BY SizesOfTcp
<1>2. PICK h \in 0 .. n - 1, t \in 0 .. n - 1, u \in 0 .. n :
        n = BufSize /\ h = b.head /\ t = b.tail /\ u = b.used
  BY <1>2a, BufFields
<1>3. u + len \in 0 .. n /\ len \in 0 .. n
  BY <1>2 DEF HasRoom
<1>4. PICK w \in 0 .. n - 1 : w = (t + len) % n
  BY <1>3, Wrapped
<1>5. \A j \in 1 .. len : Place(b, j) = IF t + j <= n THEN t + j - 1 ELSE t + j - 1 - n
  BY <1>2 DEF Place
<1>6. \A j \in 1 .. len : Place(b, j) \in 0 .. n - 1
  BY <1>3, <1>5
<1>7. \A j, k \in 1 .. len : Place(b, j) = Place(b, k) => j = k
  <2>1. TAKE j, k \in 1 .. len
  <2>2. PICK x, y : x = Place(b, j) /\ y = Place(b, k)
    OBVIOUS
  <2>3. /\ x = IF t + j <= n THEN t + j - 1 ELSE t + j - 1 - n
        /\ y = IF t + k <= n THEN t + k - 1 ELSE t + k - 1 - n
    BY <1>5, <2>2
  <2>4. x = y => j = k
    BY <1>3, <2>3
  <2>5. QED
    BY <2>2, <2>4
<1>8. b.data \in [0 .. n - 1 -> Byte]
  BY <1>2, BufFields
<1>9. /\ data \in [0 .. n - 1 -> Byte]
      /\ \A j \in 1 .. len : data[Place(b, j)] = bytes[j]
      /\ \A i \in 0 .. n - 1 : (\A j \in 1 .. len : Place(b, j) # i) => data[i] = b.data[i]
  <2>1. \A i \in 0 .. n - 1 : data[i] = IF js(i) = {} THEN b.data[i]
                                        ELSE bytes[CHOOSE j \in js(i) : TRUE]
    BY <1>2
  <2>2. \A i : js(i) # {} => (CHOOSE j \in js(i) : TRUE) \in js(i)
    OBVIOUS
  <2>3. \A i : js(i) \subseteq 1 .. len
    BY <1>1
  <2>4. DOMAIN data = 0 .. n - 1
    BY <1>2
  <2>5. \A i \in 0 .. n - 1 : data[i] \in Byte
    <3>1. TAKE i \in 0 .. n - 1
    <3>2. PICK J, k : J = js(i) /\ k = CHOOSE j \in js(i) : TRUE
      OBVIOUS
    <3>3. J # {} => k \in 1 .. len
      BY <2>2, <2>3, <3>2
    <3> HIDE DEF data
    <3>4. data[i] = IF J = {} THEN b.data[i] ELSE bytes[k]
      BY <2>1, <3>2, Zenon
    <3>5. QED
      BY <1>8, <3>3, <3>4
  <2>6. ASSUME NEW j \in 1 .. len PROVE data[Place(b, j)] = bytes[j]
    <3>1. PICK i \in 0 .. n - 1 : i = Place(b, j)
      BY <1>6
    <3>2. j \in js(i)
      BY <1>1, <3>1
    <3>3. PICK k : k = CHOOSE x \in js(i) : TRUE
      OBVIOUS
    <3>4. k \in js(i)
      BY <2>2, <3>2, <3>3
    <3>5. k \in 1 .. len /\ Place(b, k) = Place(b, j)
      BY <2>3, <3>1, <3>4
    <3>6. k = j
      BY <1>7, <3>5
    <3>7. data[i] = bytes[k]
      BY <2>1, <3>2, <3>3
    <3>8. QED
      BY <3>1, <3>6, <3>7
  <2>7. ASSUME NEW i \in 0 .. n - 1, \A j \in 1 .. len : Place(b, j) # i PROVE data[i] = b.data[i]
    <3>1. js(i) = {}
      BY <1>1, <2>7
    <3>2. data[i] = IF js(i) = {} THEN b.data[i] ELSE bytes[CHOOSE j \in js(i) : TRUE]
      BY <2>1
    <3> HIDE DEF data
    <3>3. QED
      BY <3>1, <3>2, Zenon
  <2>8. data \in [0 .. n - 1 -> Byte]
    BY <1>2, <2>5
  <2>9. QED
    BY <2>6, <2>7, <2>8
<1>10. d = [b EXCEPT !.data = data, !.tail = w, !.used = u + len]
  <2>1. DOMAIN b.data = 0 .. BufSize - 1
    BY BufFields
  <2>2. QED
    BY <1>1, <1>2, <1>4, <2>1 DEF tcp_buffer_enqueue
<1> HIDE DEF data
<1>11. /\ d \in TcpBuf /\ d.head = b.head /\ d.last = b.last /\ d.used = u + len /\ d.tail = w
       /\ d.data = data
  BY <1>2, <1>3, <1>9, <1>10 DEF TcpBuf
<1>12. QED
  BY <1>2, <1>4, <1>9, <1>11 DEF Enqueued

LEMMA RingGrown ==
  ASSUME NEW b \in TcpBuf, Ring(b), NEW len \in Nat \ {0}, NEW bytes, HasRoom(b, len),
         NEW d \in TcpBuf, Enqueued(b, bytes, len, d), Follows(Newest(b), bytes[1]),
         \A j \in 2 .. len : Follows(bytes[j - 1], bytes[j])
  PROVE  Ring(d) /\ Newest(d) = bytes[len]
<1>1. PICK n \in Nat \ {0} : n = BufSize
  BY SizesOfTcp
<1>2. PICK h \in 0 .. n - 1, t \in 0 .. n - 1, u \in 0 .. n :
        h = b.head /\ t = b.tail /\ u = b.used
  BY <1>1, BufFields
<1>3. u + len \in 0 .. n /\ len \in 0 .. n
  BY <1>1, <1>2 DEF HasRoom
<1>4. d.head = h /\ d.used = u + len /\ d.tail = (t + len) % n /\ d.last = b.last
  BY <1>1, <1>2 DEF Enqueued
<1>5. t = (h + u) % n
  BY <1>1, <1>2 DEF Ring
<1>6. t = IF h + u < n THEN h + u ELSE h + u - n
  BY <1>2, <1>5, Wrapped
<1>7. \A j \in 0 .. n : (h + j) % n = (IF h + j < n THEN h + j ELSE h + j - n) /\ (h + j) % n \in 0 .. n - 1
  BY <1>2, Wrapped
<1>8. \A j \in 1 .. len : Place(b, j) = IF t + j <= n THEN t + j - 1 ELSE t + j - 1 - n
  BY <1>1, <1>2 DEF Place
<1>9. \A j \in 1 .. len : Place(b, j) = (h + (u + j - 1)) % n
  <2>1. TAKE j \in 1 .. len
  <2>2. u + j - 1 \in 0 .. n
    BY <1>3
  <2>3. /\ (h + (u + j - 1)) % n =
             (IF h + (u + j - 1) < n THEN h + (u + j - 1) ELSE h + (u + j - 1) - n)
        /\ Place(b, j) = IF t + j <= n THEN t + j - 1 ELSE t + j - 1 - n
    BY <1>7, <1>8, <2>2
  <2>4. QED
    BY <1>2, <1>3, <1>6, <2>3
<1>10. ASSUME NEW i \in 0 .. u - 1 PROVE ByteAt(d, i) = ByteAt(b, i)
  <2>1. PICK x : x = (h + i) % n
    OBVIOUS
  <2>2. i \in 0 .. n
    BY <1>2
  <2>3. x = (IF h + i < n THEN h + i ELSE h + i - n) /\ x \in 0 .. n - 1
    BY <1>7, <2>1, <2>2
  <2>4. \A j \in 1 .. len : Place(b, j) # x
    BY <1>2, <1>3, <1>6, <1>8, <2>3
  <2>5. d.data[x] = b.data[x]
    BY <1>1, <2>3, <2>4 DEF Enqueued
  <2>6. QED
    BY <1>1, <1>2, <1>4, <2>1, <2>5 DEF ByteAt
<1>11. ASSUME NEW j \in 1 .. len PROVE ByteAt(d, u + j - 1) = bytes[j]
  BY <1>1, <1>4, <1>9 DEF ByteAt, Enqueued
<1>12. Newest(d) = bytes[len]
  <2>1. len \in 1 .. len /\ d.used # 0 /\ d.used - 1 = u + len - 1
    BY <1>2, <1>4
  <2>2. QED
    BY <1>11, <2>1 DEF Newest
<1>13. Follows(d.last, ByteAt(d, 0))
  <2>1. CASE u = 0
    <3>1. Newest(b) = d.last
      BY <1>2, <1>4, <2>1 DEF Newest
    <3>2. 1 \in 1 .. len /\ u + 1 - 1 = 0
      BY <2>1
    <3>3. ByteAt(d, 0) = bytes[1]
      BY <1>11, <3>2
    <3>4. QED
      BY <3>1, <3>3
  <2>2. CASE u # 0
    <3>1. 0 \in 0 .. u - 1 /\ b.used > 0
      BY <1>2, <2>2
    <3>2. Follows(b.last, ByteAt(b, 0))
      BY <3>1 DEF Ring
    <3>3. QED
      BY <1>4, <1>10, <3>1, <3>2
  <2>3. QED
    BY <2>1, <2>2
<1>14. ASSUME NEW j \in 1 .. d.used - 1 PROVE Follows(ByteAt(d, j - 1), ByteAt(d, j))
  <2>1. j \in 1 .. u + len - 1
    BY <1>4
  <2>2. CASE j < u
    <3>1. j \in 1 .. b.used - 1 /\ j \in 0 .. u - 1 /\ j - 1 \in 0 .. u - 1
      BY <1>2, <2>1, <2>2
    <3>2. Follows(ByteAt(b, j - 1), ByteAt(b, j))
      BY <3>1 DEF Ring
    <3>3. ByteAt(d, j - 1) = ByteAt(b, j - 1) /\ ByteAt(d, j) = ByteAt(b, j)
      BY <1>10, <3>1
    <3>4. QED
      BY <3>2, <3>3
  <2>3. CASE j = u
    <3>1. j - 1 \in 0 .. u - 1 /\ 1 \in 1 .. len /\ u + 1 - 1 = j /\ b.used # 0 /\ b.used - 1 = j - 1
      BY <1>2, <2>1, <2>3
    <3>2. Newest(b) = ByteAt(d, j - 1)
      BY <1>10, <3>1 DEF Newest
    <3>3. ByteAt(d, j) = bytes[1]
      BY <1>11, <3>1
    <3>4. QED
      BY <3>2, <3>3
  <2>4. CASE j > u
    <3>1. PICK k \in 2 .. len : k = j - u + 1
      BY <1>2, <2>1, <2>4
    <3>2. k \in 1 .. len /\ k - 1 \in 1 .. len /\ u + k - 1 = j /\ u + (k - 1) - 1 = j - 1
      BY <1>2, <2>1, <2>4, <3>1
    <3>3. ByteAt(d, j) = bytes[k] /\ ByteAt(d, j - 1) = bytes[k - 1]
      BY <1>11, <3>2
    <3>4. QED
      BY <3>1, <3>3
  <2>5. QED
    BY <1>2, <2>1, <2>2, <2>3, <2>4
<1>15. d.tail = (d.head + d.used) % BufSize
  <2>1. (t + len) % n = IF t + len < n THEN t + len ELSE t + len - n
    BY <1>2, <1>3, Wrapped
  <2>2. (h + (u + len)) % n = IF h + (u + len) < n THEN h + (u + len) ELSE h + (u + len) - n
    BY <1>3, <1>7
  <2>3. (t + len) % n = (h + (u + len)) % n
    BY <1>2, <1>3, <1>6, <2>1, <2>2
  <2>4. QED
    BY <1>1, <1>4, <2>3
<1>16. QED
  BY <1>12, <1>13, <1>14, <1>15 DEF Ring

LEMMA RingDrained ==
  ASSUME NEW b \in TcpBuf, Ring(b), NEW len \in Nat \ {0}, b.used > 0, NEW r,
         r = tcp_buffer_dequeue(b, len), NEW n \in Nat, n = Taken(b, len), NEW d,
         d = [r.rest EXCEPT !.last = ByteAt(b, n - 1)]
  PROVE  /\ n \in 1 .. b.used /\ DOMAIN r.bytes = 1 .. n
         /\ \A j \in 1 .. n : r.bytes[j] = ByteAt(b, j - 1)
         /\ d \in TcpBuf /\ Ring(d) /\ Newest(d) = Newest(b)
<1>1. PICK m \in Nat \ {0} : m = BufSize
  BY SizesOfTcp
<1>2. PICK h \in 0 .. m - 1, t \in 0 .. m - 1, u \in 0 .. m :
        h = b.head /\ t = b.tail /\ u = b.used
  BY <1>1, BufFields
<1>3. n \in 1 .. u /\ n \in 0 .. m
  BY <1>2 DEF Taken
<1>4. \A j \in 0 .. m : (h + j) % m = (IF h + j < m THEN h + j ELSE h + j - m) /\ (h + j) % m \in 0 .. m - 1
  BY <1>2, Wrapped
<1>5. /\ DOMAIN r.bytes = 1 .. n
      /\ \A j \in 1 .. n : r.bytes[j] = b.data[IF h + j <= m THEN h + j - 1 ELSE h + j - 1 - m]
  BY <1>1, <1>2 DEF tcp_buffer_dequeue
<1>6. \A j \in 1 .. n : r.bytes[j] = ByteAt(b, j - 1)
  <2>1. TAKE j \in 1 .. n
  <2>2. j - 1 \in 0 .. m
    BY <1>3
  <2>3. (h + (j - 1)) % m = IF h + j <= m THEN h + j - 1 ELSE h + j - 1 - m
    BY <1>2, <1>3, <1>4, <2>2
  <2>4. QED
    BY <1>1, <1>2, <1>5, <2>3 DEF ByteAt
<1>0. PICK w \in 0 .. m - 1 : w = (h + n) % m
  BY <1>3, <1>4
<1>7. PICK e : w = (h + n) % m /\ e = ByteAt(b, n - 1)
  BY <1>0
<1>8. e \in Byte
  <2>1. n - 1 \in 0 .. m
    BY <1>3
  <2>2. b.data \in [0 .. m - 1 -> Byte] /\ e = b.data[(h + (n - 1)) % m]
    BY <1>1, <1>2, <1>7, BufFields DEF ByteAt
  <2>3. QED
    BY <1>4, <2>1, <2>2
<1>9. d = [b EXCEPT !.head = w, !.used = u - n, !.last = e]
  <2>1. r.rest = [b EXCEPT !.head = w, !.used = u - n]
    BY <1>1, <1>2, <1>7 DEF tcp_buffer_dequeue
  <2>2. QED
    BY <1>7, <2>1 DEF TcpBuf
<1>10. /\ d \in TcpBuf /\ d.head = w /\ d.used = u - n /\ d.last = e /\ d.tail = t /\ d.data = b.data
  <2>1. u - n \in 0 .. m
    BY <1>2, <1>3
  <2>2. QED
    BY <1>1, <1>2, <1>8, <1>9, <2>1 DEF TcpBuf
<1>11. w = IF h + n < m THEN h + n ELSE h + n - m
  BY <1>3, <1>4, <1>7
<1>12. ASSUME NEW j \in 0 .. u - n PROVE (w + j) % m = (h + (n + j)) % m
  <2>1. n + j \in 0 .. m /\ j \in 0 .. m
    BY <1>2, <1>3
  <2>2. (w + j) % m = IF w + j < m THEN w + j ELSE w + j - m
    BY <1>7, <2>1, Wrapped
  <2>3. (h + (n + j)) % m = IF h + (n + j) < m THEN h + (n + j) ELSE h + (n + j) - m
    BY <1>4, <2>1
  <2>4. QED
    BY <1>2, <1>3, <1>11, <2>1, <2>2, <2>3
<1>13. ASSUME NEW j \in 0 .. u - n PROVE ByteAt(d, j) = ByteAt(b, n + j)
  BY <1>1, <1>2, <1>10, <1>12 DEF ByteAt
<1>14. d.tail = (d.head + d.used) % BufSize
  <2>1. u - n \in 0 .. u - n /\ n + (u - n) = u
    BY <1>2, <1>3
  <2>2. (w + (u - n)) % m = (h + u) % m
    BY <1>12, <2>1
  <2>3. t = (h + u) % m
    BY <1>1, <1>2 DEF Ring
  <2>4. QED
    BY <1>1, <1>10, <2>2, <2>3
<1>15. \A j \in 1 .. u - 1 : Follows(ByteAt(b, j - 1), ByteAt(b, j))
  BY <1>2 DEF Ring
<1>16. d.used > 0 => Follows(d.last, ByteAt(d, 0))
  <2>1. SUFFICES ASSUME u - n > 0 PROVE Follows(e, ByteAt(d, 0))
    BY <1>10
  <2>2. 0 \in 0 .. u - n /\ n + 0 = n /\ n \in 1 .. u - 1
    BY <1>2, <1>3, <2>1
  <2>3. QED
    BY <1>7, <1>13, <1>15, <2>2
<1>17. ASSUME NEW j \in 1 .. d.used - 1 PROVE Follows(ByteAt(d, j - 1), ByteAt(d, j))
  <2>1. j \in 0 .. u - n /\ j - 1 \in 0 .. u - n /\ n + j \in 1 .. u - 1 /\ n + (j - 1) = n + j - 1
    BY <1>2, <1>3, <1>10
  <2>2. ByteAt(d, j) = ByteAt(b, n + j) /\ ByteAt(d, j - 1) = ByteAt(b, n + j - 1)
    BY <1>13, <2>1
  <2>3. QED
    BY <1>15, <2>1, <2>2
<1>18. Newest(d) = Newest(b)
  <2>1. Newest(b) = ByteAt(b, u - 1)
    BY <1>2, <1>3 DEF Newest
  <2>2. CASE n = u
    BY <1>7, <1>10, <2>1, <2>2 DEF Newest
  <2>3. CASE n # u
    <3>1. u - n # 0 /\ u - n - 1 \in 0 .. u - n /\ n + (u - n - 1) = u - 1
      BY <1>2, <1>3, <2>3
    <3>2. Newest(d) = ByteAt(d, u - n - 1)
      BY <1>10, <3>1 DEF Newest
    <3>3. QED
      BY <1>13, <2>1, <3>1, <3>2
  <2>4. QED
    BY <2>2, <2>3
<1>19. QED
  BY <1>2, <1>3, <1>5, <1>6, <1>10, <1>14, <1>16, <1>17, <1>18 DEF Ring

LEMMA TcpSendStep ==
  ASSUME TcpInv, ~ broken, NEW s \in held, NEW len \in SendLens, NEW n \in 0 .. MaxOut,
         NEW ok \in BOOLEAN, tcp_send(s, len, n, ok)
  PROVE  TcpInv'
<1> DEFINE c == sock[s]
           o == c.owner
           bytes == [j \in 1 .. len |-> <<0, 0>>]
<1>1. TcpType /\ GroupInv /\ TcpRecvInv
  BY DEF TcpInv
<1>2. s \in Socks /\ s \in 1 .. made /\ c \in TcpRec
  BY HeldInv
<1>3. o \in Socks
  BY <1>1, <1>2, ListedAreSocks DEF GroupInv
<1>4. len \in Nat /\ n \in Nat
  BY SizesOfTcp, TcpAssumption
<1>5. buf[o] \in [send : TcpBuf, recv : TcpBuf] /\ buf[o].send \in TcpBuf
  BY <1>1, <1>3 DEF TcpType
<1>6. PICK e : e = tcp_buffer_enqueue(buf[o].send, bytes)
  OBVIOUS
<1>7. e \in TcpBuf
  <2>1. HasRoom(buf[o].send, len)
    BY DEF tcp_send
  <2>2. bytes \in [1 .. len -> Byte]
    BY DEF Byte
  <2> HIDE DEF bytes
  <2>3. QED
    BY <1>4, <1>5, <1>6, <2>1, <2>2, EnqueueResult
<1>8. buf' = [buf EXCEPT ![o].send = e]
  BY <1>6 DEF tcp_send
<1> HIDE DEF o
<1>9. /\ buf' \in [Socks -> [send : TcpBuf, recv : TcpBuf]]
      /\ \A t \in Socks : buf'[t].recv = buf[t].recv
  <2>1. buf \in [Socks -> [send : TcpBuf, recv : TcpBuf]]
    BY <1>1 DEF TcpType
  <2> HIDE DEF TcpBuf
  <2>2. QED
    BY <1>3, <1>7, <1>8, <2>1
<1>10. PICK d : d = SendLoop(c, len, n, ok)
  OBVIOUS
<1>11. sock' = [sock EXCEPT ![s] = d]
  BY <1>10 DEF tcp_send
<1>12. c.state = "ESTABLISHED" /\ c.sent + len <= MaxOut
  BY DEF tcp_send
<1> HIDE DEF c
<1>13. /\ d \in TcpRec /\ SameQueue(c, d)
       /\ d.state = c.state /\ d.heard = c.heard /\ d.conn = c.conn /\ d.recv_seq = c.recv_seq
       /\ Sending(c) => Sending(d)
  <2>1. d \in TcpRec /\ LoopKeeps(c, d)
    BY <1>2, <1>4, <1>10, <1>12, LoopSends
  <2>2. QED
    BY <2>1 DEF LoopKeeps
<1>14. \A b : (Heard(c) => Heard(d)) /\ (Expects(c, b) => Expects(d, b))
  BY <1>13 DEF Heard, Expects
<1>15. s \in Listed => Heard(d) /\ Sending(d) /\ Expects(d, buf'[s].recv)
  BY <1>2, <1>9, <1>13, <1>14, HeldInv DEF c
<1>16. Ring(buf'[s].recv)
  BY <1>1, <1>2, <1>9 DEF TcpRecvInv
<1>17. SameQueue(sock[s], d)
  BY <1>13 DEF c
<1>18. QED
  BY <1>9, <1>11, <1>13, <1>15, <1>16, <1>17, OneSocketStep DEF tcp_send

-----------------------------------------------------------------------------
(***************************************************************************)
(* tcp_recv                                                                *)
(***************************************************************************)
LEMMA TcpRecvStep ==
  ASSUME TcpInv, ~ broken, NEW s \in held, NEW len \in Lens, tcp_recv(s, len)
  PROVE  TcpInv'
<1> DEFINE o == sock[s].owner
           b == buf[o].recv
           r == tcp_buffer_dequeue(b, len)
           seen == <<b.last>> \o r.bytes
<1>1. TcpType /\ GroupInv /\ AcceptInv /\ TcpRecvInv /\ TcpSendInv /\ TcpMemInv
  BY DEF TcpInv
<1>2. s \in Socks /\ s \in 1 .. made
  BY HeldInv
<1>3. o \in Socks
  BY <1>1, <1>2, ListedAreSocks DEF GroupInv
<1>4. b \in TcpBuf /\ Ring(b) /\ b.used > 0 /\ len \in Nat \ {0}
  BY <1>1, <1>3, TcpAssumption DEF TcpType, TcpRecvInv, tcp_recv
<1>5. PICK n \in Nat : n = Taken(b, len)
  BY <1>4, BufFields, SizesOfTcp DEF Taken
<1>6. PICK d : d = [r.rest EXCEPT !.last = ByteAt(b, n - 1)]
  OBVIOUS
<1>7. /\ n \in 1 .. b.used /\ DOMAIN r.bytes = 1 .. n
      /\ \A j \in 1 .. n : r.bytes[j] = ByteAt(b, j - 1)
      /\ d \in TcpBuf /\ Ring(d) /\ Newest(d) = Newest(b)
  <2>1. PICK bb, rr : bb = b /\ rr = r
    OBVIOUS
  <2>2. /\ bb \in TcpBuf /\ Ring(bb) /\ bb.used > 0 /\ rr = tcp_buffer_dequeue(bb, len)
        /\ n = Taken(bb, len) /\ d = [rr.rest EXCEPT !.last = ByteAt(bb, n - 1)]
    BY <1>4, <1>5, <1>6, <2>1
  <2>3. /\ n \in 1 .. bb.used /\ DOMAIN rr.bytes = 1 .. n
        /\ \A j \in 1 .. n : rr.bytes[j] = ByteAt(bb, j - 1)
        /\ d \in TcpBuf /\ Ring(d) /\ Newest(d) = Newest(bb)
    BY <1>4, <2>2, RingDrained
  <2>4. QED
    BY <2>1, <2>3
<1>8. r.bytes = [j \in 1 .. n |-> r.bytes[j]] /\ n \in Nat \ {0}
  <2>1. n \in Nat \ {0}
    BY <1>7
  <2>2. QED
    BY <1>5, <2>1 DEF tcp_buffer_dequeue
<1>9. /\ Len(seen) = n + 1 /\ seen[1] = b.last
      /\ \A j \in 1 .. n : seen[j + 1] = ByteAt(b, j - 1)
  <2>1. PICK q : q = r.bytes
    OBVIOUS
  <2>2. DOMAIN q = 1 .. n /\ (\A j \in 1 .. n : q[j] = ByteAt(b, j - 1)) /\ q = [j \in 1 .. n |-> q[j]]
    BY <1>7, <1>8, <2>1
  <2>3. q \in Seq({q[j] : j \in 1 .. n}) /\ Len(q) = n
    BY <2>2
  <2>4. PICK S : S = {q[j] : j \in 1 .. n} \cup {b.last}
    OBVIOUS
  <2>5. q \in Seq(S) /\ b.last \in S
    BY <2>2, <2>4
  <2>6. PICK e : e = b.last
    OBVIOUS
  <2>7. PICK z : z = <<e>> \o q
    OBVIOUS
  <2>8. /\ z \in Seq(S) /\ DOMAIN z = 1 .. 1 + Len(q) /\ z[1] = e
        /\ \A i \in 1 .. Len(q) : i + 1 \in 1 .. 1 + Len(q) /\ z[i + 1] = q[i]
    BY <2>5, <2>6, <2>7, PutInFront
  <2>9. Len(z) = n + 1
    BY <2>3, <2>8, LenProperties
  <2>10. z = seen
    BY <2>1, <2>6, <2>7
  <2>11. QED
    BY <2>2, <2>3, <2>6, <2>8, <2>9, <2>10
<1>10. seen[Len(seen)] = ByteAt(b, n - 1)
  <2>1. n \in 1 .. n
    BY <1>8
  <2>2. PICK z : z = seen
    OBVIOUS
  <2>3. Len(z) = n + 1 /\ z[n + 1] = ByteAt(b, n - 1)
    BY <1>9, <2>1, <2>2, Zenon
  <2>4. QED
    BY <2>2, <2>3, Zenon
<1>11. \A j \in 1 .. n : Follows(seen[j], seen[j + 1])
  <2>1. TAKE j \in 1 .. n
  <2>2. seen[j + 1] = ByteAt(b, j - 1)
    BY <1>9
  <2> HIDE DEF seen, b
  <2>3. CASE j = 1
    BY <1>4, <1>9, <2>2, <2>3 DEF Ring
  <2>4. CASE j # 1
    <3>1. j - 1 \in 1 .. n /\ (j - 1) + 1 = j /\ j - 1 \in 1 .. b.used - 1
      BY <1>4, <1>7, <2>4, BufFields, SizesOfTcp
    <3>2. seen[j] = ByteAt(b, j - 1 - 1)
      BY <1>9, <3>1
    <3>3. QED
      BY <1>4, <2>2, <3>1, <3>2 DEF Ring
  <2>5. QED
    BY <2>3, <2>4
<1>12. buf' = [buf EXCEPT ![o].recv = d]
  BY <1>6, <1>10 DEF tcp_recv
<1>13. ~ misread'
  <2>1. ~ misread
    BY <1>1 DEF TcpRecvInv
  <2>2. misread' = (misread \/ \E j \in DOMAIN r.bytes : ~ Follows(seen[j], seen[j + 1]))
    BY DEF tcp_recv
  <2>3. ~ \E j \in DOMAIN r.bytes : ~ Follows(seen[j], seen[j + 1])
    BY <1>7, <1>11
  <2>4. QED
    BY <2>1, <2>2, <2>3, Zenon
<1> HIDE DEF o, b
<1>14. /\ buf' \in [Socks -> [send : TcpBuf, recv : TcpBuf]] /\ buf'[o].recv = d
       /\ \A t \in Socks : t # o => buf'[t] = buf[t]
  <2>1. buf \in [Socks -> [send : TcpBuf, recv : TcpBuf]]
    BY <1>1 DEF TcpType
  <2> HIDE DEF TcpBuf
  <2>2. QED
    BY <1>3, <1>7, <1>12, <2>1
<1>15. UNCHANGED <<tcp_sockets, sock, next_local_port, made, held, live, accepted, dropped, broken>>
  BY DEF tcp_recv
<1>16. /\ Listed' = Listed /\ GroupInv' /\ AcceptInv' /\ TcpMemInv'
  BY <1>1, <1>15, QueuesFrame DEF SameQueue
<1>17. TcpType'
  BY <1>1, <1>14, <1>15, <1>16 DEF TcpType
<1>18. TcpSendInv'
  BY <1>1, <1>15, <1>16 DEF TcpSendInv
<1>19. \A t \in Socks : Ring(buf'[t].recv) /\ Newest(buf'[t].recv) = Newest(buf[t].recv)
  <2>1. TAKE t \in Socks
  <2>2. CASE t = o
    BY <1>7, <1>14, <2>2 DEF b
  <2>3. CASE t # o
    BY <1>1, <1>14, <2>3 DEF TcpRecvInv
  <2>4. QED
    BY <2>2, <2>3
<1>20. ASSUME NEW t \in Socks, t > made PROVE buf'[t].recv = EmptyBuffer
  <2>1. t # o
    <3>1. o \in 1 .. made /\ made \in Nat
      BY <1>1, <1>2, ListedAreSocks DEF GroupInv, o
    <3>2. QED
      BY <1>20, <3>1 DEF Socks
  <2>2. QED
    BY <1>1, <1>14, <1>20, <2>1 DEF TcpRecvInv
<1>21. ASSUME NEW t \in Listed PROVE Heard(sock'[t]) /\ Expects(sock'[t], buf'[t].recv)
  <2>1. t \in Socks
    BY <1>1, ListedAreSocks
  <2>2. Heard(sock[t]) /\ Expects(sock[t], buf[t].recv)
    BY <1>1 DEF TcpRecvInv
  <2>3. Expects(sock[t], buf'[t].recv)
    BY <1>19, <2>1, <2>2 DEF Expects
  <2>4. QED
    BY <1>15, <2>2, <2>3
<1>22. TcpRecvInv'
  BY <1>13, <1>15, <1>16, <1>19, <1>20, <1>21, Zenon DEF TcpRecvInv
<1>23. QED
  BY <1>16, <1>17, <1>18, <1>22 DEF TcpInv

-----------------------------------------------------------------------------
(***************************************************************************)
(* tcp_handle_packet                                                       *)
(***************************************************************************)
LEMMA PlusRange ==
  ASSUME NEW a \in Nat, NEW b \in Nat
  PROVE  Plus(a, b) \in 0 .. SeqSpace - 1
<1>1. SeqSpace \in Nat \ {0} /\ a + b \in Nat
  BY TcpAssumption
<1>2. QED
  BY <1>1, Division DEF Plus

\* What is known of a segment of the peer.
SegOf(out, isn, conn, seg) ==
  /\ seg.k \in 0 .. out /\ seg.ack = Plus(isn, seg.k + 1) /\ seg.seq \in 0 .. SeqSpace - 1
  /\ "SYN" \in seg.flags => seg.seq = PeerISN /\ seg.k = 0
  /\ seg.bytes # <<>> =>
       /\ seg.flags = {"PSH", "ACK"}
       /\ \E i \in 1 .. MaxIn, len \in Lens :
            /\ seg.seq = Plus(PeerISN, i)
            /\ seg.bytes = [j \in 1 .. len |-> <<conn, i + j - 1>>]

SegOK(c, seg) == SegOf(c.sent, c.isn, c.conn, seg)

LEMMA SegmentsOK ==
  ASSUME NEW c \in TcpRec, NEW seg \in Segments(c)
  PROVE  SegOK(c, seg)
<1>1. c.sent \in Nat /\ 0 \in 0 .. c.sent /\ c.sent \in 0 .. c.sent
  BY DEF TcpRec
<1>2. PeerISN \in 0 .. SeqSpace - 1 /\ PeerISN \in Nat /\ MaxIn \in Nat /\ 0 \in 0 .. SeqSpace - 1
  BY SizesOfTcp, TcpAssumption
<1>3. /\ Plus(PeerISN, MaxIn + 1) \in 0 .. SeqSpace - 1
      /\ \A i \in 1 .. MaxIn : Plus(PeerISN, i) \in 0 .. SeqSpace - 1
  <2>1. MaxIn + 1 \in Nat /\ \A i \in 1 .. MaxIn : i \in Nat
    BY <1>2
  <2>2. QED
    BY <1>2, <2>1, PlusRange
<1> DEFINE S(flags, seq, k, bytes) ==
             [flags |-> flags, seq |-> seq, k |-> k, ack |-> Plus(c.isn, k + 1), bytes |-> bytes]
<1>4. CASE seg = S({"SYN"}, PeerISN, 0, <<>>)
  BY <1>1, <1>2, <1>4 DEF SegOK, SegOf
<1>5. CASE seg = S({"SYN", "ACK"}, PeerISN, 0, <<>>)
  BY <1>1, <1>2, <1>5 DEF SegOK, SegOf
<1>6. CASE seg = S({"RST"}, 0, 0, <<>>)
  BY <1>1, <1>2, <1>6 DEF SegOK, SegOf
<1>7. CASE seg = S({"FIN"}, Plus(PeerISN, MaxIn + 1), 0, <<>>)
  BY <1>1, <1>3, <1>7 DEF SegOK, SegOf
<1>8. CASE \E flags \in {{"ACK"}, {"FIN", "ACK"}}, k \in 0 .. c.sent :
             seg = S(flags, Plus(PeerISN, MaxIn + 1), k, <<>>)
  BY <1>1, <1>3, <1>8 DEF SegOK, SegOf
<1>9. CASE \E i \in 1 .. MaxIn, k \in {0, c.sent}, len \in Lens :
             seg = S({"PSH", "ACK"}, Plus(PeerISN, i), k, [j \in 1 .. len |-> <<c.conn, i + j - 1>>])
  <2>1. PICK i \in 1 .. MaxIn, k \in {0, c.sent}, len \in Lens :
          seg = S({"PSH", "ACK"}, Plus(PeerISN, i), k, [j \in 1 .. len |-> <<c.conn, i + j - 1>>])
    BY <1>9
  <2>2. PICK q : q = [j \in 1 .. len |-> <<c.conn, i + j - 1>>]
    OBVIOUS
  <2>3. seg = S({"PSH", "ACK"}, Plus(PeerISN, i), k, q)
    BY <2>1, <2>2
  <2>4. QED
    BY <1>1, <1>3, <2>2, <2>3 DEF SegOK, SegOf
<1>10. QED
  BY <1>4, <1>5, <1>6, <1>7, <1>8, <1>9 DEF Segments

LEMMA MovedStates ==
  ASSUME NEW st \in States, NEW flags, NEW m, m = Moved(st, flags)
  PROVE  /\ m \in States
         /\ st = "SYN_RECEIVED" => m \in {"SYN_RECEIVED", "ESTABLISHED"}
         /\ m \in {"SYN_RECEIVED", "ESTABLISHED"} => st \in {"SYN_RECEIVED", "ESTABLISHED"}
         /\ m \in {"LAST_ACK", "SYN_SENT"} => m = st
BY DEF Moved, States

\* Sending without the window, which every segment sets anew.
SendingCore(c) ==
  /\ c.offered + Mss <= SeqSpace /\ c.acked <= c.sent /\ c.sent <= MaxOut
  /\ c.sent <= c.acked + c.offered + Mss - 1
  /\ c.state = "SYN_SENT" => c.send_seq = c.isn
  /\ c.state \in {"SYN_SENT", "SYN_RECEIVED"} => c.sent = 0
  /\ c.state \in {"SYN_RECEIVED", "ESTABLISHED"} =>
       c.send_seq = Plus(c.isn, c.sent + 1) /\ Kept(c) /\ AckKnown(c)

SameReceived(c, d) ==
  SameQueue(c, d) /\ d.state = c.state /\ d.heard = c.heard /\ d.conn = c.conn /\ d.recv_seq = c.recv_seq

LEMMA WindowSet ==
  ASSUME NEW y \in TcpRec, NEW window \in Window, NEW z,
         z = [y EXCEPT !.window = window, !.offered = IF window > @ THEN window ELSE @]
  PROVE  z \in TcpRec /\ SameReceived(y, z) /\ (SendingCore(y) => Sending(z))
<1>1. window \in Nat /\ window + Mss <= SeqSpace
  BY TcpAssumption
<1>2. PICK o \in Nat : o = y.offered
  BY DEF TcpRec
<1>3. PICK p \in Nat : p = IF window > o THEN window ELSE o
  BY <1>1
<1>4. z = [y EXCEPT !.window = window, !.offered = p]
  BY <1>2, <1>3
<1>5. /\ z \in TcpRec /\ SameReceived(y, z) /\ z.window = window /\ z.offered = p
      /\ z.send_seq = y.send_seq /\ z.send_ack = y.send_ack /\ z.outstanding = y.outstanding
      /\ z.isn = y.isn /\ z.sent = y.sent /\ z.acked = y.acked /\ z.whole = y.whole
  BY <1>1, <1>4, ZenonT(40) DEF TcpRec, SameReceived, SameQueue
<1>6. ASSUME SendingCore(y) PROVE Sending(z)
  <2>1. p >= o /\ window <= p /\ p + Mss <= SeqSpace
    BY <1>1, <1>2, <1>3, <1>6 DEF SendingCore
  <2>2. Kept(y) => Kept(z)
    BY <1>5 DEF Kept
  <2>3. PICK m : m = Minus(Plus(z.isn, 1), z.send_ack)
    OBVIOUS
  <2>4. m \in Nat /\ z.sent \in Nat /\ z.acked \in Nat /\ Mss \in Nat
    <3>1. /\ z.isn \in 0 .. SeqSpace - 1 /\ z.send_ack \in 0 .. SeqSpace - 1
          /\ z.sent \in Nat /\ z.acked \in Nat /\ 1 \in 0 .. SeqSpace /\ Mss \in Nat
      BY <1>5, SizesOfTcp DEF TcpRec
    <3>2. Plus(z.isn, 1) \in 0 .. SeqSpace - 1
      BY <3>1, PlusIs
    <3>3. m \in 0 .. SeqSpace - 1
      BY <2>3, <3>1, <3>2, MinusIs
    <3>4. QED
      BY <3>1, <3>3, SizesOfTcp
  <2>5. AckKnown(y) => AckKnown(z)
    <3>1. m + z.sent <= o + Mss - 1 => m + z.sent <= p + Mss - 1
      BY <2>1, <2>4
    <3>2. QED
      BY <1>2, <1>5, <2>3, <3>1 DEF AckKnown
  <2>6. z.sent <= z.acked + o + Mss - 1 => z.sent <= z.acked + p + Mss - 1
    BY <2>1, <2>4
  <2>7. z.state = y.state
    BY <1>5 DEF SameReceived
  <2>8. QED
    BY <1>2, <1>5, <1>6, <2>1, <2>2, <2>5, <2>6, <2>7 DEF SendingCore, Sending
<1>7. QED
  BY <1>5, <1>6

\* The segment is one whose bytes the socket c, whose buffer is b, takes.
Takes(c, seg, b) ==
  /\ c.state = "ESTABLISHED" /\ seg.flags = {"PSH", "ACK"} /\ IsNext(c, seg)
  /\ HasRoom(b, Len(seg.bytes))

\* It leads from c to y.
Answered(c, y, seg, b) ==
  /\ SameQueue(c, y) /\ y.conn = c.conn
  /\ Sending(c) => SendingCore(y)
  /\ Heard(c) => Heard(y)
  /\ Takes(c, seg, b) => y.state = c.state /\ y.recv_seq = Plus(c.recv_seq, Len(seg.bytes))
  /\ ~ Takes(c, seg, b) /\ Expects(c, b) => Expects(y, b)

LEMMA AnsweredByMove ==
  ASSUME NEW c \in TcpRec, NEW seg, NEW b, c.state \notin {"ESTABLISHED", "SYN_SENT"}, NEW y,
         y = [c EXCEPT !.state = Moved(@, seg.flags)]
  PROVE  y \in TcpRec /\ Answered(c, y, seg, b)
<1>1. PICK m : m = Moved(c.state, seg.flags)
  OBVIOUS
<1>2. c.state \in States
  BY DEF TcpRec
<1>3. /\ m \in States
      /\ c.state = "SYN_RECEIVED" => m \in {"SYN_RECEIVED", "ESTABLISHED"}
      /\ m \in {"SYN_RECEIVED", "ESTABLISHED"} => c.state \in {"SYN_RECEIVED", "ESTABLISHED"}
      /\ m \in {"LAST_ACK", "SYN_SENT"} => m = c.state
  BY <1>1, <1>2, MovedStates
<1>4. y = [c EXCEPT !.state = m]
  BY <1>1
<1>5. /\ y \in TcpRec /\ SameQueue(c, y) /\ y.state = m /\ y.heard = c.heard /\ y.conn = c.conn
      /\ y.recv_seq = c.recv_seq /\ y.send_seq = c.send_seq /\ y.send_ack = c.send_ack
      /\ y.outstanding = c.outstanding /\ y.isn = c.isn /\ y.sent = c.sent
      /\ y.acked = c.acked /\ y.whole = c.whole /\ y.offered = c.offered
  BY <1>3, <1>4 DEF TcpRec, SameQueue
<1>6. (Kept(c) => Kept(y)) /\ (AckKnown(c) => AckKnown(y))
  BY <1>5 DEF Kept, AckKnown
<1>7. Sending(c) => SendingCore(y)
  BY <1>3, <1>5, <1>6 DEF Sending, SendingCore
<1>8. Heard(c) => Heard(y)
  BY <1>3, <1>5 DEF Heard
<1>9. Expects(c, b) => Expects(y, b)
  BY <1>3, <1>5 DEF Expects
<1>10. QED
  BY <1>5, <1>7, <1>8, <1>9 DEF Answered, Takes

LEMMA AnsweredToSyn ==
  ASSUME NEW c \in TcpRec, NEW seg, SegOK(c, seg), NEW b, c.state = "SYN_SENT", NEW ok, NEW y,
         y = SynSent(c, seg, ok)
  PROVE  y \in TcpRec /\ Answered(c, y, seg, b)
<1>1. PICK p \in 0 .. SeqSpace - 1, q \in 0 .. SeqSpace - 1, sq \in 0 .. SeqSpace - 1, isn \in 0 .. SeqSpace - 1 :
        p = Plus(PeerISN, 1) /\ sq = c.send_seq /\ isn = c.isn /\ q = Plus(isn, 1)
  <2>1. PeerISN \in Nat /\ 1 \in Nat /\ SeqSpace \in Nat
    BY TcpAssumption
  <2>2. Plus(PeerISN, 1) \in 0 .. SeqSpace - 1 /\ c.send_seq \in 0 .. SeqSpace - 1 /\ c.isn \in 0 .. SeqSpace - 1
    BY <2>1, PlusRange DEF TcpRec
  <2>3. PICK i \in Nat : i = c.isn
    BY <2>1, <2>2
  <2>4. Plus(i, 1) \in 0 .. SeqSpace - 1
    BY <2>1, PlusRange
  <2>5. QED
    BY <2>2, <2>3, <2>4
<1>2. CASE "SYN" \notin seg.flags
  <2>1. y = c
    BY <1>2 DEF SynSent
  <2>2. Sending(c) => SendingCore(c)
    BY DEF Sending, SendingCore
  <2>3. QED
    BY <2>1, <2>2 DEF Answered, Takes, SameQueue
<1>3. CASE "SYN" \in seg.flags
  <2>1. seg.seq = PeerISN /\ seg.k = 0 /\ seg.ack = Plus(isn, 0 + 1) /\ 0 + 1 = 1
    BY <1>1, <1>3 DEF SegOK, SegOf
  <2>2. /\ y \in TcpRec /\ SameQueue(c, y) /\ y.state \in {"ESTABLISHED", "SYN_RECEIVED"} /\ y.heard
        /\ y.conn = c.conn /\ y.recv_seq = p /\ y.isn = isn /\ y.sent = c.sent /\ y.acked = c.acked
        /\ y.offered = c.offered /\ (c.send_seq = c.isn => y.send_seq = q)
    <3>1. CASE "ACK" \in seg.flags
      <4>1. y = [c EXCEPT !.recv_seq = p, !.send_seq = q, !.state = "ESTABLISHED", !.heard = TRUE]
        BY <1>1, <1>3, <2>1, <3>1 DEF SynSent
      <4>2. QED
        BY <1>1, <4>1, ZenonT(40) DEF TcpRec, SameQueue, States
    <3>2. CASE "ACK" \notin seg.flags
      <4>0. PICK n \in Nat, z \in Nat : n = c.send_seq /\ z = 0
        BY <1>1, TcpAssumption
      <4>1. PICK e : e = tcp_enqueue_segment(c, n, z, ok)
        OBVIOUS
      <4>2. e \in TcpRec /\ SameQueue(c, e) /\ SameTalk(c, e)
        BY <4>1, EnqueuedFields
      <4>3. PICK w \in 0 .. SeqSpace - 1 : w = Plus(n, 1)
        BY <4>1, PlusRange
      <4>4. e.send_seq = n
        BY <4>0, <4>2 DEF SameTalk
      <4>5. y = [e EXCEPT !.recv_seq = p, !.send_seq = w, !.state = "SYN_RECEIVED", !.heard = TRUE]
        BY <1>1, <1>3, <2>1, <3>2, <4>0, <4>1, <4>3, <4>4 DEF SynSent
      <4>6. /\ y \in TcpRec /\ SameQueue(e, y) /\ y.state = "SYN_RECEIVED" /\ y.heard
            /\ y.recv_seq = p /\ y.send_seq = w
            /\ y.conn = e.conn /\ y.isn = e.isn /\ y.sent = e.sent /\ y.acked = e.acked
            /\ y.offered = e.offered
        <5>1. e \in TcpRec
          BY <4>2
        <5>2. y \in TcpRec
          BY <4>5, <5>1, ZenonT(40) DEF TcpRec, States
        <5>3. SameQueue(e, y) /\ y.state = "SYN_RECEIVED" /\ y.heard
          BY <4>5, <5>1 DEF TcpRec, SameQueue
        <5>4. y.recv_seq = p /\ y.send_seq = w /\ y.conn = e.conn /\ y.isn = e.isn
          BY <4>5, <5>1 DEF TcpRec
        <5>5. y.sent = e.sent /\ y.acked = e.acked /\ y.offered = e.offered
          BY <4>5, <5>1 DEF TcpRec
        <5>6. QED
          BY <5>2, <5>3, <5>4, <5>5
      <4>7. QED
        BY <1>1, <4>0, <4>2, <4>3, <4>6 DEF SameTalk, SameQueue
    <3>3. QED
      BY <3>1, <3>2
  <2>3. ASSUME Sending(c) PROVE SendingCore(y)
    <3>1. c.sent = 0 /\ c.acked <= 0 /\ c.acked \in Nat /\ c.send_seq = c.isn
      BY <2>3 DEF Sending, TcpRec
    <3>2. y.sent = 0 /\ y.acked = 0 /\ y.send_seq = q
      BY <2>2, <3>1
    <3>3. Kept(y) /\ AckKnown(y)
      BY <3>2 DEF Kept, AckKnown
    <3>4. y.send_seq = Plus(y.isn, y.sent + 1)
      BY <1>1, <2>2, <3>2
    <3>5. QED
      BY <2>2, <2>3, <3>1, <3>2, <3>3, <3>4 DEF Sending, SendingCore
  <2>4. Heard(y)
    BY <2>2 DEF Heard
  <2>5. Expects(c, b) => Expects(y, b)
    BY <1>1, <2>2 DEF Expects
  <2>6. QED
    BY <2>2, <2>3, <2>4, <2>5 DEF Answered, Takes
<1>4. QED
  BY <1>2, <1>3

\* An acknowledgment leaves in the table what it does not cover.
LEMMA AckKeeps ==
  ASSUME NEW c \in TcpRec, Kept(c), NEW k \in 0 .. c.sent, NEW y \in TcpRec,
         y.outstanding = {seg \in c.outstanding : ~ Acknowledged(seg, Plus(c.isn, k + 1))},
         y.acked = (IF k > c.acked THEN k ELSE c.acked),
         y.isn = c.isn, y.sent = c.sent, y.whole = c.whole
  PROVE  Kept(y)
<1>1. PICK isn \in 0 .. SeqSpace - 1, out \in Nat, acked \in Nat :
        isn = c.isn /\ out = c.sent /\ acked = c.acked
  BY DEF TcpRec
<1>2. SUFFICES ASSUME c.whole, isn + 1 + out < SeqSpace, NEW i \in y.acked + 1 .. out
               PROVE  \E seg \in y.outstanding :
                        /\ isn + i \in seg.seq .. seg.seq + seg.len - 1
                        /\ seg.seq + seg.len <= isn + 1 + out
  BY <1>1 DEF Kept
<1>3. SeqSpace \in Nat \ {0} /\ k \in 0 .. out
  BY <1>1, SizesOfTcp
<1>4. i \in acked + 1 .. out /\ i > k /\ i \in Nat
  BY <1>1, <1>2, <1>3
<1>5. PICK seg \in c.outstanding : /\ isn + i \in seg.seq .. seg.seq + seg.len - 1
                                   /\ seg.seq + seg.len <= isn + 1 + out
  BY <1>1, <1>2, <1>4 DEF Kept
<1>6. PICK q \in Nat, l \in Nat : q = seg.seq /\ l = seg.len
  BY DEF TcpRec
<1>7. q \in 0 .. SeqSpace - 1 /\ l \in 0 .. SeqSpace /\ q + l < SeqSpace /\ q + l > isn + i
  BY <1>1, <1>2, <1>3, <1>4, <1>5, <1>6
<1>8. Plus(q, l) = q + l
  BY <1>7, PlusIs
<1>9. Plus(isn, k + 1) = isn + (k + 1)
  <2>1. k + 1 \in 0 .. SeqSpace /\ isn + (k + 1) < SeqSpace
    BY <1>1, <1>2, <1>3
  <2>2. QED
    BY <2>1, PlusIs
<1>10. ~ (q + l <= isn + (k + 1))
  BY <1>1, <1>3, <1>4, <1>6, <1>7
<1>11. ~ Acknowledged(seg, Plus(c.isn, k + 1))
  BY <1>1, <1>6, <1>8, <1>9, <1>10 DEF Acknowledged
<1>12. seg \in y.outstanding
  BY <1>11
<1>13. QED
  BY <1>5, <1>12

LEMMA AnsweredSame ==
  ASSUME NEW c \in TcpRec, NEW seg, NEW b, ~ Takes(c, seg, b)
  PROVE  Answered(c, c, seg, b)
<1>1. Sending(c) => SendingCore(c)
  BY DEF Sending, SendingCore
<1>2. QED
  BY <1>1 DEF Answered, SameQueue

\* FIN or RST: the connection ends.
LEMMA AnsweredByEnd ==
  ASSUME NEW c \in TcpRec, c.state = "ESTABLISHED", NEW seg, NEW b, ~ Takes(c, seg, b),
         NEW y \in TcpRec, SameQueue(c, y), y.state \in {"LAST_ACK", "CLOSED"}, y.heard = c.heard,
         y.conn = c.conn, y.sent = c.sent, y.acked = c.acked, y.offered = c.offered
  PROVE  Answered(c, y, seg, b)
<1>1. Sending(c) => SendingCore(y)
  BY DEF Sending, SendingCore
<1>2. (Heard(c) => Heard(y)) /\ (Expects(c, b) => Expects(y, b))
  BY DEF Heard, Expects
<1>3. QED
  BY <1>1, <1>2 DEF Answered

LEMMA AnsweredByData ==
  ASSUME NEW c \in TcpRec, c.state = "ESTABLISHED", NEW seg, NEW b, Takes(c, seg, b),
         NEW n \in Nat, n = Len(seg.bytes), NEW y,
         y = [c EXCEPT !.recv_seq = Plus(@, Len(seg.bytes))]
  PROVE  y \in TcpRec /\ Answered(c, y, seg, b)
<1>1. PICK q \in Nat, p \in 0 .. SeqSpace - 1 : q = c.recv_seq /\ p = Plus(q, n)
  <2>1. PICK q \in Nat : q = c.recv_seq
    BY SizesOfTcp DEF TcpRec
  <2>2. QED
    BY <2>1, PlusRange
<1>2. y = [c EXCEPT !.recv_seq = p]
  BY <1>1
<1>3. y \in TcpRec /\ y.recv_seq = p /\ SameQueue(c, y) /\ y.state = c.state /\ y.heard = c.heard
  BY <1>2, ZenonT(40) DEF TcpRec, SameQueue
<1>4. /\ y.conn = c.conn /\ y.send_seq = c.send_seq /\ y.send_ack = c.send_ack
      /\ y.outstanding = c.outstanding /\ y.isn = c.isn /\ y.sent = c.sent
      /\ y.acked = c.acked /\ y.whole = c.whole /\ y.offered = c.offered
  BY <1>2 DEF TcpRec
<1>5. (Kept(c) => Kept(y)) /\ (AckKnown(c) => AckKnown(y))
  BY <1>4 DEF Kept, AckKnown
<1>6. Sending(c) => SendingCore(y)
  BY <1>3, <1>4, <1>5 DEF Sending, SendingCore
<1>7. Heard(c) => Heard(y)
  BY <1>3 DEF Heard
<1>8. QED
  BY <1>1, <1>3, <1>4, <1>6, <1>7 DEF Answered

LEMMA AnsweredByAck ==
  ASSUME NEW c \in TcpRec, c.state = "ESTABLISHED", NEW seg, SegOK(c, seg), NEW b,
         ~ Takes(c, seg, b), NEW y,
         y = [tcp_dequeue_segment(c, seg.ack) EXCEPT
                !.send_ack = seg.ack, !.acked = IF seg.k > @ THEN seg.k ELSE @]
  PROVE  y \in TcpRec /\ Answered(c, y, seg, b)
<1>1. PICK k \in 0 .. c.sent, isn \in 0 .. SeqSpace - 1 :
        k = seg.k /\ isn = c.isn /\ seg.ack = Plus(isn, k + 1)
  BY DEF SegOK, SegOf, TcpRec
<1>2. k \in Nat /\ k <= c.sent /\ c.sent \in Nat /\ c.acked \in Nat /\ isn \in Nat
  BY <1>1, SizesOfTcp DEF TcpRec
<1>3. PICK a \in 0 .. SeqSpace - 1 : a = Plus(isn, k + 1)
  <2>1. k + 1 \in Nat
    BY <1>2
  <2>2. QED
    BY <1>2, <2>1, PlusRange
<1>4. PICK S \in SUBSET [seq : Nat, len : Nat] : S = {x \in c.outstanding : ~ Acknowledged(x, a)}
  <2>1. c.outstanding \subseteq [seq : Nat, len : Nat]
    BY DEF TcpRec
  <2>2. QED
    BY <2>1
<1>5. PICK m \in Nat : m = IF k > c.acked THEN k ELSE c.acked
  BY <1>2
<1>6. y = [c EXCEPT !.outstanding = S, !.send_ack = a, !.acked = m]
  <2>1. tcp_dequeue_segment(c, seg.ack) = [c EXCEPT !.outstanding = S]
    BY <1>1, <1>3, <1>4 DEF tcp_dequeue_segment
  <2>2. [c EXCEPT !.outstanding = S].acked = c.acked
    BY DEF TcpRec
  <2>3. QED
    BY <1>1, <1>3, <1>5, <2>1, <2>2
<1>7. /\ y \in TcpRec /\ y.outstanding = S /\ y.send_ack = a /\ y.acked = m
  BY <1>6, ZenonT(40) DEF TcpRec
<1>8. SameQueue(c, y) /\ y.state = c.state /\ y.heard = c.heard /\ y.conn = c.conn /\ y.recv_seq = c.recv_seq
  BY <1>6 DEF TcpRec, SameQueue
<1>9. /\ y.send_seq = c.send_seq /\ y.isn = isn /\ y.sent = c.sent
      /\ y.whole = c.whole /\ y.offered = c.offered
  BY <1>1, <1>6 DEF TcpRec
<1>10. ASSUME Sending(c) PROVE SendingCore(y)
  <2>1. Kept(c) /\ c.acked <= c.sent /\ c.sent <= c.acked + c.offered + Mss - 1
    BY <1>10 DEF Sending
  <2>2. Kept(y)
    <3>1. /\ y.outstanding = {x \in c.outstanding : ~ Acknowledged(x, Plus(c.isn, k + 1))}
          /\ y.acked = (IF k > c.acked THEN k ELSE c.acked)
          /\ y.isn = c.isn /\ y.sent = c.sent /\ y.whole = c.whole
      BY <1>1, <1>3, <1>4, <1>5, <1>7, <1>9
    <3>2. QED
      BY <1>7, <2>1, <3>1, AckKeeps
  <2>3. k \in 0 .. m /\ m <= c.sent /\ c.acked <= m
    BY <1>2, <1>5, <2>1
  <2>4. AckKnown(y)
    BY <1>2, <1>3, <1>7, <1>9, <2>3 DEF AckKnown
  <2>5. c.sent <= m + c.offered + Mss - 1
    <3>1. c.offered \in Nat /\ Mss \in Nat
      BY SizesOfTcp DEF TcpRec
    <3>2. QED
      BY <1>2, <2>1, <2>3, <3>1
  <2>6. QED
    BY <1>1, <1>7, <1>8, <1>9, <1>10, <2>2, <2>3, <2>4, <2>5 DEF Sending, SendingCore
<1>11. (Heard(c) => Heard(y)) /\ (Expects(c, b) => Expects(y, b))
  BY <1>8 DEF Heard, Expects
<1>12. QED
  BY <1>7, <1>8, <1>10, <1>11 DEF Answered

LEMMA AnsweredEstablished ==
  ASSUME NEW c \in TcpRec, c.state = "ESTABLISHED", NEW seg, SegOK(c, seg), NEW b,
         b = buf[c.owner].recv, NEW ok, NEW y, y = Established(c, seg, ok)
  PROVE  y \in TcpRec /\ Answered(c, y, seg, b)
<1>1. IsNext(c, seg) => seg.flags = {"PSH", "ACK"} /\ seg.bytes # <<>>
  BY DEF IsNext, SegOK, SegOf
<1>2. CASE "FIN" \in seg.flags
  <2>1. ~ Takes(c, seg, b)
    BY <1>2 DEF Takes
  <2>2. PICK p \in 0 .. SeqSpace - 1 : p = Plus(seg.seq, 1)
    <3>1. seg.seq \in 0 .. SeqSpace - 1 /\ 1 \in 0 .. SeqSpace
      BY SizesOfTcp DEF SegOK, SegOf
    <3>2. QED
      BY <3>1, PlusIs
  <2>3. PICK e : e = [c EXCEPT !.recv_seq = p, !.state = "LAST_ACK"]
    OBVIOUS
  <2>4. e \in TcpRec /\ SameQueue(c, e) /\ e.state = "LAST_ACK" /\ e.heard = c.heard
    BY <2>3, ZenonT(40) DEF TcpRec, SameQueue, States
  <2>5. e.conn = c.conn /\ e.sent = c.sent /\ e.acked = c.acked /\ e.offered = c.offered
    BY <2>3 DEF TcpRec
  <2>6. PICK n \in Nat, z \in Nat : n = c.send_seq /\ z = 0
    BY SizesOfTcp DEF TcpRec
  <2>7. y = tcp_enqueue_segment(e, n, z, ok)
    BY <1>2, <2>2, <2>3, <2>6 DEF Established
  <2>8. y \in TcpRec /\ SameQueue(e, y) /\ SameTalk(e, y)
    BY <2>4, <2>7, EnqueuedFields
  <2>9. SameQueue(c, y) /\ y.state = "LAST_ACK" /\ y.heard = c.heard
    BY <2>4, <2>8 DEF SameQueue, SameTalk
  <2>10. y.conn = c.conn /\ y.sent = c.sent /\ y.acked = c.acked /\ y.offered = c.offered
    BY <2>5, <2>8 DEF SameTalk
  <2>11. QED
    BY <2>1, <2>8, <2>9, <2>10, AnsweredByEnd
<1>3. CASE "FIN" \notin seg.flags /\ "RST" \in seg.flags
  <2>1. ~ Takes(c, seg, b)
    BY <1>3 DEF Takes
  <2>2. y = [c EXCEPT !.state = "CLOSED"]
    BY <1>3 DEF Established
  <2>3. y \in TcpRec /\ SameQueue(c, y) /\ y.state = "CLOSED" /\ y.heard = c.heard
    BY <2>2 DEF TcpRec, SameQueue, States
  <2>4. y.conn = c.conn /\ y.sent = c.sent /\ y.acked = c.acked /\ y.offered = c.offered
    BY <2>2 DEF TcpRec
  <2>5. QED
    BY <2>1, <2>3, <2>4, AnsweredByEnd
<1>4. CASE "FIN" \notin seg.flags /\ "RST" \notin seg.flags /\ IsNext(c, seg)
  <2>1. seg.flags \cap {"FIN", "RST"} = {}
    BY <1>4
  <2>2. PICK n \in Nat : n = Len(seg.bytes)
    <3>1. PICK i \in 1 .. MaxIn, len \in Lens :
            seg.bytes = [j \in 1 .. len |-> <<c.conn, i + j - 1>>]
      BY <1>1, <1>4 DEF SegOK, SegOf
    <3>2. len \in Nat
      BY TcpAssumption
    <3>3. PICK q : q = seg.bytes /\ q = [j \in 1 .. len |-> <<c.conn, i + j - 1>>]
      BY <3>1
    <3>4. Len(q) = len
      BY <3>2, <3>3
    <3>5. QED
      BY <3>2, <3>3, <3>4
  <2>3. CASE HasRoom(b, Len(seg.bytes))
    <3>1. y = [c EXCEPT !.recv_seq = Plus(@, Len(seg.bytes))]
      BY <1>4, <2>1, <2>3 DEF Established
    <3>2. Takes(c, seg, b)
      BY <1>1, <1>4, <2>3 DEF Takes
    <3>3. QED
      BY <2>2, <3>1, <3>2, AnsweredByData
  <2>4. CASE ~ HasRoom(b, Len(seg.bytes))
    <3>1. y = c
      BY <1>4, <2>1, <2>4 DEF Established
    <3>2. ~ Takes(c, seg, b)
      BY <2>4 DEF Takes
    <3>3. QED
      BY <3>1, <3>2, AnsweredSame
  <2>5. QED
    BY <2>3, <2>4
<1>5. CASE "FIN" \notin seg.flags /\ "RST" \notin seg.flags /\ ~ IsNext(c, seg)
  <2>1. seg.flags \cap {"FIN", "RST"} = {} /\ ~ Takes(c, seg, b)
    BY <1>5 DEF Takes
  <2>2. CASE "ACK" \in seg.flags
    <3>1. y = [tcp_dequeue_segment(c, seg.ack) EXCEPT
                 !.send_ack = seg.ack, !.acked = IF seg.k > @ THEN seg.k ELSE @]
      BY <1>5, <2>1, <2>2 DEF Established
    <3>2. QED
      BY <2>1, <3>1, AnsweredByAck
  <2>3. CASE "ACK" \notin seg.flags
    <3>1. y = c
      BY <1>5, <2>1, <2>3 DEF Established
    <3>2. QED
      BY <2>1, <3>1, AnsweredSame
  <2>4. QED
    BY <2>2, <2>3
<1>6. QED
  BY <1>2, <1>3, <1>4, <1>5

LEMMA AnsweredAny ==
  ASSUME NEW c \in TcpRec, NEW seg, SegOK(c, seg), NEW b,
         b = buf[c.owner].recv, NEW ok, NEW y, y = Respond(c, seg, ok)
  PROVE  y \in TcpRec /\ Answered(c, y, seg, b)
<1>1. CASE c.state = "ESTABLISHED"
  <2>1. y = Established(c, seg, ok)
    BY <1>1 DEF Respond
  <2>2. QED
    BY <1>1, <2>1, AnsweredEstablished
<1>2. CASE c.state = "SYN_SENT"
  <2>1. y = SynSent(c, seg, ok)
    BY <1>2 DEF Respond
  <2>2. QED
    BY <1>2, <2>1, AnsweredToSyn
<1>3. CASE c.state \notin {"ESTABLISHED", "SYN_SENT"}
  <2>1. y = [c EXCEPT !.state = Moved(@, seg.flags)]
    BY <1>3 DEF Respond
  <2>2. QED
    BY <1>3, <2>1, AnsweredByMove
<1>4. QED
  BY <1>1, <1>2, <1>3

LEMMA DataFollows ==
  ASSUME NEW c \in TcpRec, c.state = "ESTABLISHED", NEW b \in TcpBuf, Expects(c, b),
         NEW i \in 1 .. MaxIn, NEW len \in Lens, c.recv_seq = Plus(PeerISN, i)
  PROVE  Follows(Newest(b), <<c.conn, i>>)
<1>1. PICK e \in Byte : e = Newest(b)
  BY NewestIsByte
<1>2. PICK x \in Nat, y \in Nat, n \in Nat : x = e[1] /\ y = e[2] /\ n = c.conn
  BY DEF Byte, TcpRec
<1>3. SeqSpace \in Nat \ {0} /\ MaxIn \in Nat /\ \A l \in Lens : l \in Nat \ {0} /\ MaxIn + l <= SeqSpace
  BY SizesOfTcp, TcpAssumption
<1>4. PeerISN \in 0 .. SeqSpace - 1 /\ i \in 1 .. SeqSpace /\ 1 \in 1 .. SeqSpace
  BY <1>3, TcpAssumption
<1>5. CASE x < n /\ c.recv_seq = Plus(PeerISN, 1)
  <2>1. Plus(PeerISN, i) = Plus(PeerISN, 1)
    BY <1>5
  <2>2. i = 1
    BY <1>4, <2>1, PlusInjective
  <2>3. QED
    BY <1>1, <1>2, <1>5, <2>2 DEF Follows
<1>6. CASE x = n /\ c.recv_seq = Plus(PeerISN, y + 1) /\ \E l \in Lens : y < MaxIn + l
  <2>1. y + 1 \in 1 .. SeqSpace
    BY <1>2, <1>3, <1>6
  <2>2. Plus(PeerISN, i) = Plus(PeerISN, y + 1)
    BY <1>6
  <2>3. i = y + 1
    BY <1>4, <2>1, <2>2, PlusInjective
  <2>4. QED
    BY <1>1, <1>2, <1>6, <2>3 DEF Follows
<1>7. QED
  BY <1>1, <1>2, <1>5, <1>6 DEF Expects

\* The bytes of a segment in the buffer: b becomes w, c becomes d.
LEMMA DataTaken ==
  ASSUME NEW c \in TcpRec, NEW b \in TcpBuf, Ring(b), Expects(c, b), NEW seg, SegOK(c, seg),
         Takes(c, seg, b), NEW d \in TcpRec, d.state = c.state, d.conn = c.conn,
         d.recv_seq = Plus(c.recv_seq, Len(seg.bytes)), NEW w,
         w = tcp_buffer_enqueue(b, seg.bytes)
  PROVE  w \in TcpBuf /\ Ring(w) /\ Expects(d, w)
<1>1. c.state = "ESTABLISHED" /\ seg.bytes # <<>> /\ seg.seq = c.recv_seq
  BY DEF Takes, IsNext
<1>2. PICK i \in 1 .. MaxIn, len \in Lens :
        seg.seq = Plus(PeerISN, i) /\ seg.bytes = [j \in 1 .. len |-> <<c.conn, i + j - 1>>]
  BY <1>1 DEF SegOK, SegOf
<1>3. SeqSpace \in Nat \ {0} /\ MaxIn \in Nat /\ len \in Nat \ {0} /\ MaxIn + len <= SeqSpace
  BY SizesOfTcp, TcpAssumption
<1>0. PICK n \in Nat : n = c.conn
  BY DEF TcpRec
<1>4. PICK q : n = c.conn /\ q = seg.bytes
  BY <1>0
<1>5. q = [j \in 1 .. len |-> <<n, i + j - 1>>]
  BY <1>2, <1>4
<1>6. q \in [1 .. len -> Byte] /\ Len(q) = len /\ \A j \in 1 .. len : q[j] = <<n, i + j - 1>>
  <2>1. \A j \in 1 .. len : <<n, i + j - 1>> \in Byte
    BY DEF Byte
  <2>2. q \in [1 .. len -> Byte] /\ \A j \in 1 .. len : q[j] = <<n, i + j - 1>>
    BY <1>5, <2>1
  <2>3. Len(q) = len
    BY <1>3, <1>5
  <2>4. QED
    BY <2>2, <2>3
<1>7. HasRoom(b, len) /\ w = tcp_buffer_enqueue(b, q)
  BY <1>4, <1>6 DEF Takes
<1>8. w \in TcpBuf /\ Enqueued(b, q, len, w)
  BY <1>3, <1>6, <1>7, EnqueueResult
<1>9. Follows(Newest(b), q[1])
  <2>1. c.recv_seq = Plus(PeerISN, i)
    BY <1>1, <1>2
  <2>2. Follows(Newest(b), <<c.conn, i>>)
    BY <1>1, <2>1, DataFollows
  <2>3. q[1] = <<n, i + 1 - 1>> /\ i + 1 - 1 = i
    BY <1>3, <1>6
  <2>4. QED
    BY <1>4, <2>2, <2>3
<1>10. \A j \in 2 .. len : Follows(q[j - 1], q[j])
  <2>1. TAKE j \in 2 .. len
  <2>2. j \in 1 .. len /\ j - 1 \in 1 .. len
    BY <1>3
  <2>3. q[j] = <<n, i + j - 1>> /\ q[j - 1] = <<n, i + (j - 1) - 1>>
    BY <1>6, <2>2
  <2>4. i + j - 1 = (i + (j - 1) - 1) + 1
    OBVIOUS
  <2>5. QED
    BY <2>3, <2>4 DEF Follows
<1>11. Ring(w) /\ Newest(w) = q[len]
  BY <1>3, <1>7, <1>8, <1>9, <1>10, RingGrown
<1>12. q[len] = <<n, i + len - 1>>
  BY <1>3, <1>6
<1>13. d.recv_seq = Plus(PeerISN, (i + len - 1) + 1)
  <2>1. PeerISN \in 0 .. SeqSpace - 1 /\ i \in Nat /\ i + len <= SeqSpace
    BY <1>3, TcpAssumption
  <2>2. Plus(Plus(PeerISN, i), len) = Plus(PeerISN, i + len)
    BY <1>3, <2>1, PlusPlus
  <2>3. (i + len - 1) + 1 = i + len
    BY <1>3
  <2>4. QED
    BY <1>1, <1>2, <1>4, <1>6, <2>2, <2>3
<1>14. i + len - 1 < MaxIn + len
  BY <1>3
<1>15. Expects(d, w)
  <2>1. PICK e : e = Newest(w)
    OBVIOUS
  <2>2. e = <<n, i + len - 1>>
    BY <1>11, <1>12, <2>1
  <2>3. e[1] = n /\ e[2] = i + len - 1
    BY <2>2
  <2>4. d.state = "ESTABLISHED" /\ d.conn = n
    BY <1>1, <1>4
  <2>5. QED
    BY <1>13, <1>14, <2>1, <2>3, <2>4 DEF Expects
<1>16. QED
  BY <1>8, <1>11, <1>15

LEMMA TcpPacketStep ==
  ASSUME TcpInv, ~ broken, NEW s \in Listed, NEW peer \in Peer, NEW seg \in Segments(sock[s]),
         NEW window \in Window, NEW ok \in BOOLEAN, tcp_handle_packet(s, peer, seg, window, ok)
  PROVE  TcpInv'
<1> DEFINE a == sock[s]
           c == [a EXCEPT !.remote = IF @ = 0 THEN peer ELSE @]
           y == Respond(c, seg, ok)
           d == [y EXCEPT !.window = window, !.offered = IF window > @ THEN window ELSE @]
           b == buf[s].recv
<1>1. TcpType /\ GroupInv /\ TcpRecvInv /\ s \in held
  BY ListedAreSocks DEF TcpInv
<1>2. /\ s \in Socks /\ s \in 1 .. made /\ a \in TcpRec /\ a.owner = s
      /\ Heard(a) /\ Sending(a) /\ Expects(a, b)
  BY <1>1, HeldInv
<1>3. SegOK(a, seg)
  BY <1>2, SegmentsOK
<1>4. PICK rm \in Peer \cup {0} : rm = IF a.remote = 0 THEN peer ELSE a.remote
  BY <1>2 DEF TcpRec
<1>5. c = [a EXCEPT !.remote = rm]
  BY <1>4
<1>6. sock' = [sock EXCEPT ![s] = d]
  BY DEF tcp_handle_packet
<1>7. buf' = IF Takes(c, seg, buf[c.owner].recv)
               THEN [buf EXCEPT ![c.owner].recv = tcp_buffer_enqueue(@, seg.bytes)] ELSE buf
  BY DEF tcp_handle_packet, Takes
<1> HIDE DEF c
<1>8. c \in TcpRec /\ SameQueue(a, c) /\ SameTalk(a, c) /\ c.whole = a.whole /\ c.outstanding = a.outstanding
  BY <1>2, <1>5 DEF TcpRec, SameQueue, SameTalk
<1>9. Heard(c) /\ Expects(c, b) /\ SegOK(c, seg) /\ c.owner = s
  <2>1. Heard(c) /\ c.owner = s
    BY <1>2, <1>8 DEF Heard, SameQueue, SameTalk
  <2>2. Expects(c, b)
    BY <1>2, <1>8 DEF Expects, SameTalk
  <2>3. c.sent = a.sent /\ c.isn = a.isn /\ c.conn = a.conn
    BY <1>8 DEF SameTalk
  <2>4. SegOK(c, seg)
    BY <1>3, <2>3, Zenon DEF SegOK
  <2>5. QED
    BY <2>1, <2>2, <2>4
<1>10. Sending(c)
  <2>1. Kept(c) <=> Kept(a)
    BY <1>8 DEF Kept, SameTalk
  <2>2. AckKnown(c) <=> AckKnown(a)
    BY <1>8 DEF AckKnown, SameTalk
  <2>3. QED
    BY <1>2, <1>8, <2>1, <2>2 DEF Sending, SameTalk
<1>11. b \in TcpBuf /\ Ring(b) /\ b = buf[c.owner].recv
  BY <1>1, <1>2, <1>9 DEF TcpType, TcpRecvInv
<1>12. y \in TcpRec /\ Answered(c, y, seg, b)
  <2>1. PICK z : z = y
    OBVIOUS
  <2>2. z \in TcpRec /\ Answered(c, z, seg, b)
    BY <1>8, <1>9, <1>11, <2>1, AnsweredAny
  <2>3. QED
    BY <2>1, <2>2
<1> HIDE DEF y
<1>13. d \in TcpRec /\ SameReceived(y, d) /\ (SendingCore(y) => Sending(d))
  BY <1>12, WindowSet
<1> HIDE DEF d
<1>14. Sending(d) /\ Heard(d) /\ SameQueue(a, d)
  BY <1>8, <1>9, <1>10, <1>12, <1>13 DEF Answered, SameReceived, Heard, SameQueue
<1>15. CASE Takes(c, seg, b)
  <2>1. PICK w : w = tcp_buffer_enqueue(b, seg.bytes)
    OBVIOUS
  <2>2. d.state = c.state /\ d.conn = c.conn /\ d.recv_seq = Plus(c.recv_seq, Len(seg.bytes))
    BY <1>12, <1>13, <1>15 DEF Answered, SameReceived
  <2>3. w \in TcpBuf /\ Ring(w) /\ Expects(d, w)
    BY <1>8, <1>9, <1>11, <1>13, <1>15, <2>1, <2>2, DataTaken
  <2>4. buf' = [buf EXCEPT ![s].recv = w]
    BY <1>7, <1>9, <1>11, <1>15, <2>1
  <2>5. /\ buf' \in [Socks -> [send : TcpBuf, recv : TcpBuf]] /\ buf'[s].recv = w
        /\ \A t \in Socks : t # s => buf'[t].recv = buf[t].recv
    <3>1. buf \in [Socks -> [send : TcpBuf, recv : TcpBuf]]
      BY <1>1 DEF TcpType
    <3> HIDE DEF TcpBuf
    <3>2. QED
      BY <1>2, <2>3, <2>4, <3>1
  <2>6. QED
    BY <1>1, <1>6, <1>13, <1>14, <2>3, <2>5, OneSocketStep DEF tcp_handle_packet
<1>16. CASE ~ Takes(c, seg, b)
  <2>1. Expects(d, b)
    BY <1>9, <1>12, <1>13, <1>16 DEF Answered, SameReceived, Expects
  <2>2. buf' = buf
    BY <1>7, <1>11, <1>16
  <2>3. QED
    BY <1>1, <1>6, <1>13, <1>14, <2>1, <2>2, OneStructureStep DEF tcp_handle_packet
<1>17. QED
  BY <1>15, <1>16

-----------------------------------------------------------------------------
(***************************************************************************)
(* The accept queue                                                        *)
(***************************************************************************)
LEMMA QueueFields ==
  ASSUME NEW c \in TcpRec
  PROVE  /\ c.queue \in [QueueSlots -> 0 .. MaxSocks] /\ c.head \in 0 .. QueueMax - 1
         /\ c.count \in 0 .. QueueMax /\ c.owner \in 0 .. MaxSocks /\ c.state \in States
         /\ c.head \in Nat /\ c.count \in Nat
<1>1. /\ c.queue \in [QueueSlots -> 0 .. MaxSocks] /\ c.head \in 0 .. QueueMax - 1
      /\ c.count \in 0 .. QueueMax /\ c.owner \in 0 .. MaxSocks /\ c.state \in States
  BY DEF TcpRec, QueueSlots
<1>2. c.head \in Nat /\ c.count \in Nat
  BY <1>1, SizesOfTcp
<1>3. QED
  BY <1>1, <1>2

LEMMA SlotIs ==
  ASSUME NEW c \in TcpRec, NEW i \in 0 .. QueueMax
  PROVE  /\ Slot(c, i) = IF c.head + i < QueueMax THEN c.head + i ELSE c.head + i - QueueMax
         /\ Slot(c, i) \in QueueSlots
<1>1. PICK n \in Nat \ {0}, h \in Nat : n = QueueMax /\ h = c.head
  BY SizesOfTcp, QueueFields
<1>2. h \in 0 .. n - 1 /\ i \in 0 .. n
  BY <1>1, QueueFields
<1>3. /\ (h + i) % n = IF h + i < n THEN h + i ELSE h + i - n
      /\ (h + i) % n \in 0 .. n - 1
  BY <1>2, Wrapped
<1>4. QED
  BY <1>1, <1>3 DEF Slot, QueueSlots

LEMMA SlotsDiffer ==
  ASSUME NEW c \in TcpRec, NEW i \in 0 .. QueueMax - 1, NEW j \in 0 .. QueueMax - 1, i # j
  PROVE  Slot(c, i) # Slot(c, j)
<1>1. PICK n \in Nat \ {0}, h \in Nat : n = QueueMax /\ h = c.head
  BY SizesOfTcp, QueueFields
<1>2. h \in 0 .. n - 1 /\ i \in 0 .. n - 1 /\ j \in 0 .. n - 1 /\ i \in 0 .. QueueMax /\ j \in 0 .. QueueMax
  BY <1>1, QueueFields
<1>3. PICK x, y : x = Slot(c, i) /\ y = Slot(c, j)
  OBVIOUS
<1>4. /\ x = IF h + i < n THEN h + i ELSE h + i - n
      /\ y = IF h + j < n THEN h + j ELSE h + j - n
  BY <1>1, <1>2, <1>3, SlotIs
<1>5. x # y
  BY <1>2, <1>4
<1>6. QED
  BY <1>3, <1>5

LEMMA EntryIsQueued ==
  ASSUME TcpType, NEW s \in Socks, NEW i \in 0 .. QueueMax
  PROVE  Entry(sock[s], i) \in Queued(s) \cup {0} /\ Entry(sock[s], i) \in 0 .. MaxSocks
<1>1. sock[s] \in TcpRec
  BY ListedAreSocks
<1>2. Slot(sock[s], i) \in QueueSlots
  BY <1>1, SlotIs
<1>3. sock[s].queue \in [QueueSlots -> 0 .. MaxSocks]
  BY <1>1, QueueFields
<1>4. QED
  BY <1>2, <1>3 DEF Entry, Queued

LEMMA ReachableAreMade ==
  ASSUME TcpType, GroupInv
  PROVE  Reachable \subseteq 1 .. made /\ \A s \in 1 .. made : Queued(s) \subseteq 1 .. made
<1>1. \A s \in 1 .. made : Queued(s) \subseteq 1 .. made
  BY DEF GroupInv
<1>2. QED
  BY <1>1, ListedAreSocks DEF Reachable

\* d is c with its first queued child taken away.
Advanced(c, d) == d = [c EXCEPT !.head = (@ + 1) % QueueMax, !.count = @ - 1]

\* The head moves on by one.
LEMMA HeadMoved ==
  ASSUME NEW c \in TcpRec, c.count > 0, NEW d, Advanced(c, d)
  PROVE  /\ d \in TcpRec /\ d.queue = c.queue /\ d.owner = c.owner /\ d.count = c.count - 1
         /\ \A i \in 0 .. QueueMax - 1 : Entry(d, i) = Entry(c, i + 1)
<1>1. PICK n \in Nat \ {0}, h \in Nat, k \in Nat : n = QueueMax /\ h = c.head /\ k = c.count
  BY SizesOfTcp, QueueFields
<1>2. h \in 0 .. n - 1 /\ k \in 0 .. n /\ k > 0 /\ 1 \in 0 .. n
  BY <1>1, QueueFields
<1>3. PICK g : g = (h + 1) % n
  OBVIOUS
<1>4. g = (IF h + 1 < n THEN h + 1 ELSE h + 1 - n) /\ g \in 0 .. n - 1
  BY <1>2, <1>3, Wrapped
<1>5. PICK gg \in QueueSlots, kk \in 0 .. QueueMax : gg = g /\ kk = k - 1
  BY <1>1, <1>2, <1>4 DEF QueueSlots
<1>6. d = [c EXCEPT !.head = gg, !.count = kk]
  BY <1>1, <1>3, <1>5 DEF Advanced
<1>7. d \in TcpRec /\ d.queue = c.queue /\ d.owner = c.owner /\ d.count = kk /\ d.head = gg
  BY <1>6, ZenonT(40) DEF TcpRec
<1>8. ASSUME NEW i \in 0 .. QueueMax - 1 PROVE Entry(d, i) = Entry(c, i + 1)
  <2>1. i \in 0 .. n - 1 /\ i \in 0 .. QueueMax /\ i + 1 \in 0 .. QueueMax
    BY <1>1
  <2>2. PICK x, y : x = Slot(d, i) /\ y = Slot(c, i + 1)
    OBVIOUS
  <2>3. x = IF g + i < n THEN g + i ELSE g + i - n
    BY <1>1, <1>5, <1>7, <2>1, <2>2, SlotIs
  <2>4. y = IF h + (i + 1) < n THEN h + (i + 1) ELSE h + (i + 1) - n
    BY <1>1, <1>7, <2>1, <2>2, SlotIs
  <2>5. x = y
    <3>1. h \in 0 .. n - 1 /\ i \in 0 .. n - 1
      BY <1>2, <2>1
    <3>2. CASE h + 1 < n
      BY <1>4, <2>3, <2>4, <3>1, <3>2
    <3>3. CASE ~ (h + 1 < n)
      BY <1>4, <2>3, <2>4, <3>1, <3>3
    <3>4. QED
      BY <3>2, <3>3
  <2>6. QED
    BY <1>7, <2>2, <2>5 DEF Entry
<1>9. QED
  BY <1>1, <1>5, <1>7, <1>8

LEMMA TcpAcceptStep ==
  ASSUME TcpInv, ~ broken, NEW s \in held, tcp_accept(s)
  PROVE  TcpInv'
<1> DEFINE c == sock[s]
           d == [c EXCEPT !.head = (@ + 1) % QueueMax, !.count = @ - 1]
           t == c.queue[c.head]
<1>1. TcpType /\ GroupInv /\ AcceptInv /\ TcpRecvInv /\ TcpSendInv /\ TcpMemInv
  BY DEF TcpInv
<1>2. /\ Listed \subseteq held /\ held \subseteq 1 .. made /\ 1 .. made \subseteq Socks /\ made \in Nat
  BY <1>1, ListedAreSocks
<1>3. s \in Socks /\ s \in 1 .. made /\ c \in TcpRec /\ c.count > 0
  BY HeldInv DEF tcp_accept
<1>4. PICK n \in Nat \ {0}, k \in 0 .. QueueMax : n = QueueMax /\ k = c.count
  BY <1>3, SizesOfTcp, QueueFields
<1>5. k \in 1 .. n /\ 0 \in 0 .. n /\ 0 \in 0 .. k - 1
  BY <1>3, <1>4
<1>6. sock' = [sock EXCEPT ![s] = d]
  BY DEF tcp_accept
<1>7. /\ d \in TcpRec /\ d.queue = c.queue /\ d.owner = c.owner /\ d.count = k - 1
      /\ \A i \in 0 .. n - 1 : Entry(d, i) = Entry(c, i + 1)
  <2>1. PICK x, e : x = c /\ e = d
    OBVIOUS
  <2>2. x \in TcpRec /\ x.count > 0 /\ Advanced(x, e)
    BY <1>3, <2>1 DEF Advanced
  <2>3. /\ e \in TcpRec /\ e.queue = x.queue /\ e.owner = x.owner /\ e.count = x.count - 1
        /\ \A i \in 0 .. QueueMax - 1 : Entry(e, i) = Entry(x, i + 1)
    BY <2>2, HeadMoved
  <2>4. QED
    BY <1>4, <2>1, <2>3
<1>8. /\ d.state = c.state /\ d.heard = c.heard /\ d.conn = c.conn /\ d.recv_seq = c.recv_seq
      /\ (Sending(c) => Sending(d))
  <2>1. SameTalk(c, d) /\ d.outstanding = c.outstanding /\ d.whole = c.whole
    BY <1>3 DEF TcpRec, SameTalk
  <2> HIDE DEF d
  <2>2. Kept(c) <=> Kept(d)
    BY <2>1 DEF Kept, SameTalk
  <2>3. AckKnown(c) <=> AckKnown(d)
    BY <2>1 DEF AckKnown, SameTalk
  <2>4. QED
    BY <2>1, <2>2, <2>3 DEF Sending, SameTalk
<1> HIDE DEF d
<1>9. /\ sock' \in [Socks -> TcpRec] /\ sock'[s] = d
      /\ \A x \in Socks : x # s => sock'[x] = sock[x]
  BY <1>1, <1>3, <1>6, <1>7, TcpOneChanged
<1>10. t = Entry(c, 0) /\ t # 0 /\ t \in Queued(s)
  <2>1. Slot(c, 0) = c.head /\ 0 \in 0 .. QueueMax
    <3>1. 0 \in 0 .. QueueMax /\ c.head \in 0 .. QueueMax - 1
      BY <1>3, <1>4, QueueFields
    <3>2. Slot(c, 0) = IF c.head + 0 < QueueMax THEN c.head + 0 ELSE c.head + 0 - QueueMax
      BY <1>3, <3>1, SlotIs
    <3>3. QED
      BY <1>4, <3>1, <3>2
  <2>2. t = Entry(c, 0)
    BY <2>1 DEF Entry
  <2>3. Entry(c, 0) # 0
    BY <1>1, <1>3, <1>4, <1>5 DEF AcceptInv, Ordered
  <2>4. QED
    BY <1>1, <1>3, <2>1, <2>2, <2>3, EntryIsQueued
<1>11. t \in 1 .. made /\ sock[t].owner = sock[s].owner /\ t \in Socks
  BY <1>1, <1>2, <1>3, <1>10 DEF GroupInv
<1>12. /\ held' = held \cup {t} /\ accepted' = Append(accepted, [by |-> s, got |-> t])
       /\ UNCHANGED <<tcp_sockets, buf, next_local_port, made, live, dropped, misread, broken>>
  BY DEF tcp_accept
<1>13. \A x \in Socks : Queued(x)' = Queued(x) /\ sock'[x].owner = sock[x].owner /\ Parts(x)' = Parts(x)
  <2>1. \A x \in Socks : sock'[x].queue = sock[x].queue /\ sock'[x].owner = sock[x].owner
    BY <1>7, <1>9
  <2>2. QED
    BY <2>1 DEF Queued, Parts
<1>14. Listed' = Listed
  BY <1>12 DEF Listed
<1> HIDE DEF t
<1>15. TcpType'
  BY <1>1, <1>9, <1>11, <1>12, <1>14 DEF TcpType
<1>16. GroupInv'
  <2>1. \A x \in 1 .. made : \A y \in Queued(x) : y \in 1 .. made
    BY <1>1 DEF GroupInv
  <2>2. QED
    <3>1. made' = made
      BY <1>12
    <3>2. \A x \in 1 .. made :
            /\ sock'[x].owner \in 1 .. made
            /\ \A y \in Queued(x)' : y \in 1 .. made /\ y # x /\ sock'[y].owner = sock'[x].owner
      BY <1>1, <1>2, <1>13, <2>1 DEF GroupInv
    <3>3. \A x \in Listed' : sock'[x].owner = x
      BY <1>1, <1>2, <1>13, <1>14 DEF GroupInv
    <3>4. QED
      BY <3>1, <3>2, <3>3 DEF GroupInv
<1>17. \A x \in Listed : Heard(sock'[x]) /\ Expects(sock'[x], buf[x].recv) /\ Sending(sock'[x])
  <2>1. TAKE x \in Listed
  <2>2. x \in Socks /\ Heard(sock[x]) /\ Expects(sock[x], buf[x].recv) /\ Sending(sock[x])
    BY <1>1, <1>2 DEF TcpRecvInv, TcpSendInv
  <2>3. CASE x # s
    BY <1>9, <2>2, <2>3
  <2>4. CASE x = s
    <3>1. Heard(d) /\ Expects(d, buf[x].recv) /\ Sending(d)
      BY <1>8, <2>2, <2>4 DEF Heard, Expects
    <3>2. QED
      BY <1>9, <2>4, <3>1
  <2>5. QED
    BY <2>3, <2>4
<1>18. TcpRecvInv' /\ TcpSendInv'
  <2>1. TcpRecvInv'
    BY <1>1, <1>12, <1>14, <1>17, Zenon DEF TcpRecvInv
  <2>2. TcpSendInv'
    BY <1>14, <1>17 DEF TcpSendInv
  <2>3. QED
    BY <2>1, <2>2
<1>19. TcpMemInv'
  <2>1. Queued(s) \subseteq Reachable /\ t \in Reachable
    BY <1>10 DEF Reachable
  <2>2. Queued(t) \subseteq Reachable
    BY <1>1, <2>1 DEF TcpMemInv
  <2>3. \A x : x \in Reachable <=> x \in held \/ \E y \in held : x \in Queued(y)
    BY <1>2 DEF Reachable
  <2>4. \A x : x \in Reachable' <=> x \in held' \/ \E y \in held' : x \in Queued(y)'
    BY <1>2, <1>12, <1>14 DEF Reachable
  <2>5. held \subseteq Socks
    BY <1>2
  <2>6. \A x : x \in Reachable' <=> x \in Reachable
    BY <1>11, <1>12, <1>13, <2>1, <2>2, <2>3, <2>4, <2>5
  <2>7. Reachable' = Reachable /\ Reachable \subseteq Socks
    BY <1>1, <1>2, <2>6, ReachableAreMade
  <2>8. Needed' = Needed
    BY <1>13, <2>7 DEF Needed
  <2>9. ASSUME NEW x \in Listed PROVE FreeSlotsHeld(sock[x])'
    <3>1. FreeSlotsHeld(sock[x]) /\ x \in Socks
      BY <1>1, <1>2 DEF TcpMemInv
    <3>2. CASE x # s
      BY <1>9, <1>12, <3>1, <3>2 DEF FreeSlotsHeld
    <3>3. CASE x = s
      <4>1. SUFFICES ASSUME NEW i \in k - 1 .. n - 1 PROVE Entry(d, i) \in held \cup {t} \cup {0}
        BY <1>4, <1>7, <1>9, <1>12, <3>3 DEF FreeSlotsHeld
      <4>2. i \in 0 .. n - 1 /\ Entry(d, i) = Entry(c, i + 1)
        BY <1>5, <1>7
      <4>3. CASE i + 1 \in k .. n - 1
        BY <1>4, <3>1, <3>3, <4>2, <4>3 DEF FreeSlotsHeld
      <4>4. CASE i + 1 = n
        <5>1. Slot(c, n) = c.head
          <6>1. n \in 0 .. QueueMax /\ c.head \in 0 .. QueueMax - 1
            BY <1>3, <1>4, QueueFields
          <6>2. Slot(c, n) = IF c.head + n < QueueMax THEN c.head + n ELSE c.head + n - QueueMax
            BY <1>3, <6>1, SlotIs
          <6>3. QED
            BY <1>4, <6>1, <6>2
        <5>2. QED
          BY <4>2, <4>4, <5>1 DEF Entry, t
      <4>5. QED
        BY <1>5, <4>2, <4>3, <4>4
    <3>4. QED
      BY <3>2, <3>3
  <2>10. \A x \in Reachable' : Queued(x)' \subseteq Reachable'
    BY <1>1, <1>13, <2>7 DEF TcpMemInv
  <2>11. Needed' \subseteq live' /\ (live' = Needed' \/ dropped')
    BY <1>1, <1>12, <2>8, Zenon DEF TcpMemInv
  <2>12. QED
    BY <1>14, <2>9, <2>10, <2>11 DEF TcpMemInv
<1>20. AcceptInv'
  <2> DEFINE A == [by : Socks, got : Socks]
             a == [by |-> s, got |-> t]
  <2>1. accepted \in Seq(A) /\ a \in A /\ a.by = s /\ a.got = t
    BY <1>1, <1>3, <1>11 DEF AcceptInv
  <2> HIDE DEF A
  <2>2. PICK l \in Nat : l = Len(accepted)
    BY <2>1, LenProperties
  <2>3. PICK q, r, w : q = accepted /\ r = accepted' /\ w = a
    OBVIOUS
  <2>4. /\ r \in Seq(A) /\ DOMAIN r = 1 .. l + 1 /\ DOMAIN q = 1 .. l
        /\ (\A i \in 1 .. l : r[i] = q[i]) /\ r[l + 1] = w
    BY <1>12, <2>1, <2>2, <2>3, QueueGrown
  <2>5. \A x \in 1 .. made : Ordered(sock'[x])
    <3>1. TAKE x \in 1 .. made
    <3>2. Ordered(sock[x])
      BY <1>1 DEF AcceptInv
    <3>3. CASE x # s
      BY <1>2, <1>9, <3>2, <3>3
    <3>4. CASE x = s
      <4>1. /\ \A i \in 0 .. k - 1 : Entry(c, i) # 0
            /\ \A i, j \in 0 .. k - 1 : i < j => Entry(c, i) < Entry(c, j)
        BY <1>4, <3>2, <3>4 DEF Ordered
      <4>2. \A i \in 0 .. d.count - 1 : i \in 0 .. n - 1 /\ i + 1 \in 0 .. k - 1
        BY <1>5, <1>7
      <4>3. \A i \in 0 .. d.count - 1 : Entry(d, i) # 0
        BY <1>7, <4>1, <4>2
      <4>4. ASSUME NEW i \in 0 .. d.count - 1, NEW j \in 0 .. d.count - 1, i < j
            PROVE  Entry(d, i) < Entry(d, j)
        BY <1>7, <4>1, <4>2, <4>4
      <4>5. Ordered(d)
        BY <4>3, <4>4 DEF Ordered
      <4>6. QED
        BY <1>9, <3>4, <4>5
    <3>5. QED
      BY <3>3, <3>4
  <2>6. \A x \in 1 .. made : sock'[x].owner = sock[x].owner
    BY <1>2, <1>13
  <2>7. \A x \in 1 .. made : x # s => sock'[x] = sock[x]
    BY <1>2, <1>9
  <2>8. \A j \in 1 .. l :
          /\ q[j].by \in 1 .. made /\ q[j].got \in 1 .. made
          /\ sock[q[j].got].owner = sock[q[j].by].owner
          /\ \A i \in 1 .. l : i < j /\ q[i].by = q[j].by => q[i].got < q[j].got
          /\ \A i \in 0 .. sock[q[j].by].count - 1 : q[j].got < Entry(sock[q[j].by], i)
    BY <1>1, <2>3, <2>4 DEF AcceptInv
  <2>9. \A j \in 1 .. l : q[j].by = s => q[j].got < t
    BY <1>4, <1>5, <1>10, <2>8
  <2>10. \A j \in 1 .. l + 1 : j \in 1 .. l \/ j = l + 1
    OBVIOUS
  <2>11. ASSUME NEW j \in 1 .. l + 1
         PROVE  /\ r[j].by \in 1 .. made /\ r[j].got \in 1 .. made
                /\ sock'[r[j].got].owner = sock'[r[j].by].owner
    <3>1. CASE j \in 1 .. l
      <4>1. r[j] = q[j] /\ q[j].by \in 1 .. made /\ q[j].got \in 1 .. made
        BY <2>4, <2>8, <3>1
      <4>2. sock[q[j].got].owner = sock[q[j].by].owner
        BY <2>8, <3>1
      <4>3. QED
        BY <2>6, <4>1, <4>2
    <3>2. CASE j = l + 1
      <4>1. r[j].by = s /\ r[j].got = t
        BY <2>1, <2>3, <2>4, <3>2
      <4>2. QED
        BY <1>3, <1>11, <2>6, <4>1
    <3>3. QED
      BY <2>10, <3>1, <3>2
  <2>12. ASSUME NEW j \in 1 .. l + 1, NEW i \in 1 .. l + 1, i < j, r[i].by = r[j].by
         PROVE  r[i].got < r[j].got
    <3>1. i \in 1 .. l /\ r[i] = q[i]
      BY <2>4, <2>12
    <3>2. CASE j \in 1 .. l
      BY <2>4, <2>8, <2>12, <3>1, <3>2
    <3>3. CASE j = l + 1
      BY <2>1, <2>3, <2>4, <2>9, <2>12, <3>1, <3>3
    <3>4. QED
      BY <2>10, <3>2, <3>3
  <2>13. ASSUME NEW j \in 1 .. l + 1, NEW i \in 0 .. sock'[r[j].by].count - 1
         PROVE  r[j].got < Entry(sock'[r[j].by], i)
    <3>1. r[j].by \in 1 .. made
      BY <2>11
    <3>2. CASE r[j].by # s
      <4>1. j \in 1 .. l /\ r[j] = q[j] /\ sock'[r[j].by] = sock[q[j].by]
        BY <2>1, <2>3, <2>4, <2>7, <2>10, <3>1, <3>2
      <4>2. QED
        BY <2>8, <2>13, <4>1
    <3>3. CASE r[j].by = s
      <4>1. i \in 0 .. k - 1 - 1
        BY <1>7, <1>9, <2>13, <3>3
      <4>2. i \in 0 .. n - 1 /\ i + 1 \in 0 .. k - 1 /\ 0 < i + 1
        BY <1>5, <4>1
      <4>3. Entry(sock'[r[j].by], i) = Entry(c, i + 1)
        BY <1>7, <1>9, <3>3, <4>2
      <4>4. CASE j \in 1 .. l
        BY <1>4, <2>4, <2>8, <3>3, <4>2, <4>3, <4>4
      <4>5. CASE j = l + 1
        <5>1. Entry(c, 0) < Entry(c, i + 1)
          BY <1>1, <1>3, <1>4, <1>5, <4>2 DEF AcceptInv, Ordered
        <5>2. QED
          BY <1>10, <2>1, <2>3, <2>4, <4>3, <4>5, <5>1
      <4>6. QED
        BY <2>10, <4>4, <4>5
    <3>4. QED
      BY <3>2, <3>3
  <2>14. QED
    BY <1>12, <2>3, <2>4, <2>5, <2>11, <2>12, <2>13 DEF AcceptInv, A
<1>21. QED
  BY <1>15, <1>16, <1>18, <1>19, <1>20 DEF TcpInv

-----------------------------------------------------------------------------
(***************************************************************************)
(* tcp_socket and tcp_close                                                *)
(***************************************************************************)
LEMMA NewSocketFields ==
  ASSUME NEW o \in 0 .. MaxSocks, NEW port \in Nat, NEW isn \in 0 .. SeqSpace - 1, NEW d,
         d = NewSocket(o, port, isn)
  PROVE  /\ d \in TcpRec /\ d.owner = o /\ d.count = 0 /\ d.conn = 0 /\ d.state = "CLOSED"
         /\ (\A i \in QueueSlots : d.queue[i] = 0) /\ Sending(d)
<1>1. /\ SeqSpace \in Nat \ {0} /\ Mss \in Nat \ {0} /\ MaxOut \in Nat /\ QueueMax \in Nat \ {0}
      /\ MaxSocks \in Nat /\ FirstWindow \in Nat /\ FirstWindow + Mss <= SeqSpace
  BY SizesOfTcp, TcpAssumption
<1>2. PICK z \in 0 .. SeqSpace - 1, h \in QueueSlots, k \in 0 .. QueueMax, q \in [QueueSlots -> 0 .. MaxSocks] :
        z = 0 /\ h = 0 /\ k = 0 /\ q = [i \in QueueSlots |-> 0]
  <2>1. 0 \in 0 .. SeqSpace - 1 /\ 0 \in QueueSlots /\ 0 \in 0 .. QueueMax /\ 0 \in 0 .. MaxSocks
    BY <1>1 DEF QueueSlots
  <2>2. [i \in QueueSlots |-> 0] \in [QueueSlots -> 0 .. MaxSocks]
    BY <2>1
  <2>3. QED
    BY <2>1, <2>2
<1>3. d = [port |-> port, remote |-> 0, state |-> "CLOSED", type |-> "ACTIVE",
           send_seq |-> z, recv_seq |-> z, send_ack |-> z, window |-> FirstWindow,
           outstanding |-> {}, queue |-> q, head |-> h, count |-> k,
           owner |-> o, isn |-> isn, conn |-> 0, sent |-> 0, acked |-> 0,
           offered |-> FirstWindow, whole |-> TRUE, heard |-> FALSE]
  BY <1>2 DEF NewSocket
<1>4. d \in TcpRec
  BY <1>1, <1>3 DEF TcpRec, States
<1>5. d.owner = o /\ d.count = 0 /\ d.conn = 0 /\ d.state = "CLOSED" /\ d.queue = q
  BY <1>2, <1>3
<1>6. d.sent = 0 /\ d.acked = 0 /\ d.offered = FirstWindow
  BY <1>3
<1>7. Sending(d)
  BY <1>1, <1>5, <1>6 DEF Sending
<1>8. \A i \in QueueSlots : d.queue[i] = 0
  BY <1>2, <1>5
<1>9. QED
  BY <1>2, <1>4, <1>5, <1>7, <1>8

LEMMA EmptyRing ==
  EmptyBuffer \in TcpBuf /\ Ring(EmptyBuffer) /\ Newest(EmptyBuffer) = <<0, 0>>
<1>1. PICK n \in Nat \ {0} : n = BufSize
  BY SizesOfTcp
<1>2. (0 + 0) % n = 0
  <2>1. 0 \in 0 .. n - 1 /\ 0 \in 0 .. n
    OBVIOUS
  <2>2. (0 + 0) % n = IF 0 + 0 < n THEN 0 + 0 ELSE 0 + 0 - n
    BY <2>1, Wrapped
  <2>3. QED
    BY <2>2
<1>3. PICK z \in 0 .. n - 1, u \in 0 .. n, data \in [0 .. n - 1 -> Byte], e \in Byte :
        z = 0 /\ u = 0 /\ data = [i \in 0 .. n - 1 |-> <<0, 0>>] /\ e = <<0, 0>>
  <2>1. 0 \in 0 .. n - 1 /\ 0 \in 0 .. n /\ <<0, 0>> \in Byte
    BY DEF Byte
  <2>2. [i \in 0 .. n - 1 |-> <<0, 0>>] \in [0 .. n - 1 -> Byte]
    BY <2>1
  <2>3. QED
    BY <2>1, <2>2
<1>4. EmptyBuffer = [data |-> data, head |-> z, tail |-> z, used |-> u, last |-> e]
  BY <1>1, <1>3 DEF EmptyBuffer
<1>5. EmptyBuffer \in TcpBuf
  BY <1>1, <1>4 DEF TcpBuf
<1>6. /\ EmptyBuffer.head = 0 /\ EmptyBuffer.tail = 0 /\ EmptyBuffer.used = 0
      /\ EmptyBuffer.last = <<0, 0>>
  BY <1>3, <1>4
<1>7. Ring(EmptyBuffer)
  BY <1>1, <1>2, <1>6 DEF Ring
<1>8. Newest(EmptyBuffer) = <<0, 0>>
  BY <1>6 DEF Newest
<1>9. QED
  BY <1>5, <1>7, <1>8

LEMMA TcpSocketStep ==
  ASSUME TcpInv, ~ broken, NEW missing \in SUBSET Blocks(made + 1), NEW isn \in ISN,
         tcp_socket(missing, isn)
  PROVE  TcpInv'
<1>0. PICK s : s = made + 1
  OBVIOUS
<1> DEFINE d == NewSocket(s, next_local_port, isn)
<1>1. TcpType /\ GroupInv /\ AcceptInv /\ TcpRecvInv /\ TcpSendInv /\ TcpMemInv
  BY DEF TcpInv
<1>2. /\ Listed \subseteq held /\ held \subseteq 1 .. made /\ 1 .. made \subseteq Socks
      /\ made \in Nat /\ MaxSocks \in Nat /\ made < MaxSocks
  BY <1>1, ListedAreSocks DEF tcp_socket
<1>3. s \in Socks /\ s \notin 1 .. made /\ s \in 0 .. MaxSocks /\ s > made /\ 1 .. s = 1 .. made \cup {s}
  BY <1>0, <1>2 DEF Socks
<1>4. PICK port \in Nat, i0 \in 0 .. SeqSpace - 1 : port = next_local_port /\ i0 = isn
  <2>1. next_local_port \in Nat
    BY <1>1, SizesOfTcp DEF TcpType
  <2>2. isn \in 0 .. SeqSpace - 1
    BY TcpAssumption
  <2>3. QED
    BY <2>1, <2>2
<1>5. /\ d \in TcpRec /\ d.owner = s /\ d.count = 0 /\ d.conn = 0 /\ d.state = "CLOSED"
      /\ (\A i \in QueueSlots : d.queue[i] = 0) /\ Sending(d)
  <2>1. PICK x, e : x = s /\ e = NewSocket(x, port, i0)
    OBVIOUS
  <2>2. /\ e \in TcpRec /\ e.owner = x /\ e.count = 0 /\ e.conn = 0 /\ e.state = "CLOSED"
        /\ (\A i \in QueueSlots : e.queue[i] = 0) /\ Sending(e)
    BY <1>3, <2>1, NewSocketFields
  <2>3. e = d
    BY <1>4, <2>1
  <2>4. QED
    BY <2>1, <2>2, <2>3
<1>6. /\ sock' = [sock EXCEPT ![s] = d] /\ made' = s
      /\ UNCHANGED <<buf, accepted, dropped, misread, broken>>
  BY <1>0 DEF tcp_socket
<1>7. next_local_port' \in 0 .. PortSpace - 1
  <2>1. PICK p \in Nat : p = next_local_port + 1
    BY <1>4
  <2>2. p % PortSpace \in 0 .. PortSpace - 1
    BY SizesOfTcp, Division
  <2>3. QED
    BY <2>1, <2>2 DEF tcp_socket
<1>8. \/ live' = live \cup Blocks(s) /\ tcp_sockets' = <<s>> \o tcp_sockets /\ held' = held \cup {s}
      \/ live' = live /\ tcp_sockets' = tcp_sockets /\ held' = held
  <2>1. CASE missing = {}
    BY <1>0, <2>1 DEF tcp_socket
  <2>2. CASE missing # {}
    BY <1>0, <2>2 DEF tcp_socket, AfterCleanup
  <2>3. QED
    BY <2>1, <2>2
<1> HIDE DEF d
<1>9. /\ sock' \in [Socks -> TcpRec] /\ sock'[s] = d
      /\ \A t \in Socks : t # s => sock'[t] = sock[t]
  BY <1>1, <1>3, <1>5, <1>6, TcpOneChanged
<1>10. \A t \in 1 .. made : t # s /\ sock'[t] = sock[t] /\ Queued(t)' = Queued(t) /\ Parts(t)' = Parts(t)
  <2>1. \A t \in 1 .. made : t # s /\ sock'[t] = sock[t]
    BY <1>2, <1>3, <1>9
  <2>2. QED
    BY <2>1 DEF Queued, Parts
<1>11. Queued(s)' = {} /\ Parts(s)' = Blocks(s)
  <2>1. \A i \in QueueSlots : sock'[s].queue[i] = 0
    BY <1>5, <1>9
  <2>2. sock'[s].owner = s
    BY <1>5, <1>9
  <2>3. QED
    BY <2>1, <2>2 DEF Queued, Parts, Blocks
<1>12. /\ tcp_sockets' \in Seq(Socks) /\ Distinct(tcp_sockets')
       /\ \/ Listed' = Listed \cup {s} /\ held' = held \cup {s} /\ live' = live \cup Blocks(s)
          \/ Listed' = Listed /\ held' = held /\ live' = live
  <2>1. tcp_sockets \in Seq(Socks) /\ Distinct(tcp_sockets)
    BY <1>1 DEF TcpType
  <2>2. CASE live' = live \cup Blocks(s) /\ tcp_sockets' = <<s>> \o tcp_sockets /\ held' = held \cup {s}
    <3>1. PICK q, r, x : q = tcp_sockets /\ r = tcp_sockets' /\ x = s
      OBVIOUS
    <3>2. q \in Seq(Socks) /\ Distinct(q) /\ x \in Socks /\ r = <<x>> \o q
      BY <1>3, <2>1, <2>2, <3>1
    <3>3. r \in Seq(Socks) /\ \A y : y \in Range(r) <=> y \in Range(q) \/ y = x
      BY <3>2, PutInFront, FrontElements, ZenonT(40)
    <3>4. x \notin Range(q)
      BY <1>2, <1>3, <3>1 DEF Listed
    <3>5. Distinct(r)
      BY <3>2, <3>4, FrontDistinct
    <3>6. Listed' = Listed \cup {s}
      BY <3>1, <3>3 DEF Listed
    <3>7. QED
      BY <2>2, <3>1, <3>3, <3>5, <3>6
  <2>3. CASE live' = live /\ tcp_sockets' = tcp_sockets /\ held' = held
    BY <2>1, <2>3 DEF Listed
  <2>4. QED
    BY <1>8, <2>2, <2>3
<1>13. Listed' \subseteq Listed \cup {s} /\ Listed' \subseteq held'
  BY <1>2, <1>12
<1>14. TcpType'
  <2>1. held' \subseteq 1 .. made' /\ made' \in 0 .. MaxSocks
    BY <1>2, <1>3, <1>6, <1>12
  <2>2. QED
    BY <1>1, <1>6, <1>7, <1>9, <1>12, <1>13, <2>1 DEF TcpType
<1>15. GroupInv'
  <2>1. \A x \in 1 .. made : x \in 1 .. made'
    BY <1>3, <1>6
  <2>2. ASSUME NEW x \in 1 .. made
        PROVE  /\ sock'[x].owner \in 1 .. made'
               /\ \A t \in Queued(x)' : t \in 1 .. made' /\ t # x /\ sock'[t].owner = sock'[x].owner
    BY <1>1, <1>10, <2>1 DEF GroupInv
  <2>3. sock'[s].owner = s /\ s \in 1 .. made' /\ Queued(s)' = {}
    BY <1>2, <1>3, <1>5, <1>6, <1>9, <1>11
  <2>4. \A x \in 1 .. made' : x \in 1 .. made \/ x = s
    BY <1>3, <1>6
  <2>5. \A x \in Listed' : sock'[x].owner = x
    BY <1>1, <1>2, <1>10, <1>13, <2>3 DEF GroupInv
  <2>6. QED
    BY <2>2, <2>3, <2>4, <2>5 DEF GroupInv
<1>16. AcceptInv'
  <2>1. Ordered(sock'[s])
    BY <1>5, <1>9 DEF Ordered
  <2>2. \A x \in 1 .. made' : Ordered(sock'[x])
    BY <1>1, <1>3, <1>6, <1>10, <2>1 DEF AcceptInv
  <2>3. \A j \in DOMAIN accepted : /\ accepted[j].by \in 1 .. made /\ accepted[j].got \in 1 .. made
                                   /\ accepted[j].by \in 1 .. made' /\ accepted[j].got \in 1 .. made'
    BY <1>1, <1>3, <1>6 DEF AcceptInv
  <2>4. \A j \in DOMAIN accepted : /\ sock'[accepted[j].by] = sock[accepted[j].by]
                                   /\ sock'[accepted[j].got] = sock[accepted[j].got]
    BY <1>10, <2>3
  <2>5. \A j \in DOMAIN accepted : sock'[accepted[j].got].owner = sock'[accepted[j].by].owner
    BY <1>1, <2>4, Zenon DEF AcceptInv
  <2>6. ASSUME NEW j \in DOMAIN accepted, NEW i \in 0 .. sock'[accepted[j].by].count - 1
        PROVE  accepted[j].got < Entry(sock'[accepted[j].by], i)
    <3>1. i \in 0 .. sock[accepted[j].by].count - 1
      BY <2>4, Zenon
    <3>2. accepted[j].got < Entry(sock[accepted[j].by], i)
      BY <1>1, <3>1, Zenon DEF AcceptInv
    <3>3. QED
      BY <2>4, <3>2, Zenon
  <2>7. /\ accepted \in Seq([by : Socks, got : Socks])
        /\ \A j \in DOMAIN accepted : \A i \in DOMAIN accepted :
             i < j /\ accepted[i].by = accepted[j].by => accepted[i].got < accepted[j].got
    BY <1>1, Zenon DEF AcceptInv
  <2>8. accepted' = accepted
    BY <1>6
  <2>9. QED
    BY <2>2, <2>3, <2>5, <2>6, <2>7, <2>8, Zenon DEF AcceptInv
<1>17. ASSUME NEW x \in Listed'
       PROVE  Heard(sock'[x]) /\ Expects(sock'[x], buf[x].recv) /\ Sending(sock'[x])
  <2>1. CASE x \in Listed
    <3>1. Heard(sock[x]) /\ Expects(sock[x], buf[x].recv) /\ Sending(sock[x])
      BY <1>1, <2>1 DEF TcpRecvInv, TcpSendInv
    <3>2. QED
      BY <1>2, <1>10, <2>1, <3>1
  <2>2. CASE x = s
    <3>1. buf[s].recv = EmptyBuffer
      BY <1>1, <1>3 DEF TcpRecvInv
    <3>2. Heard(d)
      BY <1>5 DEF Heard
    <3>3. Expects(d, EmptyBuffer)
      BY <1>5, EmptyRing DEF Expects
    <3>4. QED
      BY <1>5, <1>9, <2>2, <3>1, <3>2, <3>3
  <2>3. QED
    BY <1>13, <2>1, <2>2
<1>18. TcpSendInv'
  BY <1>17 DEF TcpSendInv
<1>19. TcpRecvInv'
  <2>1. \A t \in Socks : t > made' => t > made
    BY <1>2, <1>3, <1>6 DEF Socks
  <2>2. ~ misread' /\ \A t \in Socks : Ring(buf'[t].recv)
    BY <1>1, <1>6 DEF TcpRecvInv
  <2>3. \A t \in Socks : t > made' => buf'[t].recv = EmptyBuffer
    BY <1>1, <1>6, <2>1 DEF TcpRecvInv
  <2>4. QED
    BY <1>6, <1>17, <2>2, <2>3, Zenon DEF TcpRecvInv
<1>20. TcpMemInv'
  <2>1. Reachable \subseteq 1 .. made /\ held \subseteq Reachable
    BY <1>1, ReachableAreMade DEF Reachable
  <2>2. \A x : x \in Reachable <=> x \in held \/ \E y \in held : x \in Queued(y)
    BY <1>2 DEF Reachable
  <2>3. \A x : x \in Reachable' <=> x \in held' \/ \E y \in held' : x \in Queued(y)'
    BY <1>13 DEF Reachable
  <2>4. \A t \in Listed : FreeSlotsHeld(sock[t]) /\ FreeSlotsHeld(sock'[t])
    BY <1>1, <1>2, <1>10 DEF TcpMemInv
  <2>5. held \subseteq held'
    BY <1>12
  <2>6. \A t \in Listed : FreeSlotsHeld(sock[t])'
    BY <2>4, <2>5 DEF FreeSlotsHeld
  <2>7. FreeSlotsHeld(sock[s])'
    <3>1. SUFFICES ASSUME NEW i \in 0 .. QueueMax - 1 PROVE Entry(d, i) = 0
      BY <1>5, <1>9 DEF FreeSlotsHeld
    <3>2. i \in 0 .. QueueMax
      BY SizesOfTcp
    <3>3. Slot(d, i) \in QueueSlots
      BY <1>5, <3>2, SlotIs
    <3>4. QED
      BY <1>5, <3>3 DEF Entry
  <2>8. \A t \in Listed' : FreeSlotsHeld(sock[t])'
    BY <1>13, <2>6, <2>7
  <2>9. CASE held' = held /\ live' = live
    <3>1. \A x : x \in Reachable' <=> x \in Reachable
      BY <1>2, <1>10, <2>2, <2>3, <2>9
    <3>2. Reachable' = Reachable
      BY <3>1
    <3>3. Needed' = Needed
      BY <1>10, <2>1, <3>2 DEF Needed
    <3>4. \A x \in Reachable' : Queued(x)' \subseteq Reachable'
      BY <1>1, <1>10, <2>1, <3>2 DEF TcpMemInv
    <3>5. Needed' \subseteq live' /\ (live' = Needed' \/ dropped')
      BY <1>1, <1>6, <2>9, <3>3, Zenon DEF TcpMemInv
    <3>6. QED
      BY <2>8, <3>4, <3>5 DEF TcpMemInv
  <2>10. CASE held' = held \cup {s} /\ live' = live \cup Blocks(s)
    <3>1. \A x : x \in Reachable' <=> x \in Reachable \/ x = s
      BY <1>2, <1>10, <1>11, <2>2, <2>3, <2>10
    <3>2. Reachable' = Reachable \cup {s}
      BY <3>1
    <3>3. \A p : p \in Needed <=> \E x \in Reachable : p \in Parts(x)
      BY DEF Needed
    <3>4. \A p : p \in Needed' <=> \E x \in Reachable' : p \in Parts(x)'
      BY DEF Needed
    <3>5. \A p : p \in Needed' <=> p \in Needed \/ p \in Blocks(s)
      <4>1. \A x \in Reachable : Parts(x)' = Parts(x) /\ x \in Reachable'
        BY <1>10, <2>1, <3>2
      <4>2. ASSUME NEW p, p \in Needed' PROVE p \in Needed \/ p \in Blocks(s)
        <5>1. PICK x \in Reachable' : p \in Parts(x)'
          BY <3>4, <4>2
        <5>2. CASE x \in Reachable
          BY <3>3, <4>1, <5>1, <5>2
        <5>3. CASE x = s
          BY <1>11, <5>1, <5>3
        <5>4. QED
          BY <3>2, <5>2, <5>3
      <4>3. ASSUME NEW p, p \in Needed PROVE p \in Needed'
        BY <3>3, <3>4, <4>1, <4>3
      <4>4. s \in Reachable'
        BY <3>2
      <4>5. QED
        BY <1>11, <3>4, <4>2, <4>3, <4>4
    <3>6. Needed' = Needed \cup Blocks(s)
      BY <3>5
    <3>7. \A x \in Reachable' : Queued(x)' \subseteq Reachable'
      <4>1. TAKE x \in Reachable'
      <4>2. CASE x = s
        BY <1>11, <4>2
      <4>3. CASE x \in Reachable
        BY <1>1, <1>10, <2>1, <3>2, <4>3 DEF TcpMemInv
      <4>4. QED
        BY <3>2, <4>2, <4>3
    <3>8. Needed \subseteq live /\ (live = Needed \/ dropped)
      BY <1>1 DEF TcpMemInv
    <3>9. Needed' \subseteq live' /\ (live' = Needed' \/ dropped')
      BY <1>6, <2>10, <3>6, <3>8, Zenon
    <3>10. QED
      BY <2>8, <3>7, <3>9 DEF TcpMemInv
  <2>11. QED
    BY <1>12, <2>9, <2>10
<1>21. QED
  BY <1>14, <1>15, <1>16, <1>18, <1>19, <1>20 DEF TcpInv

LEMMA TcpCloseStep ==
  ASSUME TcpInv, ~ broken, NEW s \in held, tcp_close(s)
  PROVE  TcpInv'
<1> DEFINE c == sock[s]
           d == [NewSocket(c.owner, 0, 0) EXCEPT
                   !.state = IF c.state = "ESTABLISHED" THEN "FIN_WAIT_1" ELSE c.state]
<1>1. TcpType /\ GroupInv /\ AcceptInv /\ TcpRecvInv /\ TcpSendInv /\ TcpMemInv
  BY DEF TcpInv
<1>2. /\ Listed \subseteq held /\ held \subseteq 1 .. made /\ 1 .. made \subseteq Socks /\ made \in Nat
  BY <1>1, ListedAreSocks
<1>3. s \in Socks /\ s \in 1 .. made /\ c \in TcpRec /\ c.state \in States
  BY HeldInv, QueueFields
<1>4. PICK o : o = c.owner
  OBVIOUS
<1>5. o \in 1 .. made /\ o \in Socks /\ o \in 0 .. MaxSocks
  BY <1>1, <1>2, <1>3, <1>4, QueueFields DEF GroupInv
<1>6. d \in TcpRec /\ d.owner = o /\ d.count = 0 /\ \A i \in QueueSlots : d.queue[i] = 0
  <2>0. PICK st \in States : st = IF c.state = "ESTABLISHED" THEN "FIN_WAIT_1" ELSE c.state
    <3>1. "FIN_WAIT_1" \in States
      BY DEF States
    <3>2. QED
      BY <1>3, <3>1
  <2>1. PICK e : e = NewSocket(o, 0, 0)
    OBVIOUS
  <2>2. 0 \in Nat /\ 0 \in 0 .. SeqSpace - 1
    BY SizesOfTcp
  <2>3. e \in TcpRec /\ e.owner = o /\ e.count = 0 /\ \A i \in QueueSlots : e.queue[i] = 0
    BY <1>5, <2>1, <2>2, NewSocketFields
  <2>4. d = [e EXCEPT !.state = st]
    BY <1>4, <2>0, <2>1
  <2> HIDE DEF d
  <2>5. d \in TcpRec /\ d.owner = e.owner /\ d.count = e.count /\ d.queue = e.queue
    BY <2>3, <2>4 DEF TcpRec
  <2>6. QED
    BY <2>3, <2>5
<1>7. /\ sock' = [sock EXCEPT ![s] = d] /\ broken' = SharesItsBuffers(s)
      /\ held' = held \ {s} /\ live' = live \ Parts(s)
      /\ buf' = [buf EXCEPT ![o] = [send |-> EmptyBuffer, recv |-> EmptyBuffer]]
      /\ UNCHANGED <<next_local_port, made, accepted, dropped, misread>>
  BY <1>4 DEF tcp_close, FreedByCleanup
<1> HIDE DEF d
<1>8. /\ sock' \in [Socks -> TcpRec] /\ sock'[s] = d
      /\ \A x \in Socks : x # s => sock'[x] = sock[x]
  BY <1>1, <1>3, <1>6, <1>7, TcpOneChanged
<1>9. tcp_sockets' \in Seq(Socks) /\ Distinct(tcp_sockets') /\ Listed' = Listed \ {s}
  <2>1. tcp_sockets \in Seq(Socks) /\ Distinct(tcp_sockets)
    BY <1>1 DEF TcpType
  <2>2. CASE s \in Listed
    <3>1. PICK i \in DOMAIN tcp_sockets :
            tcp_sockets[i] = s /\ tcp_sockets' = RemoveAt(tcp_sockets, i)
      BY <2>2 DEF tcp_close
    <3>2. PICK q, r : q = tcp_sockets /\ r = tcp_sockets'
      OBVIOUS
    <3>3. q \in Seq(Socks) /\ Distinct(q) /\ i \in DOMAIN q /\ r = RemoveAt(q, i) /\ q[i] = s
      BY <2>1, <3>1, <3>2
    <3>4. r \in Seq(Socks) /\ Range(r) = Range(q) \ {s} /\ Distinct(r)
      BY <3>3, TakenOut
    <3>5. QED
      BY <3>2, <3>4 DEF Listed
  <2>3. CASE s \notin Listed
    <3>1. tcp_sockets' = tcp_sockets
      BY <2>3 DEF tcp_close
    <3>2. QED
      BY <2>1, <2>3, <3>1 DEF Listed
  <2>4. QED
    BY <2>2, <2>3
<1>10. \A x \in Socks : x # s => Queued(x)' = Queued(x)
  BY <1>8 DEF Queued
<1>11. Queued(s)' = {}
  BY <1>6, <1>8 DEF Queued
<1>12. \A x \in Socks : sock'[x].owner = sock[x].owner /\ Parts(x)' = Parts(x)
  <2>1. \A x \in Socks : sock'[x].owner = sock[x].owner
    BY <1>4, <1>6, <1>8
  <2>2. QED
    BY <2>1 DEF Parts
<1>13. /\ buf' \in [Socks -> [send : TcpBuf, recv : TcpBuf]] /\ buf'[o].recv = EmptyBuffer
       /\ \A x \in Socks : x # o => buf'[x] = buf[x]
  <2>1. buf \in [Socks -> [send : TcpBuf, recv : TcpBuf]]
    BY <1>1 DEF TcpType
  <2>2. EmptyBuffer \in TcpBuf
    BY EmptyRing
  <2>3. PICK e \in [send : TcpBuf, recv : TcpBuf] : e = [send |-> EmptyBuffer, recv |-> EmptyBuffer]
    BY <2>2
  <2>4. e.recv = EmptyBuffer /\ buf' = [buf EXCEPT ![o] = e]
    BY <1>7, <2>3
  <2> HIDE DEF TcpBuf, EmptyBuffer
  <2>5. QED
    BY <1>5, <2>1, <2>4
<1>14. TcpType'
  BY <1>1, <1>2, <1>7, <1>8, <1>9, <1>13 DEF TcpType
<1>15. GroupInv'
  <2>1. ASSUME NEW x \in 1 .. made
        PROVE  /\ sock'[x].owner \in 1 .. made
               /\ \A t \in Queued(x)' : t \in 1 .. made /\ t # x /\ sock'[t].owner = sock'[x].owner
    <3>1. x \in Socks /\ sock'[x].owner = sock[x].owner /\ sock[x].owner \in 1 .. made
      BY <1>1, <1>2, <1>12 DEF GroupInv
    <3>2. CASE x = s
      BY <1>11, <3>1, <3>2
    <3>3. CASE x # s
      <4>1. \A t \in Queued(x) : t \in 1 .. made /\ t # x /\ sock[t].owner = sock[x].owner
        BY <1>1 DEF GroupInv
      <4>2. QED
        BY <1>2, <1>10, <1>12, <3>1, <3>3, <4>1
    <3>4. QED
      BY <3>2, <3>3
  <2>2. \A x \in Listed' : sock'[x].owner = x
    BY <1>1, <1>2, <1>9, <1>12 DEF GroupInv
  <2>3. QED
    BY <1>7, <2>1, <2>2 DEF GroupInv
<1>16. AcceptInv'
  <2>1. Ordered(d) /\ d.count = 0
    BY <1>6 DEF Ordered
  <2>2. \A x \in 1 .. made : Ordered(sock'[x])
    BY <1>1, <1>2, <1>8, <2>1 DEF AcceptInv
  <2>3. \A j \in DOMAIN accepted : accepted[j].by \in Socks /\ accepted[j].got \in Socks
    BY <1>1, <1>2 DEF AcceptInv
  <2>4. \A j \in DOMAIN accepted : sock'[accepted[j].got].owner = sock'[accepted[j].by].owner
    BY <1>1, <1>12, <2>3 DEF AcceptInv
  <2>5. ASSUME NEW j \in DOMAIN accepted, NEW i \in 0 .. sock'[accepted[j].by].count - 1
        PROVE  accepted[j].got < Entry(sock'[accepted[j].by], i)
    <3>1. accepted[j].by # s
      BY <1>8, <2>1, <2>5
    <3>2. sock'[accepted[j].by] = sock[accepted[j].by]
      BY <1>8, <2>3, <3>1
    <3>3. QED
      BY <1>1, <2>5, <3>2 DEF AcceptInv
  <2>6. QED
    BY <1>1, <1>7, <2>2, <2>4, <2>5 DEF AcceptInv
<1>17. \A x \in Listed' : x \in Listed /\ x # s /\ sock'[x] = sock[x]
  BY <1>2, <1>8, <1>9
<1>18. TcpSendInv'
  BY <1>1, <1>17 DEF TcpSendInv
<1>19. Listed \subseteq Reachable /\ held \subseteq Reachable /\ s \in Reachable
  BY DEF Reachable
<1>20. TcpRecvInv'
  <2>1. \A x \in Socks : Ring(buf'[x].recv)
    BY <1>1, <1>13, EmptyRing DEF TcpRecvInv
  <2>2. \A x \in Socks : x > made => buf'[x].recv = EmptyBuffer
    BY <1>1, <1>13 DEF TcpRecvInv
  <2>3. \A x \in Listed' : Heard(sock'[x])
    BY <1>1, <1>17 DEF TcpRecvInv
  <2>4. ASSUME ~ SharesItsBuffers(s), NEW x \in Listed' PROVE Expects(sock'[x], buf'[x].recv)
    <3>1. x \in Listed /\ x # s /\ sock'[x] = sock[x] /\ x \in Socks /\ sock[x].owner = x
      BY <1>1, <1>2, <1>17 DEF GroupInv
    <3>2. x # o
      BY <1>4, <1>19, <2>4, <3>1 DEF SharesItsBuffers
    <3>3. QED
      BY <1>1, <1>13, <3>1, <3>2 DEF TcpRecvInv
  <2>5. ~ misread'
    BY <1>1, <1>7 DEF TcpRecvInv
  <2>6. broken' = SharesItsBuffers(s) /\ made' = made
    BY <1>7
  <2>7. QED
    BY <2>1, <2>2, <2>3, <2>4, <2>5, <2>6, Zenon DEF TcpRecvInv
<1>21. ASSUME ~ SharesItsBuffers(s) PROVE TcpMemInv'
  <2>1. Reachable \subseteq 1 .. made /\ Reachable \subseteq Socks
    BY <1>1, <1>2, ReachableAreMade
  <2>2. \A x \in Reachable : x # s => sock[x].owner # o
    BY <1>4, <1>21 DEF SharesItsBuffers
  <2>3. \A x \in Reachable : \A t \in Queued(x) : t \in Reachable /\ t # x /\ sock[t].owner = sock[x].owner
    BY <1>1, <2>1 DEF TcpMemInv, GroupInv
  <2>4. Queued(s) = {}
    BY <1>4, <1>19, <2>2, <2>3
  <2>5. \A x \in Reachable : s \notin Queued(x)
    BY <1>4, <2>2, <2>3
  <2>6. \A x : x \in Reachable <=> x \in held \/ \E y \in held : x \in Queued(y)
    BY <1>2 DEF Reachable
  <2>7. \A x : x \in Reachable' <=> x \in held' \/ \E y \in held' : x \in Queued(y)'
    BY <1>2, <1>7, <1>9 DEF Reachable
  <2>8. \A y \in held' : y \in held /\ y # s /\ y \in Reachable /\ Queued(y)' = Queued(y)
    BY <1>2, <1>7, <1>10, <1>19
  <2>9. \A x : x \in Reachable' <=> x \in Reachable /\ x # s
    <3>1. ASSUME NEW x, x \in Reachable' PROVE x \in Reachable /\ x # s
      BY <2>5, <2>6, <2>7, <2>8, <3>1
    <3>2. ASSUME NEW x, x \in Reachable, x # s PROVE x \in Reachable'
      <4>1. \A y \in held : y # s => y \in held'
        BY <1>7
      <4>2. QED
        BY <2>4, <2>6, <2>7, <2>8, <3>2, <4>1
    <3>3. QED
      BY <3>1, <3>2
  <2>10. \A x \in Reachable' : Queued(x)' \subseteq Reachable'
    <3>1. TAKE x \in Reachable'
    <3>2. x \in Reachable /\ x # s /\ Queued(x)' = Queued(x)
      BY <1>10, <2>1, <2>9
    <3>3. QED
      BY <2>3, <2>5, <2>9, <3>2
  <2>11. ASSUME NEW x \in Listed' PROVE FreeSlotsHeld(sock[x])'
    <3>1. x \in Listed /\ sock'[x] = sock[x] /\ FreeSlotsHeld(sock[x]) /\ x \in Socks /\ x \in Reachable
      BY <1>1, <1>2, <1>17, <1>19 DEF TcpMemInv
    <3>2. SUFFICES ASSUME NEW i \in sock[x].count .. QueueMax - 1
                   PROVE  Entry(sock[x], i) \in held' \cup {0}
      BY <3>1 DEF FreeSlotsHeld
    <3>3. i \in 0 .. QueueMax
      BY <1>1, <3>1, ListedAreSocks, QueueFields, SizesOfTcp
    <3>4. Entry(sock[x], i) \in Queued(x) \cup {0} /\ Entry(sock[x], i) \in held \cup {0}
      BY <1>1, <3>1, <3>3, EntryIsQueued DEF FreeSlotsHeld
    <3>5. QED
      BY <1>7, <2>5, <3>1, <3>4
  <2>12. \A p : p \in Needed <=> \E x \in Reachable : p \in Parts(x)
    BY DEF Needed
  <2>13. \A p : p \in Needed' <=> \E x \in Reachable' : p \in Parts(x)'
    BY DEF Needed
  <2>14. \A x \in Reachable : x # s => Parts(x) \cap Parts(s) = {}
    BY <1>4, <2>2 DEF Parts
  <2>15. \A x \in Reachable' : x \in Reachable /\ x # s /\ Parts(x)' = Parts(x)
    BY <1>12, <2>1, <2>9
  <2>16. \A p : p \in Needed' <=> p \in Needed /\ p \notin Parts(s)
    <3>1. ASSUME NEW p, p \in Needed' PROVE p \in Needed /\ p \notin Parts(s)
      BY <2>12, <2>13, <2>14, <2>15, <3>1
    <3>2. ASSUME NEW p, p \in Needed, p \notin Parts(s) PROVE p \in Needed'
      <4>1. PICK x \in Reachable : p \in Parts(x)
        BY <2>12, <3>2
      <4>2. x # s /\ x \in Reachable'
        BY <2>9, <3>2, <4>1
      <4>3. QED
        BY <2>13, <2>15, <4>1, <4>2
    <3>3. QED
      BY <3>1, <3>2
  <2>17. Needed' = Needed \ Parts(s)
    BY <2>16
  <2>18. Needed \subseteq live /\ (live = Needed \/ dropped)
    BY <1>1 DEF TcpMemInv
  <2>19. live' = live \ Parts(s) /\ dropped' = dropped
    BY <1>7
  <2>20. Needed' \subseteq live' /\ (live' = Needed' \/ dropped')
    BY <2>17, <2>18, <2>19, Zenon
  <2>21. QED
    BY <2>10, <2>11, <2>20 DEF TcpMemInv
<1>22. ~ broken' => TcpMemInv'
  BY <1>7, <1>21, Zenon
<1>23. QED
  BY <1>14, <1>15, <1>16, <1>18, <1>20, <1>22 DEF TcpInv

-----------------------------------------------------------------------------
(***************************************************************************)
(* A SYN for a listening socket                                            *)
(***************************************************************************)
\* The connection t goes to the free slot of c.
LEMMA SlotFilled ==
  ASSUME NEW c \in TcpRec, c.count < QueueMax, NEW t \in 1 .. MaxSocks, NEW d \in TcpRec,
         d.head = c.head, d.count = c.count + 1, d.queue = [c.queue EXCEPT ![FreeSlot(c)] = t]
  PROVE  /\ FreeSlot(c) = Slot(c, c.count) /\ FreeSlot(c) \in QueueSlots
         /\ Entry(d, c.count) = t
         /\ \A i \in 0 .. QueueMax - 1 : i # c.count => Entry(d, i) = Entry(c, i)
<1>1. PICK n \in Nat \ {0}, k \in Nat : n = QueueMax /\ k = c.count
  BY SizesOfTcp, QueueFields
<1>2. k \in 0 .. n - 1 /\ k \in 0 .. QueueMax - 1 /\ k \in 0 .. QueueMax
  BY <1>1, QueueFields
<1>3. FreeSlot(c) = Slot(c, k)
  BY <1>1 DEF FreeSlot, Slot
<1>4. Slot(c, k) \in QueueSlots
  BY <1>2, SlotIs
<1>5. c.queue \in [QueueSlots -> 0 .. MaxSocks]
  BY QueueFields
<1>6. \A i : Slot(d, i) = Slot(c, i)
  BY DEF Slot
<1>7. Entry(d, k) = t
  BY <1>3, <1>4, <1>5, <1>6 DEF Entry
<1>8. ASSUME NEW i \in 0 .. QueueMax - 1, i # k PROVE Entry(d, i) = Entry(c, i)
  <2>1. Slot(c, i) # Slot(c, k)
    BY <1>2, <1>8, SlotsDiffer
  <2>2. Slot(c, i) \in QueueSlots
    BY <1>1, <1>8, SlotIs
  <2>3. QED
    BY <1>3, <1>4, <1>5, <1>6, <2>1, <2>2 DEF Entry
<1>9. QED
  BY <1>1, <1>3, <1>4, <1>7, <1>8

\* What a SYN makes of the fields of the listening socket but its queue.
Answering(c, d) ==
  /\ d.owner = c.owner /\ d.state = c.state /\ d.conn = c.conn /\ d.sent = c.sent
  /\ d.acked = c.acked /\ d.offered = c.offered

LEMMA AnsweringKeeps ==
  ASSUME NEW c \in TcpRec, c.state = "LISTEN", NEW d \in TcpRec, Answering(c, d), Sending(c), NEW b,
         Expects(c, b)
  PROVE  Heard(d) /\ Sending(d) /\ Expects(d, b)
BY DEF Answering, Heard, Sending, Expects

LEMMA WindowRecorded ==
  ASSUME NEW c \in TcpRec, NEW w \in Nat, NEW d, d = [c EXCEPT !.window = w]
  PROVE  d \in TcpRec /\ SameQueue(c, d) /\ Answering(c, d)
BY DEF TcpRec, SameQueue, Answering

LEMMA CopyMade ==
  ASSUME NEW c \in TcpRec, NEW peer \in Peer, NEW d,
         d = [c EXCEPT !.state = "SYN_RECEIVED", !.remote = peer]
  PROVE  d \in TcpRec /\ SameQueue(c, d)
<1>1. PICK st \in States, r \in Peer \cup {0} : st = "SYN_RECEIVED" /\ r = peer
  BY DEF States
<1>2. d = [c EXCEPT !.state = st, !.remote = r]
  BY <1>1
<1>3. QED
  BY <1>2, ZenonT(40) DEF TcpRec, SameQueue

\* The structures handle_SYN makes, one after the other.
MadeBySyn(a, peer, window, ok, c, after, d, copy) ==
  /\ c = [a EXCEPT !.remote = IF @ = 0 THEN peer ELSE @]
  /\ after = [tcp_enqueue_segment(c, ListenISN, 0, ok) EXCEPT
                !.recv_seq = Plus(PeerISN, 1), !.send_seq = Plus(ListenISN, 1)]
  /\ d = [after EXCEPT !.window = window]
  /\ copy = [after EXCEPT !.state = "SYN_RECEIVED", !.remote = peer]

LEMMA ListenFields ==
  ASSUME NEW a \in TcpRec, NEW peer \in Peer, NEW ok, NEW window \in Window, NEW c, NEW after, NEW d, NEW copy,
         MadeBySyn(a, peer, window, ok, c, after, d, copy)
  PROVE  /\ c \in TcpRec /\ SameQueue(a, c)
         /\ after \in TcpRec /\ SameQueue(a, after) /\ Answering(a, after)
         /\ d \in TcpRec /\ SameQueue(a, d) /\ Answering(a, d)
         /\ copy \in TcpRec /\ SameQueue(a, copy)
<1>1. PICK rm \in Peer \cup {0} : rm = IF a.remote = 0 THEN peer ELSE a.remote
  BY DEF TcpRec
<1>2. c = [a EXCEPT !.remote = rm]
  BY <1>1 DEF MadeBySyn
<1>3. c \in TcpRec /\ SameQueue(a, c) /\ Answering(a, c)
  BY <1>2 DEF TcpRec, SameQueue, Answering
<1>4. PICK l \in Nat, z \in Nat, p \in 0 .. SeqSpace - 1, q \in 0 .. SeqSpace - 1, w \in Nat :
        l = ListenISN /\ z = 0 /\ p = Plus(PeerISN, 1) /\ q = Plus(ListenISN, 1) /\ w = window
  <2>1. ListenISN \in Nat /\ PeerISN \in Nat /\ window \in Nat /\ 1 \in Nat /\ 0 \in Nat
    BY SizesOfTcp, TcpAssumption
  <2>2. Plus(PeerISN, 1) \in 0 .. SeqSpace - 1 /\ Plus(ListenISN, 1) \in 0 .. SeqSpace - 1
    BY <2>1, PlusRange
  <2>3. QED
    BY <2>1, <2>2
<1>5. PICK e : e = tcp_enqueue_segment(c, l, z, ok)
  OBVIOUS
<1>6. e \in TcpRec /\ SameQueue(c, e) /\ SameTalk(c, e)
  BY <1>3, <1>5, EnqueuedFields
<1>7. after = [e EXCEPT !.recv_seq = p, !.send_seq = q]
  BY <1>4, <1>5 DEF MadeBySyn
<1>8. e \in TcpRec
  BY <1>6
<1>9. after \in TcpRec /\ SameQueue(e, after) /\ Answering(e, after)
  BY <1>7, <1>8 DEF TcpRec, SameQueue, Answering
<1>10. d = [after EXCEPT !.window = w]
  BY <1>4 DEF MadeBySyn
<1>11. d \in TcpRec /\ SameQueue(after, d) /\ Answering(after, d)
  BY <1>9, <1>10, WindowRecorded
<1>12. copy \in TcpRec /\ SameQueue(after, copy)
  BY <1>9, CopyMade DEF MadeBySyn
<1>13. SameQueue(a, e) /\ Answering(a, e)
  BY <1>3, <1>6 DEF SameQueue, SameTalk, Answering
<1>14. /\ SameQueue(a, after) /\ Answering(a, after)
       /\ SameQueue(a, d) /\ Answering(a, d) /\ SameQueue(a, copy)
  BY <1>9, <1>11, <1>12, <1>13 DEF SameQueue, Answering
<1>15. QED
  BY <1>3, <1>9, <1>11, <1>12, <1>14

\* The connection t is put into slot i.
Filled(c, d, i, t) ==
  d.head = c.head /\ d.count = c.count + 1 /\ d.queue = [c.queue EXCEPT ![i] = t]

LEMMA ConnectionQueued ==
  ASSUME NEW c \in TcpRec, c.count < QueueMax, NEW w \in Nat, NEW t \in 1 .. MaxSocks,
         NEW i \in QueueSlots, NEW d,
         d = [c EXCEPT !.window = w, !.count = @ + 1, !.queue[i] = t]
  PROVE  d \in TcpRec /\ Answering(c, d) /\ Filled(c, d, i, t)
<1>1. PICK n \in 0 .. QueueMax : n = c.count + 1
  BY QueueFields, SizesOfTcp
<1>2. PICK q \in [QueueSlots -> 0 .. MaxSocks] : q = [c.queue EXCEPT ![i] = t]
  <2>1. c.queue \in [QueueSlots -> 0 .. MaxSocks]
    BY QueueFields
  <2>2. t \in 0 .. MaxSocks
    BY SizesOfTcp
  <2>3. [c.queue EXCEPT ![i] = t] \in [QueueSlots -> 0 .. MaxSocks]
    BY <2>1, <2>2
  <2>4. QED
    BY <2>3
<1>3. d = [c EXCEPT !.window = w, !.count = n, !.queue = q]
  BY <1>1, <1>2
<1>4. /\ d \in TcpRec /\ Answering(c, d)
      /\ d.head = c.head /\ d.count = n /\ d.queue = q
  BY <1>3, ZenonT(40) DEF TcpRec, Answering
<1>5. QED
  BY <1>1, <1>2, <1>4 DEF Filled

\* The slots of the socket after that.
LEMMA FilledSlots ==
  ASSUME NEW c \in TcpRec, c.count < QueueMax, NEW t \in 1 .. MaxSocks, NEW d \in TcpRec,
         Filled(c, d, FreeSlot(c), t)
  PROVE  /\ d.count = c.count + 1 /\ Entry(d, c.count) = t
         /\ \A i \in 0 .. QueueMax - 1 : i # c.count => Entry(d, i) = Entry(c, i)
         /\ \A i \in QueueSlots : i # FreeSlot(c) => d.queue[i] = c.queue[i]
         /\ FreeSlot(c) \in QueueSlots /\ d.queue[FreeSlot(c)] = t
         /\ c.queue[FreeSlot(c)] = Entry(c, c.count)
<1>1. d.head = c.head /\ d.count = c.count + 1 /\ d.queue = [c.queue EXCEPT ![FreeSlot(c)] = t]
  BY DEF Filled
<1>2. /\ FreeSlot(c) = Slot(c, c.count) /\ FreeSlot(c) \in QueueSlots
      /\ Entry(d, c.count) = t
      /\ \A i \in 0 .. QueueMax - 1 : i # c.count => Entry(d, i) = Entry(c, i)
  BY <1>1, SlotFilled
<1>3. c.queue \in [QueueSlots -> 0 .. MaxSocks]
  BY QueueFields
<1>4. QED
  BY <1>1, <1>2, <1>3 DEF Entry

LEMMA ConnectionMade ==
  ASSUME TcpInv, ~ broken, NEW s \in Listed, NEW d \in TcpRec, NEW copy \in TcpRec, NEW t,
         t = made + 1, made < MaxSocks, SameQueue(sock[s], copy), d.owner = sock[s].owner,
         Heard(d), Sending(d), Expects(d, buf[s].recv),
         made' = t, live' = live \cup {<<t, "sock">>},
         sock' = [sock EXCEPT ![t] = copy, ![s] = d],
         \/ SameQueue(sock[s], d) /\ dropped'
         \/ sock[s].count < QueueMax /\ Filled(sock[s], d, FreeSlot(sock[s]), t) /\ (dropped => dropped'),
         UNCHANGED <<tcp_sockets, buf, next_local_port, held, accepted, misread, broken>>
  PROVE  TcpInv'
<1>1. TcpType /\ GroupInv /\ AcceptInv /\ TcpRecvInv /\ TcpSendInv /\ TcpMemInv
  BY DEF TcpInv
<1>2. /\ Listed \subseteq held /\ held \subseteq 1 .. made /\ 1 .. made \subseteq Socks
      /\ made \in Nat /\ MaxSocks \in Nat
  BY <1>1, ListedAreSocks
<1>3. /\ s \in Socks /\ s \in 1 .. made /\ sock[s] \in TcpRec /\ s \in held /\ s # t /\ t \in 1 .. MaxSocks
      /\ t \in Socks /\ t \notin 1 .. made /\ t > made /\ 1 .. t = 1 .. made \cup {t}
  BY <1>1, <1>2, ListedAreSocks DEF Socks
<1>4. /\ sock' \in [Socks -> TcpRec] /\ sock'[s] = d /\ sock'[t] = copy
      /\ \A x \in Socks : x # s /\ x # t => sock'[x] = sock[x]
  <2>1. sock \in [Socks -> TcpRec]
    BY <1>1 DEF TcpType
  <2> HIDE DEF TcpRec
  <2>2. QED
    BY <1>3, <2>1
<1>5. Listed' = Listed
  BY DEF Listed
<1>6. TcpType'
  <2>1. held' \subseteq 1 .. made' /\ made' \in 0 .. MaxSocks
    BY <1>2, <1>3
  <2>2. QED
    BY <1>1, <1>2, <1>4, <1>5, <2>1 DEF TcpType
<1>7. \A x \in 1 .. made : x # s => sock'[x] = sock[x] /\ Queued(x)' = Queued(x) /\ Parts(x)' = Parts(x)
  <2>1. \A x \in 1 .. made : x # s => sock'[x] = sock[x]
    BY <1>2, <1>3, <1>4
  <2>2. QED
    BY <2>1 DEF Queued, Parts
<1>8. \A x \in 1 .. made : sock'[x].owner = sock[x].owner
  BY <1>4, <1>7
<1>9. Queued(t)' = Queued(s) /\ sock'[t].owner = sock[s].owner
  BY <1>4 DEF Queued, SameQueue
<1>10. \/ Queued(s)' = Queued(s) /\ dropped'
       \/ /\ Queued(s)' \subseteq Queued(s) \cup {t} /\ t \in Queued(s)'
          /\ \A x \in Queued(s) : x \in held \/ x \in Queued(s)'
          /\ (dropped => dropped')
  <2>1. CASE SameQueue(sock[s], d) /\ dropped'
    <3>1. d.queue = sock[s].queue
      BY <2>1 DEF SameQueue
    <3>2. Queued(s)' = Queued(s)
      BY <1>4, <3>1 DEF Queued
    <3>3. QED
      BY <2>1, <3>2
  <2>2. CASE /\ sock[s].count < QueueMax /\ Filled(sock[s], d, FreeSlot(sock[s]), t)
             /\ (dropped => dropped')
    <3>1. PICK c, f : c = sock[s] /\ f = FreeSlot(sock[s])
      OBVIOUS
    <3>2. /\ \A i \in QueueSlots : i # f => d.queue[i] = c.queue[i]
          /\ f \in QueueSlots /\ d.queue[f] = t
          /\ c.queue[f] = Entry(c, c.count)
      BY <1>3, <2>2, <3>1, FilledSlots
    <3>3. c.queue[f] \in held \cup {0}
      <4>1. FreeSlotsHeld(c)
        BY <1>1, <3>1 DEF TcpMemInv
      <4>2. c.count \in c.count .. QueueMax - 1
        BY <1>3, <2>2, <3>1, QueueFields, SizesOfTcp
      <4>3. QED
        BY <3>2, <4>1, <4>2 DEF FreeSlotsHeld
    <3>4. \A x : x \in Queued(s) <=> x # 0 /\ \E i \in QueueSlots : x = c.queue[i]
      BY <3>1 DEF Queued
    <3>5. \A x : x \in Queued(s)' <=> x # 0 /\ \E i \in QueueSlots : x = d.queue[i]
      BY <1>4 DEF Queued
    <3>6. t # 0
      BY <1>3
    <3>7. Queued(s)' \subseteq Queued(s) \cup {t} /\ t \in Queued(s)'
      BY <3>2, <3>4, <3>5, <3>6
    <3>8. \A x \in Queued(s) : x \in held \/ x \in Queued(s)'
      BY <3>2, <3>3, <3>4, <3>5
    <3>9. QED
      BY <2>2, <3>7, <3>8
  <2>3. QED
    BY <2>1, <2>2
<1>11. Queued(s)' \subseteq Queued(s) \cup {t}
  BY <1>10
<1>12. \A x \in 1 .. made : /\ sock[x].owner \in 1 .. made
                            /\ \A y \in Queued(x) : /\ y \in 1 .. made /\ y # x
                                                    /\ sock[y].owner = sock[x].owner
  BY <1>1 DEF GroupInv
<1>13. GroupInv'
  <2>1. \A x \in 1 .. made' : x \in 1 .. made \/ x = t
    BY <1>3
  <2>2. \A x \in 1 .. made : x \in 1 .. made' /\ x # t
    BY <1>3
  <2>3. t \in 1 .. made'
    BY <1>3
  <2>4. ASSUME NEW x \in 1 .. made, x # s
        PROVE  /\ sock'[x].owner \in 1 .. made'
               /\ \A y \in Queued(x)' : y \in 1 .. made' /\ y # x /\ sock'[y].owner = sock'[x].owner
    BY <1>7, <1>8, <1>12, <2>2, <2>4, ZenonT(40)
  <2>5. /\ sock'[s].owner \in 1 .. made'
        /\ \A y \in Queued(s)' : y \in 1 .. made' /\ y # s /\ sock'[y].owner = sock'[s].owner
    BY <1>3, <1>8, <1>9, <1>11, <1>12, <2>2, <2>3
  <2>6. /\ sock'[t].owner \in 1 .. made'
        /\ \A y \in Queued(t)' : y \in 1 .. made' /\ y # t /\ sock'[y].owner = sock'[t].owner
    <3>1. sock'[t].owner \in 1 .. made'
      BY <1>3, <1>9, <1>12, <2>2
    <3>2. \A y \in Queued(s) : y \in 1 .. made /\ sock[y].owner = sock[s].owner
      BY <1>3, <1>12
    <3>3. \A y \in Queued(s) : y \in 1 .. made' /\ y # t /\ sock'[y].owner = sock'[t].owner
      BY <1>8, <1>9, <2>2, <3>2
    <3>4. QED
      BY <1>9, <3>1, <3>3
  <2>7. \A x \in Listed' : sock'[x].owner = x
    BY <1>1, <1>2, <1>5, <1>8 DEF GroupInv
  <2>8. \A x \in 1 .. made' :
          /\ sock'[x].owner \in 1 .. made'
          /\ \A y \in Queued(x)' : y \in 1 .. made' /\ y # x /\ sock'[y].owner = sock'[x].owner
    <3>1. TAKE x \in 1 .. made'
    <3>2. CASE x = s
      BY <2>5, <3>2
    <3>3. CASE x = t
      BY <2>6, <3>3
    <3>4. CASE x \in 1 .. made /\ x # s
      BY <2>4, <3>4
    <3>5. QED
      BY <2>1, <3>2, <3>3, <3>4
  <2>9. QED
    BY <2>7, <2>8 DEF GroupInv

<1>14. Ordered(d) /\ Ordered(copy)
       /\ \A j \in 0 .. d.count - 1 : \/ Entry(d, j) = t
                                      \/ j \in 0 .. sock[s].count - 1 /\ Entry(d, j) = Entry(sock[s], j)
  <2>1. PICK c : c = sock[s]
    OBVIOUS
  <2>2. Ordered(c) /\ c \in TcpRec
    BY <1>1, <1>3, <2>1 DEF AcceptInv
  <2>3. Ordered(copy)
    <3>1. copy.count = c.count /\ \A i : Entry(copy, i) = Entry(c, i)
      BY <2>1 DEF SameQueue, Entry, Slot
    <3>2. QED
      BY <2>2, <3>1 DEF Ordered
  <2>4. CASE SameQueue(sock[s], d)
    <3>1. d.count = c.count /\ \A i : Entry(d, i) = Entry(c, i)
      BY <2>1, <2>4 DEF SameQueue, Entry, Slot
    <3>2. QED
      BY <2>1, <2>2, <2>3, <3>1 DEF Ordered
  <2>5. CASE sock[s].count < QueueMax /\ Filled(sock[s], d, FreeSlot(sock[s]), t)
    <3>1. PICK k, m : k = c.count /\ m = QueueMax
      OBVIOUS
    <3>2. k \in 0 .. m - 1 /\ m \in Nat
      BY <2>1, <2>2, <2>5, <3>1, QueueFields, SizesOfTcp
    <3>3. /\ d.count = k + 1 /\ Entry(d, k) = t
          /\ \A i \in 0 .. m - 1 : i # k => Entry(d, i) = Entry(c, i)
      BY <2>1, <2>2, <2>5, <3>1, <1>3, FilledSlots
    <3>4. \A i \in 0 .. k - 1 : i \in 0 .. m - 1 /\ i # k
      BY <3>2
    <3>5. \A i \in 0 .. k - 1 : Entry(d, i) = Entry(c, i)
      BY <3>3, <3>4
    <3>6. \A i \in 0 .. k - 1 : Entry(c, i) # 0 /\ Entry(c, i) \in 1 .. made
      <4>1. TAKE i \in 0 .. k - 1
      <4>2. Entry(c, i) # 0
        BY <2>2, <3>1 DEF Ordered
      <4>3. i \in 0 .. QueueMax
        BY <3>1, <3>2
      <4>4. Entry(c, i) \in Queued(s) \cup {0}
        BY <1>1, <1>3, <2>1, <4>3, EntryIsQueued
      <4>5. QED
        BY <1>3, <1>12, <4>2, <4>4
    <3>7. \A i \in 0 .. d.count - 1 : i = k \/ i \in 0 .. k - 1
      BY <3>2, <3>3
    <3>8. \A i, j \in 0 .. k - 1 : i < j => Entry(c, i) < Entry(c, j)
      BY <2>2, <3>1 DEF Ordered
    <3>9. t # 0 /\ \A n \in 1 .. made : n < t
      BY <1>2, <1>3
    <3>10. \A i \in 0 .. d.count - 1 : Entry(d, i) # 0
      BY <3>3, <3>5, <3>6, <3>7, <3>9
    <3>11. ASSUME NEW i \in 0 .. d.count - 1, NEW j \in 0 .. d.count - 1, i < j
           PROVE  Entry(d, i) < Entry(d, j)
      <4>1. i \in 0 .. k - 1
        BY <3>2, <3>3, <3>11
      <4>2. CASE j = k
        BY <3>3, <3>5, <3>6, <3>9, <4>1, <4>2
      <4>3. CASE j \in 0 .. k - 1
        BY <3>5, <3>8, <3>11, <4>1, <4>3
      <4>4. QED
        BY <3>7, <4>2, <4>3
    <3>12. Ordered(d)
      BY <3>10, <3>11 DEF Ordered
    <3>13. QED
      BY <2>1, <2>3, <3>1, <3>3, <3>5, <3>7, <3>12
  <2>6. QED
    BY <2>4, <2>5
<1>15. AcceptInv'
  <2>1. \A x \in 1 .. made' : Ordered(sock'[x])
    BY <1>1, <1>3, <1>4, <1>7, <1>14 DEF AcceptInv
  <2>2. \A j \in DOMAIN accepted : /\ accepted[j].by \in 1 .. made /\ accepted[j].got \in 1 .. made
                                   /\ accepted[j].by \in 1 .. made' /\ accepted[j].got \in 1 .. made'
    BY <1>1, <1>3 DEF AcceptInv
  <2>3. \A j \in DOMAIN accepted : sock'[accepted[j].got].owner = sock'[accepted[j].by].owner
    BY <1>1, <1>8, <2>2 DEF AcceptInv
  <2>4. ASSUME NEW j \in DOMAIN accepted, NEW i \in 0 .. sock'[accepted[j].by].count - 1
        PROVE  accepted[j].got < Entry(sock'[accepted[j].by], i)
    <3>1. CASE accepted[j].by = s
      <4>1. \/ Entry(d, i) = t
            \/ i \in 0 .. sock[s].count - 1 /\ Entry(d, i) = Entry(sock[s], i)
        BY <1>4, <1>14, <2>4, <3>1
      <4>2. accepted[j].got < t
        BY <1>2, <1>3, <2>2
      <4>3. \A n \in 0 .. sock[s].count - 1 : accepted[j].got < Entry(sock[s], n)
        BY <1>1, <3>1 DEF AcceptInv
      <4>4. QED
        BY <1>4, <3>1, <4>1, <4>2, <4>3
    <3>2. CASE accepted[j].by # s
      BY <1>1, <1>7, <2>2, <2>4, <3>2 DEF AcceptInv
    <3>3. QED
      BY <3>1, <3>2
  <2>5. /\ accepted \in Seq([by : Socks, got : Socks])
        /\ \A j \in DOMAIN accepted : \A i \in DOMAIN accepted :
             i < j /\ accepted[i].by = accepted[j].by => accepted[i].got < accepted[j].got
    BY <1>1 DEF AcceptInv
  <2>6. accepted' = accepted
    OBVIOUS
  <2>7. QED
    BY <2>1, <2>2, <2>3, <2>4, <2>5, <2>6 DEF AcceptInv
<1>16. ASSUME NEW x \in Listed'
       PROVE  Heard(sock'[x]) /\ Expects(sock'[x], buf[x].recv) /\ Sending(sock'[x])
  <2>1. CASE x = s
    BY <1>4, <2>1
  <2>2. CASE x # s
    <3>1. Heard(sock[x]) /\ Expects(sock[x], buf[x].recv) /\ Sending(sock[x]) /\ x \in 1 .. made
      BY <1>1, <1>2, <1>5 DEF TcpRecvInv, TcpSendInv
    <3>2. QED
      BY <1>7, <2>2, <3>1
  <2>3. QED
    BY <2>1, <2>2
<1>17. TcpSendInv'
  BY <1>16 DEF TcpSendInv
<1>18. TcpRecvInv'
  <2>1. \A x \in Socks : x > made' => x > made
    BY <1>2, <1>3 DEF Socks
  <2>2. ~ misread' /\ \A x \in Socks : Ring(buf'[x].recv)
    BY <1>1 DEF TcpRecvInv
  <2>3. \A x \in Socks : x > made' => buf'[x].recv = EmptyBuffer
    BY <1>1, <2>1 DEF TcpRecvInv
  <2>4. buf' = buf
    OBVIOUS
  <2>5. QED
    BY <1>16, <2>2, <2>3, <2>4, Zenon DEF TcpRecvInv
<1>19. TcpMemInv'
  <2>1. Reachable \subseteq 1 .. made /\ held \subseteq Reachable /\ s \in Reachable
    BY <1>1, <1>3, ReachableAreMade DEF Reachable
  <2>2. \A x : x \in Reachable <=> x \in held \/ \E y \in held : x \in Queued(y)
    BY <1>2 DEF Reachable
  <2>3. \A x : x \in Reachable' <=> x \in held \/ \E y \in held : x \in Queued(y)'
    BY <1>2, <1>5 DEF Reachable
  <2>4. \A x \in Reachable : Queued(x) \subseteq Reachable
    BY <1>1 DEF TcpMemInv
  <2>5. \A y \in held : y # s => Queued(y)' = Queued(y)
    BY <1>2, <1>7
  <2>6. Needed \subseteq live /\ (live = Needed \/ dropped)
    BY <1>1 DEF TcpMemInv
  <2>7. \A x \in Listed' : FreeSlotsHeld(sock[x])'
    <3>1. TAKE x \in Listed'
    <3>2. FreeSlotsHeld(sock[x]) /\ FreeSlotsHeld(sock[s]) /\ x \in 1 .. made
      BY <1>1, <1>2, <1>5 DEF TcpMemInv
    <3>3. CASE x # s
      BY <1>7, <3>2, <3>3 DEF FreeSlotsHeld
    <3>4. CASE x = s
      <4>1. PICK c : c = sock[s]
        OBVIOUS
      <4>2. SUFFICES ASSUME NEW i \in d.count .. QueueMax - 1 PROVE Entry(d, i) \in held \cup {0}
        BY <1>4, <3>4 DEF FreeSlotsHeld
      <4>3. CASE SameQueue(c, d)
        <5>1. d.count = c.count /\ Entry(d, i) = Entry(c, i)
          BY <4>3 DEF SameQueue, Entry, Slot
        <5>2. QED
          BY <3>2, <4>1, <5>1 DEF FreeSlotsHeld
      <4>4. CASE c.count < QueueMax /\ Filled(c, d, FreeSlot(c), t)
        <5>1. PICK k, m : k = c.count /\ m = QueueMax
          OBVIOUS
        <5>2. k \in 0 .. m - 1 /\ m \in Nat
          BY <1>3, <4>1, <4>4, <5>1, QueueFields, SizesOfTcp
        <5>3. /\ d.count = k + 1
              /\ \A n \in 0 .. m - 1 : n # k => Entry(d, n) = Entry(c, n)
          BY <1>3, <4>1, <4>4, <5>1, FilledSlots
        <5>4. i \in 0 .. m - 1 /\ i # k /\ i \in k .. m - 1
          BY <4>2, <5>1, <5>2, <5>3
        <5>5. QED
          BY <3>2, <4>1, <5>1, <5>3, <5>4 DEF FreeSlotsHeld
      <4>5. QED
        BY <4>1, <4>3, <4>4
    <3>5. QED
      BY <3>3, <3>4
  <2>8. Parts(s)' = Parts(s) /\ \A x \in Reachable : Parts(x)' = Parts(x)
    BY <1>3, <1>8, <2>1 DEF Parts
  <2>9. \A p : p \in Needed <=> \E x \in Reachable : p \in Parts(x)
    BY DEF Needed
  <2>10. \A p : p \in Needed' <=> \E x \in Reachable' : p \in Parts(x)'
    BY DEF Needed
  <2>11. CASE Queued(s)' = Queued(s) /\ dropped'
    <3>1. \A x : x \in Reachable' <=> x \in Reachable
      BY <2>2, <2>3, <2>5, <2>11
    <3>2. Reachable' = Reachable
      BY <3>1
    <3>3. Needed' = Needed
      BY <2>8, <3>2 DEF Needed
    <3>4. \A x \in Reachable' : Queued(x)' \subseteq Reachable'
      BY <1>7, <2>1, <2>4, <2>11, <3>2
    <3>5. Needed' \subseteq live'
      BY <2>6, <3>3
    <3>6. QED
      BY <2>7, <2>11, <3>4, <3>5, Zenon DEF TcpMemInv
  <2>12. CASE /\ Queued(s)' \subseteq Queued(s) \cup {t} /\ t \in Queued(s)'
              /\ \A x \in Queued(s) : x \in held \/ x \in Queued(s)'
              /\ (dropped => dropped')
    <3>1. ASSUME NEW x, x \in Reachable' PROVE x \in Reachable \/ x = t
      BY <2>2, <2>3, <2>5, <2>12, <3>1
    <3>2. ASSUME NEW x, x \in Reachable \/ x = t PROVE x \in Reachable'
      BY <1>3, <2>2, <2>3, <2>5, <2>12, <3>2
    <3>3. Reachable' = Reachable \cup {t}
      BY <3>1, <3>2
    <3>4. Parts(t)' \subseteq {<<t, "sock">>} \cup Parts(s) /\ <<t, "sock">> \in Parts(t)'
      BY <1>9 DEF Parts
    <3>5. \A p : p \in Needed' <=> p \in Needed \/ p = <<t, "sock">>
      <4>1. ASSUME NEW p, p \in Needed' PROVE p \in Needed \/ p = <<t, "sock">>
        <5>1. PICK x \in Reachable' : p \in Parts(x)'
          BY <2>10, <4>1
        <5>2. CASE x \in Reachable
          BY <2>8, <2>9, <5>1, <5>2
        <5>3. CASE x = t
          BY <2>1, <2>9, <3>4, <5>1, <5>3
        <5>4. QED
          BY <3>3, <5>2, <5>3
      <4>2. ASSUME NEW p, p \in Needed PROVE p \in Needed'
        BY <2>8, <2>9, <2>10, <3>3, <4>2
      <4>3. <<t, "sock">> \in Needed'
        BY <2>10, <3>3, <3>4
      <4>4. QED
        BY <4>1, <4>2, <4>3
    <3>6. Needed' = Needed \cup {<<t, "sock">>}
      BY <3>5
    <3>7. \A x \in Reachable' : Queued(x)' \subseteq Reachable'
      <4>1. TAKE x \in Reachable'
      <4>2. CASE x = t
        BY <1>9, <2>1, <2>4, <3>3, <4>2
      <4>3. CASE x = s
        BY <2>1, <2>4, <2>12, <3>3, <4>3
      <4>4. CASE x \in Reachable /\ x # s
        BY <1>7, <2>1, <2>4, <3>3, <4>4
      <4>5. QED
        BY <3>3, <4>2, <4>3, <4>4
    <3>8. Needed' \subseteq live' /\ (live' = Needed' \/ dropped')
      BY <2>6, <2>12, <3>6, Zenon
    <3>9. QED
      BY <2>7, <3>7, <3>8 DEF TcpMemInv
  <2>13. QED
    BY <1>10, <2>11, <2>12
<1>20. QED
  BY <1>6, <1>13, <1>15, <1>17, <1>18, <1>19 DEF TcpInv

LEMMA TcpSynStep ==
  ASSUME TcpInv, ~ broken, NEW s \in Listed, NEW peer \in Peer, NEW window \in Window, NEW ok,
         NEW recorded, handle_SYN(s, peer, window, ok, recorded)
  PROVE  TcpInv'
<1>1. TcpType
  BY DEF TcpInv
<1>2. s \in held /\ s \in Socks
  BY <1>1, ListedAreSocks
<1>3. /\ sock[s] \in TcpRec /\ Sending(sock[s]) /\ Expects(sock[s], buf[s].recv)
  BY <1>2, HeldInv
<1>0. PICK w \in Nat : w = window
  BY TcpAssumption
<1>4. PICK a, c, after, d, copy, t :
        /\ a = sock[s] /\ t = made + 1 /\ MadeBySyn(a, peer, window, recorded, c, after, d, copy)
  BY Zenon DEF MadeBySyn
<1>5. /\ c \in TcpRec /\ SameQueue(a, c)
      /\ after \in TcpRec /\ SameQueue(a, after) /\ Answering(a, after)
      /\ d \in TcpRec /\ SameQueue(a, d) /\ Answering(a, d)
      /\ copy \in TcpRec /\ SameQueue(a, copy)
  BY <1>3, <1>4, ListenFields
<1>6. a.state = "LISTEN" /\ a \in TcpRec
  BY <1>3, <1>4 DEF handle_SYN
<1>7. FreeSlot(c) = FreeSlot(a) /\ c.count = a.count /\ after.count = a.count
  BY <1>5 DEF SameQueue, FreeSlot
<1>8. UNCHANGED <<tcp_sockets, buf, next_local_port, held, accepted, misread, broken>>
  BY DEF handle_SYN
<1>9. CASE ~ ok
  <2>1. sock' = [sock EXCEPT ![s] = d] /\ UNCHANGED <<made, live, dropped>>
    BY <1>4, <1>9 DEF handle_SYN, MadeBySyn
  <2>2. Heard(d) /\ Sending(d) /\ Expects(d, buf[s].recv)
    BY <1>3, <1>4, <1>5, <1>6, AnsweringKeeps
  <2>3. QED
    BY <1>2, <1>4, <1>5, <1>8, <2>1, <2>2, OneStructureStep
<1>10. CASE ok /\ a.count >= QueueMax
  <2>1. /\ made < MaxSocks /\ made' = t /\ live' = live \cup {<<t, "sock">>}
        /\ sock' = [sock EXCEPT ![t] = copy, ![s] = d] /\ dropped'
    BY <1>4, <1>7, <1>10 DEF handle_SYN, MadeBySyn
  <2>2. Heard(d) /\ Sending(d) /\ Expects(d, buf[s].recv) /\ d.owner = a.owner
    BY <1>3, <1>4, <1>5, <1>6, AnsweringKeeps DEF Answering
  <2>3. QED
    BY <1>4, <1>5, <1>8, <2>1, <2>2, ConnectionMade
<1>11. CASE ok /\ ~ (a.count >= QueueMax)
  <2>1. a.count < QueueMax
    BY <1>6, <1>11, QueueFields, SizesOfTcp
  <2>2. PICK e : e = [after EXCEPT !.window = w, !.count = @ + 1, !.queue[FreeSlot(a)] = t]
    OBVIOUS
  <2>3. /\ made < MaxSocks /\ made' = t /\ live' = live \cup {<<t, "sock">>}
        /\ sock' = [sock EXCEPT ![t] = copy, ![s] = e]
    BY <1>0, <1>4, <1>7, <1>11, <2>2 DEF handle_SYN, MadeBySyn
  <2>4. dropped => dropped'
    BY <1>4, <1>7, <1>11 DEF handle_SYN, MadeBySyn
  <2>5. t \in 1 .. MaxSocks
    BY <1>1, <1>4, <2>3, ListedAreSocks
  <2>6. FreeSlot(a) \in QueueSlots
    <3>1. a.count \in 0 .. QueueMax
      BY <1>6, QueueFields
    <3>2. Slot(a, a.count) \in QueueSlots
      BY <1>6, <3>1, SlotIs
    <3>3. QED
      BY <3>2 DEF Slot, FreeSlot
  <2>7. e \in TcpRec /\ Answering(after, e) /\ Filled(after, e, FreeSlot(a), t)
    BY <1>5, <1>7, <2>1, <2>2, <2>5, <2>6, ConnectionQueued
  <2>8. Answering(a, e) /\ Filled(a, e, FreeSlot(a), t)
    BY <1>5, <2>7 DEF Answering, Filled, SameQueue
  <2>9. Heard(e) /\ Sending(e) /\ Expects(e, buf[s].recv) /\ e.owner = a.owner
    BY <1>3, <1>4, <1>6, <2>7, <2>8, AnsweringKeeps DEF Answering
  <2>10. QED
    BY <1>4, <1>5, <1>8, <2>1, <2>3, <2>7, <2>4, <2>8, <2>9, ConnectionMade
<1>12. QED
  BY <1>9, <1>10, <1>11

-----------------------------------------------------------------------------
(***************************************************************************)
(* All steps together                                                      *)
(***************************************************************************)
LEMMA TcpInitial == Init => TcpInv
<1> SUFFICES ASSUME Init PROVE TcpInv
  OBVIOUS
<1>1. /\ tcp_sockets = <<>> /\ sock = [s \in Socks |-> NewSocket(0, 0, 0)]
      /\ buf = [s \in Socks |-> [send |-> EmptyBuffer, recv |-> EmptyBuffer]]
      /\ next_local_port = FirstPort /\ made = 0 /\ held = {} /\ live = {} /\ accepted = <<>>
      /\ ~ misread
  BY DEF Init
<1>2. PICK d : d = NewSocket(0, 0, 0)
  OBVIOUS
<1>3. d \in TcpRec
  <2>1. 0 \in 0 .. MaxSocks /\ 0 \in Nat /\ 0 \in 0 .. SeqSpace - 1
    BY SizesOfTcp
  <2>2. QED
    BY <1>2, <2>1, NewSocketFields
<1>4. sock \in [Socks -> TcpRec]
  <2>1. sock = [s \in Socks |-> d]
    BY <1>1, <1>2
  <2> HIDE DEF TcpRec
  <2>2. QED
    BY <1>3, <2>1
<1>5. PICK b : b = EmptyBuffer
  OBVIOUS
<1>6. b \in TcpBuf /\ Ring(b)
  BY <1>5, EmptyRing
<1>7. /\ buf \in [Socks -> [send : TcpBuf, recv : TcpBuf]]
      /\ \A s \in Socks : buf[s].recv = b
  <2>1. buf = [s \in Socks |-> [send |-> b, recv |-> b]]
    BY <1>1, <1>5
  <2>2. b \in TcpBuf
    BY <1>6
  <2> HIDE DEF TcpBuf
  <2>3. QED
    BY <2>1, <2>2
<1>8. Listed = {}
  <2>1. DOMAIN tcp_sockets = {}
    BY <1>1
  <2>2. QED
    BY <2>1 DEF Listed, Range
<1>9. TcpType
  <2>1. tcp_sockets \in Seq(Socks) /\ DOMAIN tcp_sockets = {}
    BY <1>1
  <2>2. Distinct(tcp_sockets)
    BY <2>1 DEF Distinct
  <2>3. next_local_port \in 0 .. PortSpace - 1 /\ made \in 0 .. MaxSocks
    BY <1>1, TcpAssumption
  <2>4. QED
    BY <1>1, <1>4, <1>7, <1>8, <2>1, <2>2, <2>3 DEF TcpType
<1>10. \A s \in 1 .. made : FALSE
  BY <1>1
<1>11. GroupInv
  BY <1>8, <1>10 DEF GroupInv
<1>12. AcceptInv
  <2>1. accepted \in Seq([by : Socks, got : Socks]) /\ DOMAIN accepted = {}
    BY <1>1
  <2>2. QED
    BY <1>10, <2>1 DEF AcceptInv
<1>13. TcpRecvInv
  <2>1. \A s \in Socks : Ring(buf[s].recv) /\ buf[s].recv = EmptyBuffer
    BY <1>5, <1>6, <1>7
  <2>2. QED
    BY <1>1, <1>8, <2>1, Zenon DEF TcpRecvInv
<1>14. TcpSendInv
  BY <1>8 DEF TcpSendInv
<1>15. TcpMemInv
  <2>1. Reachable = {}
    BY <1>1, <1>8 DEF Reachable
  <2>2. Needed = {}
    BY <2>1 DEF Needed
  <2>3. QED
    BY <1>1, <1>8, <2>1, <2>2 DEF TcpMemInv
<1>16. QED
  BY <1>9, <1>11, <1>12, <1>13, <1>14, <1>15 DEF TcpInv

LEMMA TcpUnchanged ==
  ASSUME TcpInv, UNCHANGED vars
  PROVE  TcpInv'
<1>1. /\ tcp_sockets' = tcp_sockets /\ sock' = sock /\ buf' = buf /\ made' = made /\ held' = held
      /\ next_local_port' = next_local_port /\ live' = live /\ accepted' = accepted
      /\ dropped' = dropped /\ misread' = misread /\ broken' = broken
  BY DEF vars
<1>2. Listed' = Listed /\ Reachable' = Reachable
  BY <1>1 DEF Listed, Reachable, Queued
<1>3. Needed' = Needed
  BY <1>1, <1>2 DEF Needed, Parts
<1>4. TcpType'
  BY <1>1, <1>2 DEF TcpInv, TcpType
<1>5. GroupInv' /\ AcceptInv'
  BY <1>1, <1>2 DEF TcpInv, GroupInv, AcceptInv, Queued
<1>6. TcpRecvInv'
  BY <1>1, <1>2, Zenon DEF TcpInv, TcpRecvInv
<1>7. TcpSendInv'
  BY <1>1, <1>2 DEF TcpInv, TcpSendInv
<1>8. ~ broken' => TcpMemInv'
  BY <1>1, <1>2, <1>3, Zenon DEF TcpInv, TcpMemInv, Queued, FreeSlotsHeld
<1>9. QED
  BY <1>4, <1>5, <1>6, <1>7, <1>8 DEF TcpInv

LEMMA ReceiverListed ==
  ASSUME TcpType, NEW port, NEW peer, Matching(port, peer) # {}
  PROVE  tcp_sockets[Min(Matching(port, peer))] \in Listed
<1>1. PICK M : M = Matching(port, peer)
  OBVIOUS
<1>2. M \subseteq DOMAIN tcp_sockets /\ M # {}
  BY <1>1 DEF Matching
<1>3. DOMAIN tcp_sockets \subseteq Nat
  BY LenProperties DEF TcpType
<1>4. Min(M) \in M
  BY <1>2, <1>3, MinOfNats
<1>5. QED
  BY <1>1, <1>2, <1>4 DEF Listed, Range

LEMMA TcpStep == TcpInv /\ [Next]_vars => TcpInv'
<1> SUFFICES ASSUME TcpInv, [Next]_vars PROVE TcpInv'
  OBVIOUS
<1>1. CASE UNCHANGED vars
  BY <1>1, TcpUnchanged
<1>2. CASE Next
  <2>1. ~ broken
    BY <1>2 DEF Next
  <2>2. ASSUME NEW missing \in SUBSET Blocks(made + 1), NEW isn \in ISN, tcp_socket(missing, isn)
        PROVE  TcpInv'
    BY <2>1, <2>2, TcpSocketStep
  <2>3. ASSUME NEW s \in held, NEW port \in Port, tcp_bind(s, port) PROVE TcpInv'
    BY <2>1, <2>3, TcpBindStep
  <2>4. ASSUME NEW s \in held, tcp_listen(s) PROVE TcpInv'
    BY <2>1, <2>4, TcpListenStep
  <2>5. ASSUME NEW s \in held, tcp_accept(s) PROVE TcpInv'
    BY <2>1, <2>5, TcpAcceptStep
  <2>6. ASSUME NEW s \in held, NEW peer \in Peer, NEW ok \in BOOLEAN, NEW recorded \in BOOLEAN,
               tcp_connect(s, peer, ok, recorded)
        PROVE  TcpInv'
    BY <2>1, <2>6, TcpConnectStep
  <2>7. ASSUME NEW s \in held, NEW len \in SendLens, NEW n \in 0 .. MaxOut,
               NEW recorded \in BOOLEAN, tcp_send(s, len, n, recorded)
        PROVE  TcpInv'
    BY <2>1, <2>7, TcpSendStep
  <2>8. ASSUME NEW s \in held, NEW len \in Lens, tcp_recv(s, len) PROVE TcpInv'
    BY <2>1, <2>8, TcpRecvStep
  <2>9. ASSUME NEW s \in held, tcp_close(s) PROVE TcpInv'
    BY <2>1, <2>9, TcpCloseStep
  <2>10. ASSUME NEW port \in 0 .. PortSpace - 1, NEW peer \in Peer, NEW window \in Window,
                NEW recorded \in BOOLEAN, Matching(port, peer) # {},
                LET s == tcp_sockets[Min(Matching(port, peer))]
                IN  \/ \E seg \in Segments(sock[s]) : tcp_handle_packet(s, peer, seg, window, recorded)
                    \/ \E ok \in BOOLEAN : handle_SYN(s, peer, window, ok, recorded)
         PROVE  TcpInv'
    <3>1. PICK s : s = tcp_sockets[Min(Matching(port, peer))]
      OBVIOUS
    <3>2. s \in Listed
      BY <2>10, <3>1, ReceiverListed DEF TcpInv
    <3>3. \/ \E seg \in Segments(sock[s]) : tcp_handle_packet(s, peer, seg, window, recorded)
          \/ \E ok \in BOOLEAN : handle_SYN(s, peer, window, ok, recorded)
      BY <2>10, <3>1
    <3>4. ASSUME NEW seg \in Segments(sock[s]), tcp_handle_packet(s, peer, seg, window, recorded)
          PROVE  TcpInv'
      BY <2>1, <3>2, <3>4, TcpPacketStep
    <3>5. ASSUME NEW ok \in BOOLEAN, handle_SYN(s, peer, window, ok, recorded) PROVE TcpInv'
      BY <2>1, <3>2, <3>5, TcpSynStep
    <3>6. QED
      BY <3>3, <3>4, <3>5
  <2>11. QED
    BY <1>2, <2>2, <2>3, <2>4, <2>5, <2>6, <2>7, <2>8, <2>9, <2>10, Zenon DEF Next
<1>3. QED
  BY <1>1, <1>2

(***************************************************************************)
(* The inductive invariant of the TCP sockets holds: how list, structures, *)
(* accept queues, buffers and sequence numbers of tcp.c fit together after *)
(* any calls and any segments.                                             *)
(***************************************************************************)
THEOREM TcpInductive == Spec => []TcpInv
<1>1. Init => TcpInv
  BY TcpInitial
<1>2. TcpInv /\ [Next]_vars => TcpInv'
  BY TcpStep
<1>3. QED
  BY <1>1, <1>2, PTL DEF Spec

(***************************************************************************)
(* Whatever kmalloc calls failed in tcp_socket and whatever was closed     *)
(* with tcp_close: until a socket is closed whose buffers another one      *)
(* uses, all that can be reached is allocated; and all that is allocated   *)
(* can be reached, unless a SYN found the accept queue full.               *)
(***************************************************************************)
THEOREM TcpMemoryIsExact == Spec => []MemoryExact
<1>1. TcpInv => MemoryExact
  <2>1. TcpInv => (~ broken => TcpMemInv)
    BY DEF TcpInv
  <2>2. QED
    BY <2>1, Zenon DEF TcpMemInv, MemoryExact, Needed
<1>2. QED
  BY <1>1, TcpInductive, PTL

(***************************************************************************)
(* tcp_accept returns the connections of a socket in the order in which    *)
(* their SYNs came, each once, for every size of the ring of waiting ones. *)
(***************************************************************************)
THEOREM TcpAcceptsInOrder == Spec => []AcceptedInOrder
<1>1. TcpInv => AcceptedInOrder
  <2>1. SUFFICES ASSUME TcpInv, NEW j \in DOMAIN accepted
                 PROVE  /\ accepted[j].got # 0
                        /\ sock[accepted[j].got].owner = sock[accepted[j].by].owner
                        /\ \A i \in 1 .. j - 1 : accepted[i].by = accepted[j].by =>
                                                   accepted[i].got < accepted[j].got
    BY DEF AcceptedInOrder
  <2>2. AcceptInv /\ TcpType
    BY <2>1 DEF TcpInv
  <2>3. accepted \in Seq([by : Socks, got : Socks])
    BY <2>2 DEF AcceptInv
  <2>4. DOMAIN accepted = 1 .. Len(accepted) /\ Len(accepted) \in Nat
    BY <2>3, LenProperties
  <2>5. \A i \in 1 .. j - 1 : i \in DOMAIN accepted /\ i < j
    BY <2>4
  <2>6. accepted[j].got \in 1 .. made /\ made \in Nat
    BY <2>2, ListedAreSocks DEF AcceptInv
  <2>7. QED
    BY <2>2, <2>5, <2>6 DEF AcceptInv
<1>2. QED
  BY <1>1, TcpInductive, PTL

(***************************************************************************)
(* tcp_recv gives the bytes of a peer in their order, none twice and none  *)
(* left out, however tcp_handle_packet meets its segments: late, again, or *)
(* in another order; and a connection counts as established only after the *)
(* SYN of the peer.                                                        *)
(***************************************************************************)
THEOREM TcpReceivesInOrder == Spec => []ReceivedInOrder
<1>1. TcpInv => ReceivedInOrder
  BY DEF TcpInv, TcpRecvInv, Heard, ReceivedInOrder
<1>2. QED
  BY <1>1, TcpInductive, PTL

(***************************************************************************)
(* What tcp_send put on its way and no segment acknowledged is kept in the *)
(* table of outstanding segments, and tcp_send goes beyond what the window *)
(* allows by less than a segment.                                          *)
(***************************************************************************)
THEOREM TcpSentAccounted == Spec => []SentAccounted
<1>1. TcpInv => SentAccounted
  <2>1. SUFFICES ASSUME TcpInv, NEW s \in Listed
                 PROVE  /\ UnackedKept(sock[s])
                        /\ sock[s].sent <= sock[s].acked + sock[s].offered + Mss - 1
    BY DEF SentAccounted
  <2>2. Sending(sock[s])
    BY <2>1 DEF TcpInv, TcpSendInv
  <2>3. UnackedKept(sock[s])
    BY <2>2 DEF Sending, Kept, UnackedKept
  <2>4. QED
    BY <2>2, <2>3 DEF Sending
<1>2. QED
  BY <1>1, TcpInductive, PTL

=============================================================================
