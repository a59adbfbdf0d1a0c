-------------------------------- MODULE Dns ---------------------------------
(***************************************************************************)
(* The resolver: net/dns.c, used by several processes.                     *)
(*                                                                         *)
(* dns_resolve looks into the cache, asks the first name server and then   *)
(* the second. A query waits in recvfrom, where another process may run.   *)
(* The socket calls are those of an implementation that keeps their        *)
(* promise (the ones of socket.c answer "0 bytes from nobody" at once,     *)
(* which is one of the outcomes here). The network delivers answers late,  *)
(* twice, to a later query's socket, or not at all.                        *)
(***************************************************************************)
EXTENDS Integers, FiniteSets, FiniteSetsExt

CONSTANTS
  Proc,         \* processes that resolve names
  Name,         \* host names
  Server,       \* addresses of name servers; 0 stands for none
  Google,       \* the two servers dns_init chooses
  Setting,      \* bound: the pairs of servers dns_set_nameserver is given
  IdSpace,      \* 2^16
  CacheSlots,   \* 128
  MaxTime,      \* UINT32_MAX: the last value of the clock
  MaxQueries    \* bound: queries ever made

ASSUME DnsAssumption ==
  /\ IsFiniteSet(Proc)
  /\ IdSpace \in Nat /\ IdSpace > 1 /\ CacheSlots \in Nat \ {0}
  /\ {MaxTime, MaxQueries} \subseteq Nat /\ 0 \notin Server
  /\ Google \in Server \X Server /\ Setting \subseteq Server \X (Server \cup {0})

VARIABLES
  cache,                \* the cache
  next_transaction_id,
  servers,              \* <<dns_server_ip, secondary_dns_server_ip>>
  query,                \* what each process waits for
  open,                 \* sockets open for queries
  now,                  \* timer_get_ticks()
  sent,                 \* history: the queries made; waits: it was sent
  reused,               \* history: a transaction id was used again
  raced,                \* history: two processes resolved one name at a time
  zero                  \* history: a server gave the address 0.0.0.0

dnsVars == <<cache, next_transaction_id, servers, query, open, now, sent, reused, raced, zero>>

CacheIdx == 1 .. CacheSlots
NoEntry  == [valid |-> FALSE, name |-> "none", of |-> "none", ip |-> 0, timestamp |-> 0]
NoQuery  == [stage |-> 0, name |-> "none", id |-> 0, server |-> 0, waits |-> FALSE]

DnsInit ==
  /\ cache = [i \in CacheIdx |-> NoEntry]
  /\ next_transaction_id = 1
  /\ servers = Google
  /\ query = [p \in Proc |-> NoQuery]
  /\ open = 0 /\ now = 0
  /\ sent = {} /\ reused = FALSE /\ raced = FALSE /\ zero = FALSE

\* dns_cache_lookup: the address in the first entry for a name; 0 without one.
dns_cache_lookup(name) ==
  LET hits == {i \in CacheIdx : cache[i].valid /\ cache[i].name = name}
  IN  IF hits = {} THEN 0 ELSE cache[Min(hits)].ip

(***************************************************************************)
(* dns_cache_add: the first free entry, or the first of the oldest ones;   *)
(* none if all were made in the clock's last tick.                         *)
(***************************************************************************)
CachePlace ==
  LET free   == {i \in CacheIdx : ~ cache[i].valid}
      older  == {i \in CacheIdx : cache[i].timestamp < MaxTime}
      oldest == {i \in older : \A j \in older : cache[i].timestamp <= cache[j].timestamp}
  IN  IF free # {} THEN Min(free) ELSE IF oldest # {} THEN Min(oldest) ELSE 0

\* of: history, the name the server was asked for.
dns_cache_add(name, of, ip) ==
  cache' = IF CachePlace = 0 THEN cache
           ELSE [cache EXCEPT ![CachePlace] =
                   [valid |-> TRUE, name |-> name, of |-> of, ip |-> ip, timestamp |-> now]]

NextId(id) == IF (id + 1) % IdSpace = 0 THEN 1 ELSE (id + 1) % IdSpace

\* send_dns_query up to recvfrom, for the first or the second server. ok: there
\* is a socket, and the query goes out.
ask(p, stage, name, ok) ==
  LET q == [stage |-> stage, name |-> name, id |-> next_transaction_id,
            server |-> servers[stage], waits |-> ok]
  IN
  /\ Cardinality(sent) < MaxQueries
  /\ next_transaction_id' = NextId(next_transaction_id)
  /\ query' = [query EXCEPT ![p] = q]
  /\ open' = IF ok THEN open + 1 ELSE open
  /\ sent' = sent \cup {q}
  /\ reused' = (reused \/ \E r \in sent : r.id = q.id)
  /\ UNCHANGED <<cache, servers, now, zero>>

\* A name in the cache is answered at once, and nothing changes.
dns_resolve(p, name, ok) ==
  /\ query[p] = NoQuery
  /\ dns_cache_lookup(name) = 0
  /\ ask(p, 1, name, ok)
  /\ raced' = (raced \/ \E o \in Proc : query[o].name = name)

\* Mutant: the transaction id is not compared.
Expected_server(q, r) == r.server = q.server

\* The answer is to r; the query is q. The name is not compared.
Expected(q, r) == r.server = q.server /\ r.id = q.id

\* Mutant: only an answered query closes its socket.
AfterFailure_open(n) == n

AfterFailure(n) == n - 1

\* recvfrom gives an answer to a query r, and parse_dns_response an address.
answered(p, r, ip) ==
  /\ query[p].waits /\ r.waits /\ Expected(query[p], r)
  /\ dns_cache_add(query[p].name, r.name, ip)
  /\ zero' = (zero \/ ip = 0)
  /\ open' = open - 1
  /\ query' = [query EXCEPT ![p] = NoQuery]
  /\ UNCHANGED <<next_transaction_id, servers, now, sent, reused, raced>>

\* recvfrom fails, or gives something else: from another address, with another
\* id, or without an address in it.
failed(p) ==
  /\ query[p].waits
  /\ open' = AfterFailure(open)
  /\ query' = [query EXCEPT ![p].waits = FALSE]
  /\ UNCHANGED <<cache, next_transaction_id, servers, now, sent, reused, raced, zero>>

ask_secondary(p, ok) ==
  /\ query[p].stage = 1 /\ ~ query[p].waits /\ servers[2] # 0
  /\ ask(p, 2, query[p].name, ok)
  /\ UNCHANGED raced

give_up(p) ==
  /\ query[p].stage = 2 \/ (query[p].stage = 1 /\ servers[2] = 0)
  /\ ~ query[p].waits
  /\ query' = [query EXCEPT ![p] = NoQuery]
  /\ UNCHANGED <<cache, next_transaction_id, servers, open, now, sent, reused, raced, zero>>

dns_flush_cache ==
  /\ cache' = [i \in CacheIdx |-> NoEntry]
  /\ UNCHANGED <<next_transaction_id, servers, query, open, now, sent, reused, raced, zero>>

dns_set_nameserver(s, t) ==
  /\ servers' = <<s, t>>
  /\ UNCHANGED <<cache, next_transaction_id, query, open, now, sent, reused, raced, zero>>

timer_tick ==
  /\ now' = (now + 1) % (MaxTime + 1)
  /\ UNCHANGED <<cache, next_transaction_id, servers, query, open, sent, reused, raced, zero>>

DnsNext ==
  \/ \E p \in Proc :
       \/ \E name \in Name, ok \in BOOLEAN : dns_resolve(p, name, ok)
       \/ \E r \in sent, ip \in {0, 1} : answered(p, r, ip)
       \/ failed(p)
       \/ \E ok \in BOOLEAN : ask_secondary(p, ok)
       \/ give_up(p)
  \/ dns_flush_cache
  \/ \E pair \in Setting : dns_set_nameserver(pair[1], pair[2])
  \/ timer_tick

DnsSpec == DnsInit /\ [][DnsNext]_dnsVars

-----------------------------------------------------------------------------
(***************************************************************************)
(* Properties                                                              *)
(***************************************************************************)

\* Answers that come late or to the wrong socket do no harm: what the cache says
\* of a name, a server said of that name, until transaction ids are used again.
\* It has two entries for a name only if two processes have resolved the name at
\* the same time, or an address was 0.0.0.0, which the look-up takes for a miss.
\* (The first of the two then hides the other, be it older or newer.)
CacheTrue ==
  /\ ~ reused => \A i \in CacheIdx : cache[i].valid => cache[i].of = cache[i].name
  /\ ~ raced /\ ~ zero =>
       \A i, j \in CacheIdx : cache[i].valid /\ cache[j].valid /\ i # j => cache[i].name # cache[j].name

\* Whatever goes wrong with a query, its socket is closed: there is one for each
\* process that waits, and no other.
SocketsClosed == open = Cardinality({p \in Proc : query[p].waits})

=============================================================================
