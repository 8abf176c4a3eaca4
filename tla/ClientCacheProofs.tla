-------------------------- MODULE ClientCacheProofs --------------------------
(* Theorems about ClientCache, for any number of tasks, loops, chains,     *)
(* settings and addresses.                                                 *)
EXTENDS ClientCache, TLAPS

(* A loop's cache: one entry for a key, made for it and for the loop. *)
CacheFits(cache, l) ==
  /\ cache \subseteq Entries
  /\ \A e, f \in cache : e.key = f.key => e = f
  /\ \A e \in cache : e.key.settings = e.settings /\ e.loop = l

(* Who has a configuration, and what is known of it. *)
HeapInv ==
  /\ heap \in [Addresses -> Settings \cup {None}]
  /\ default \in Addresses \cup {None}
  /\ ctx \in [Tasks -> Addresses \cup {None}]
  /\ bound \in [Chains -> Addresses \cup {None}]
  /\ first \in [Chains -> Settings \cup {None}]
  /\ asked \in [Tasks -> Settings \cup {None}]
  /\ met \in [Tasks -> SUBSET Settings]
  /\ alive \subseteq Chains
  /\ default # None => heap[default] # None
  /\ \A t \in Tasks : ctx[t] # None => heap[ctx[t]] # None
  /\ \A ch \in Chains : bound[ch] # None => heap[bound[ch]] # None

(* A chain that is gone leaves nothing behind. *)
DroppedChains == \A ch \in Chains \ alive : bound[ch] = None /\ first[ch] = None

(* A task inside init finds in the mirror what it put there, or what        *)
(* another one has assigned since.                                         *)
Between(t) ==
  /\ default # None /\ asked[t] # None
  /\ heap[default] \in {asked[t]} \cup met[t]

InitsMeet ==
  /\ inInit \subseteq Running
  /\ \A t \in inInit : Between(t)

CacheInv ==
  /\ HeapInv
  /\ InitsMeet
  /\ loop \in [Tasks -> Loops \cup {None}]
  /\ clients \in [Loops -> SUBSET Entries]
  /\ \A l \in Loops : CacheFits(clients[l], l)
  /\ DroppedChains
  /\ ChainKeepsIdentity
  /\ ContextsAreApart

LEMMA InvIsTyped == CacheInv => CacheTypeOK
BY DEF CacheInv, HeapInv, InitsMeet, CacheFits, CacheTypeOK

LEMMA InitCache == Init => CacheInv
<1> SUFFICES ASSUME Init PROVE CacheInv
  OBVIOUS
<1>1. HeapInv /\ InitsMeet /\ DroppedChains /\ ContextsAreApart
  BY DEF Init, HeapInv, InitsMeet, DroppedChains, ContextsAreApart
<1>2. ChainKeepsIdentity
  BY DEF Init, ChainKeepsIdentity
<1>3. /\ loop \in [Tasks -> Loops \cup {None}] /\ clients \in [Loops -> SUBSET Entries]
      /\ \A l \in Loops : CacheFits(clients[l], l)
  BY DEF Init, CacheFits
<1> QED BY <1>1, <1>2, <1>3 DEF CacheInv

-----------------------------------------------------------------------------
(* _get_client, on a cache that fits: what it returns is one open client   *)
(* for the configuration, and the cache fits still.                        *)
LEMMA GetClientFits ==
  ASSUME NEW l \in Loops, NEW c \in Addresses, heap[c] \in Settings,
         NEW cache, CacheFits(cache, l)
  PROVE  /\ CacheFits(GetClient(cache, l, c).cache, l)
         /\ \E e : GetClient(cache, l, c).served = {e} /\ Fits(e, l, c)
<1> DEFINE kept == {e \in Cached(cache, c) : Usable(e)}
           now  == IF kept = {} THEN {Fresh(l, c)} ELSE kept
<1>1. /\ GetClient(cache, l, c).served = now
      /\ GetClient(cache, l, c).cache = (cache \ Cached(cache, c)) \cup now
  BY DEF GetClient
<1>2. \E e \in Entries : now = {e} /\ Fits(e, l, c) /\ e.key = Key(c)
  <2>1. CASE kept = {}
    <3>1. Fresh(l, c) \in Entries
      BY DEF Fresh, Key, Keys, Entries
    <3>2. Fits(Fresh(l, c), l, c) /\ Fresh(l, c).key = Key(c)
      BY DEF Fresh, Fits
    <3> QED BY <2>1, <3>1, <3>2
  <2>2. CASE kept # {}
    <3>1. PICK e \in kept : TRUE
      BY <2>2
    <3>2. e \in cache /\ e.key = Key(c) /\ ~e.closed
      BY <3>1 DEF Cached, Usable
    <3>3. \A f \in kept : f = e
      BY <3>2 DEF Cached, CacheFits
    <3>4. now = {e}
      BY <2>2, <3>1, <3>3
    <3>5. e \in Entries /\ Fits(e, l, c)
      BY <3>2 DEF CacheFits, Fits, Key
    <3> QED BY <3>2, <3>4, <3>5
  <2> QED BY <2>1, <2>2
<1>3. PICK e \in Entries : now = {e} /\ Fits(e, l, c) /\ e.key = Key(c)
  BY <1>2
<1>4. CacheFits((cache \ Cached(cache, c)) \cup {e}, l)
  BY <1>3 DEF CacheFits, Cached, Fits, Key
<1> HIDE DEF now
<1> QED BY <1>1, <1>3, <1>4

LEMMA RequestFits ==
  ASSUME CacheInv, NEW t \in Running, NEW c \in Addresses, heap[c] \in Settings, Request(t, c)
  PROVE  clients' \in [Loops -> SUBSET Entries] /\ \A l \in Loops : CacheFits(clients'[l], l)
<1> DEFINE l == loop[t]
<1>1. l \in Loops /\ CacheFits(clients[l], l)
  BY DEF CacheInv, Running
<1>2. CacheFits(GetClient(clients[l], l, c).cache, l)
  BY <1>1, GetClientFits
<1>3. clients' = [clients EXCEPT ![l] = GetClient(clients[l], l, c).cache]
  BY DEF Request
<1> HIDE DEF l
<1> QED BY <1>1, <1>2, <1>3 DEF CacheInv, CacheFits

-----------------------------------------------------------------------------
(* Steps that leave the caches alone. *)

LEMMA SameCaches ==
  ASSUME CacheInv, UNCHANGED clients
  PROVE  clients' \in [Loops -> SUBSET Entries] /\ \A l \in Loops : CacheFits(clients'[l], l)
BY DEF CacheInv

(* A task that is inside init neither starts, nor ends, nor starts others. *)
LEMMA OutsideInit ==
  ASSUME CacheInv, NEW t \in Tasks, Active(t) \/ loop[t] = None
  PROVE  t \notin inInit
BY DEF Active, Running, CacheInv, InitsMeet

LEMMA TaskStep ==
  ASSUME CacheInv, NEW t \in Tasks, NEW p \in Tasks, NEW l \in Loops,
         StartThread(t, l) \/ StartTask(p, t, l) \/ End(t)
  PROVE  CacheInv'
<1>1. UNCHANGED <<heap, default, inInit, bound, alive, clients, first>>
  BY DEF StartThread, StartTask, End, ghosts
<1>2. /\ loop' \in [Tasks -> Loops \cup {None}]
      /\ \A u \in Tasks \ {t} : loop'[u] = loop[u]
  BY DEF StartThread, StartTask, End, CacheInv
<1>3. \/ UNCHANGED <<ctx, asked, met>>
      \/ /\ ctx' = [ctx EXCEPT ![t] = ctx[p]]
         /\ asked' = [asked EXCEPT ![t] = asked[p]]
         /\ met' = [met EXCEPT ![t] = met[p]]
         /\ p \notin inInit
      \/ /\ ctx' = [ctx EXCEPT ![t] = None]
         /\ asked' = [asked EXCEPT ![t] = None]
         /\ met' = [met EXCEPT ![t] = {}]
  BY OutsideInit DEF StartThread, StartTask, End, ghosts
<1>4. t \notin inInit
  BY OutsideInit DEF StartThread, StartTask, End
<1>5. HeapInv' /\ ContextsAreApart'
  BY <1>1, <1>3, <1>4 DEF CacheInv, HeapInv, ContextsAreApart
<1>6. InitsMeet'
  <2>1. \A u \in inInit : asked'[u] = asked[u] /\ met'[u] = met[u]
    BY <1>3, <1>4 DEF CacheInv, HeapInv, InitsMeet, Running
  <2>2. inInit' \subseteq Running'
    BY <1>1, <1>2, <1>4 DEF CacheInv, InitsMeet, Running
  <2> QED BY <1>1, <2>1, <2>2 DEF CacheInv, InitsMeet, Between
<1>7. DroppedChains' /\ ChainKeepsIdentity'
  BY <1>1 DEF CacheInv, DroppedChains, ChainKeepsIdentity
<1> QED BY <1>1, <1>2, <1>5, <1>6, <1>7, SameCaches DEF CacheInv

-----------------------------------------------------------------------------
(* The two steps of init. *)

(* A new configuration takes an address that nobody refers to, and whoever *)
(* is inside init has met it.                                              *)
LEMMA AssignStep ==
  ASSUME CacheInv, NEW t \in Tasks, NEW c \in Addresses, NEW s \in Settings,
         AssignMirror(t, c, s)
  PROVE  CacheInv'
<1> USE CacheAssumption DEF AssignMirror
<1>1. \A d \in Addresses : heap[d] # None => heap'[d] = heap[d] /\ d # c
  BY DEF CacheInv, HeapInv
<1>2. heap'[c] = s /\ s # None /\ c # None /\ asked'[t] = s
  BY DEF CacheInv, HeapInv
<1>3. t \in Running /\ inInit \subseteq Running /\ inInit \subseteq Tasks
  BY DEF Active, Running, CacheInv, InitsMeet
<1>4. \A u \in Tasks \ {t} :
        /\ asked'[u] = asked[u]
        /\ met'[u] = IF u \in inInit THEN met[u] \cup {s} ELSE met[u]
  BY DEF CacheInv, HeapInv
<1>5. HeapInv'
  <2>1. met' \in [Tasks -> SUBSET Settings]
    BY DEF CacheInv, HeapInv
  <2> QED BY <1>1, <1>2, <2>1 DEF CacheInv, HeapInv
<1>6. InitsMeet'
  <2>1. inInit' \subseteq Running'
    BY <1>3 DEF Running
  <2>2. ASSUME NEW u \in inInit' PROVE Between(u)'
    <3>1. heap'[default'] = s /\ default' # None
      BY <1>2
    <3>2. CASE u = t
      BY <3>1, <3>2, <1>2 DEF Between
    <3>3. CASE u # t
      <4>1. u \in inInit /\ u \in Tasks
        BY <3>3, <1>3
      <4>2. asked[u] # None
        BY <4>1 DEF CacheInv, InitsMeet, Between
      <4> QED BY <3>1, <3>3, <4>1, <4>2, <1>4 DEF Between
    <3> QED BY <3>2, <3>3
  <2> QED BY <2>1, <2>2 DEF InitsMeet
<1>7. ContextsAreApart'
  <2> SUFFICES ASSUME NEW u \in Tasks \ inInit'
               PROVE  /\ ctx'[u] = None <=> asked'[u] = None
                      /\ ctx'[u] # None => heap'[ctx'[u]] \in {asked'[u]} \cup met'[u]
    BY DEF ContextsAreApart
  <2>1. u # t /\ u \in Tasks \ inInit
    OBVIOUS
  <2>2. ctx'[u] = ctx[u] /\ asked'[u] = asked[u] /\ met'[u] = met[u]
    BY <2>1, <1>4
  <2> QED BY <2>1, <2>2, <1>1 DEF CacheInv, HeapInv, ContextsAreApart
<1>8. DroppedChains'
  BY DEF CacheInv, DroppedChains
<1>9. ChainKeepsIdentity'
  BY <1>1 DEF CacheInv, HeapInv, ChainKeepsIdentity
<1>10. loop' \in [Tasks -> Loops \cup {None}]
  BY DEF CacheInv
<1> QED BY <1>5, <1>6, <1>7, <1>8, <1>9, <1>10, SameCaches DEF CacheInv

(* The context gets what the mirror has by now. *)
LEMMA ReadBackStep ==
  ASSUME CacheInv, NEW t \in inInit, ReadBack(t)
  PROVE  CacheInv'
<1> USE DEF ReadBack, ghosts
<1>1. t \in Tasks /\ Between(t)
  BY DEF CacheInv, InitsMeet, Running
<1>2. HeapInv'
  BY <1>1 DEF CacheInv, HeapInv, Between
<1>3. InitsMeet'
  BY DEF CacheInv, InitsMeet, Between, Running
<1>4. ContextsAreApart'
  <2> SUFFICES ASSUME NEW u \in Tasks \ inInit'
               PROVE  /\ ctx'[u] = None <=> asked[u] = None
                      /\ ctx'[u] # None => heap[ctx'[u]] \in {asked[u]} \cup met[u]
    BY DEF ContextsAreApart
  <2>1. CASE u = t
    <3>1. ctx'[u] = default
      BY <1>1, <2>1 DEF CacheInv, HeapInv
    <3> QED BY <1>1, <2>1, <3>1 DEF Between
  <2>2. CASE u # t
    BY <2>2 DEF CacheInv, HeapInv, ContextsAreApart
  <2> QED BY <2>1, <2>2
<1>5. DroppedChains' /\ ChainKeepsIdentity'
  BY DEF CacheInv, DroppedChains, ChainKeepsIdentity
<1>6. loop' \in [Tasks -> Loops \cup {None}]
  BY DEF CacheInv
<1> QED BY <1>2, <1>3, <1>4, <1>5, <1>6, SameCaches DEF CacheInv

(* A configuration that is collected is nobody's. *)
LEMMA CollectStep ==
  ASSUME CacheInv, NEW c \in Addresses, CollectConfig(c)
  PROVE  CacheInv'
<1> USE DEF CollectConfig, ghosts
<1>1. \A d \in Addresses : d # c => heap'[d] = heap[d]
  BY DEF CacheInv, HeapInv
<1>2. /\ default # c
      /\ \A t \in Tasks : ctx[t] # c
      /\ \A ch \in Chains : bound[ch] # c
  BY DEF Referred
<1>3. HeapInv'
  BY <1>1, <1>2 DEF CacheInv, HeapInv
<1>4. ContextsAreApart' /\ DroppedChains' /\ ChainKeepsIdentity'
  BY <1>1, <1>2 DEF CacheInv, HeapInv, ContextsAreApart, DroppedChains, ChainKeepsIdentity
<1>5. loop' \in [Tasks -> Loops \cup {None}]
  BY DEF CacheInv
<1>6. InitsMeet'
  BY <1>1, <1>2 DEF CacheInv, HeapInv, InitsMeet, Between, Running
<1> QED BY <1>3, <1>4, <1>5, <1>6, SameCaches DEF CacheInv

-----------------------------------------------------------------------------
(* A chain takes its binding from the context, once. *)
LEMMA BindingStep ==
  ASSUME CacheInv, NEW t \in Tasks, NEW ch \in Chains,
         ch \in alive',
         alive' = alive \/ (ch \notin alive /\ alive' = alive \cup {ch}),
         bound' = [bound EXCEPT ![ch] = Binding(t, ch)],
         first' = [first EXCEPT ![ch] = Offered(t, ch)],
         UNCHANGED <<heap, default, ctx, loop, inInit, asked, met>>
  PROVE  HeapInv' /\ InitsMeet' /\ DroppedChains' /\ ChainKeepsIdentity' /\ ContextsAreApart'
<1> USE DEF CacheInv, HeapInv
<1>1. bound[ch] = None <=> first[ch] = None
  BY DEF DroppedChains, ChainKeepsIdentity
<1>2. bound[ch] # None => heap[bound[ch]] = first[ch]
  BY DEF DroppedChains, ChainKeepsIdentity
<1>3. /\ Binding(t, ch) = None <=> Offered(t, ch) = None
      /\ Binding(t, ch) # None => heap[Binding(t, ch)] = Offered(t, ch)
  BY <1>1, <1>2 DEF Binding, Offered
<1>4. /\ Binding(t, ch) \in Addresses \cup {None}
      /\ Offered(t, ch) \in Settings \cup {None}
      /\ Binding(t, ch) # None => heap[Binding(t, ch)] # None
  BY DEF Binding, Offered
<1>5. bound'[ch] = Binding(t, ch) /\ first'[ch] = Offered(t, ch)
  OBVIOUS
<1>6. \A d \in Chains \ {ch} : bound'[d] = bound[d] /\ first'[d] = first[d]
  OBVIOUS
<1>7. HeapInv'
  BY <1>4, <1>5, <1>6
<1>8. DroppedChains'
  BY <1>6 DEF DroppedChains
<1>9. ChainKeepsIdentity'
  BY <1>3, <1>5, <1>6 DEF ChainKeepsIdentity
<1>10. ContextsAreApart'
  BY DEF ContextsAreApart
<1>11. InitsMeet'
  BY DEF InitsMeet, Between, Running
<1> QED BY <1>7, <1>8, <1>9, <1>10, <1>11

LEMMA MakeStep ==
  ASSUME CacheInv, NEW t \in Tasks, NEW ch \in Chains, MakeChain(t, ch)
  PROVE  CacheInv'
<1>1. HeapInv' /\ InitsMeet' /\ DroppedChains' /\ ChainKeepsIdentity' /\ ContextsAreApart'
  BY BindingStep DEF MakeChain
<1>2. loop' \in [Tasks -> Loops \cup {None}] /\ UNCHANGED clients
  BY DEF MakeChain, CacheInv
<1> QED BY <1>1, <1>2, SameCaches DEF CacheInv

LEMMA DropStep ==
  ASSUME CacheInv, NEW ch \in Chains, DropChain(ch)
  PROVE  CacheInv'
<1> USE DEF DropChain
<1>1. HeapInv' /\ InitsMeet' /\ DroppedChains'
  BY DEF CacheInv, HeapInv, InitsMeet, Between, Running, DroppedChains
<1>2. ChainKeepsIdentity'
  BY DEF CacheInv, HeapInv, ChainKeepsIdentity
<1>3. ContextsAreApart'
  BY DEF CacheInv, ContextsAreApart
<1>4. loop' \in [Tasks -> Loops \cup {None}]
  BY DEF CacheInv
<1> QED BY <1>1, <1>2, <1>3, <1>4, SameCaches DEF CacheInv

LEMMA ChainRequestStep ==
  ASSUME CacheInv, NEW t \in Tasks, NEW ch \in Chains, ChainRequest(t, ch)
  PROVE  CacheInv'
<1> USE DEF ChainRequest, Active
<1>1. HeapInv' /\ InitsMeet' /\ DroppedChains' /\ ChainKeepsIdentity' /\ ContextsAreApart'
  BY BindingStep
<1>2. Binding(t, ch) \in Addresses /\ heap[Binding(t, ch)] \in Settings
  BY DEF Binding, CacheInv, HeapInv
<1>3. clients' \in [Loops -> SUBSET Entries] /\ \A l \in Loops : CacheFits(clients'[l], l)
  BY <1>2, RequestFits
<1>4. loop' \in [Tasks -> Loops \cup {None}]
  BY DEF CacheInv
<1> QED BY <1>1, <1>3, <1>4 DEF CacheInv, CacheFits

(* Steps on the caches only. *)
LEMMA OnlyCaches ==
  ASSUME CacheInv, UNCHANGED <<heap, default, ctx, loop, inInit, bound, alive, ghosts>>,
         clients' \in [Loops -> SUBSET Entries],
         \A l \in Loops : CacheFits(clients'[l], l)
  PROVE  CacheInv'
<1>1. HeapInv' /\ InitsMeet' /\ DroppedChains' /\ ChainKeepsIdentity' /\ ContextsAreApart'
  BY DEF CacheInv, HeapInv, InitsMeet, Between, Running, DroppedChains, ChainKeepsIdentity,
         ContextsAreApart, ghosts
<1> QED BY <1>1 DEF CacheInv, CacheFits

LEMMA TaskRequestStep ==
  ASSUME CacheInv, NEW t \in Tasks, TaskRequest(t)
  PROVE  CacheInv'
<1>1. ctx[t] \in Addresses /\ heap[ctx[t]] \in Settings
  BY DEF TaskRequest, CacheInv, HeapInv
<1> QED BY <1>1, RequestFits, OnlyCaches DEF TaskRequest, Active

LEMMA LoopStep ==
  ASSUME CacheInv, NEW l \in Loops, CollectLoop(l) \/ CloseClient(l)
  PROVE  CacheInv'
<1>1. CASE CollectLoop(l)
  <2>1. /\ clients' \in [Loops -> SUBSET Entries]
        /\ \A k \in Loops : CacheFits(clients'[k], k)
    BY <1>1 DEF CollectLoop, CacheInv, CacheFits
  <2> QED BY <1>1, <2>1, OnlyCaches DEF CollectLoop
<1>2. CASE CloseClient(l)
  <2>1. PICK e \in clients[l] :
          clients' = [clients EXCEPT ![l] = (@ \ {e}) \cup {[e EXCEPT !.closed = TRUE]}]
    BY <1>2 DEF CloseClient
  <2> DEFINE f == [e EXCEPT !.closed = TRUE]
  <2>2. e \in Entries
    BY <2>1 DEF CacheInv
  <2>3. f \in Entries /\ f.key = e.key /\ f.settings = e.settings /\ f.loop = e.loop
    BY <2>2 DEF Entries
  <2> HIDE DEF f
  <2>4. CacheFits((clients[l] \ {e}) \cup {f}, l)
    BY <2>1, <2>3 DEF CacheInv, CacheFits
  <2>5. clients' = [clients EXCEPT ![l] = (clients[l] \ {e}) \cup {f}]
    BY <2>1 DEF f
  <2>6. /\ clients' \in [Loops -> SUBSET Entries]
        /\ \A k \in Loops : CacheFits(clients'[k], k)
    BY <2>4, <2>5 DEF CacheInv, CacheFits
  <2> QED BY <1>2, <2>6, OnlyCaches DEF CloseClient
<1> QED BY <1>1, <1>2

LEMMA CacheInvStep == CacheInv /\ [Next]_cacheVars => CacheInv'
<1> SUFFICES ASSUME CacheInv, [Next]_cacheVars PROVE CacheInv'
  OBVIOUS
<1>1. ASSUME NEW t \in Tasks, NEW l \in Loops, StartThread(t, l) PROVE CacheInv'
  BY <1>1, TaskStep
<1>2. ASSUME NEW p \in Tasks, NEW t \in Tasks, NEW l \in Loops, StartTask(p, t, l)
      PROVE  CacheInv'
  BY <1>2, TaskStep
<1>3. ASSUME NEW t \in Tasks, End(t) PROVE CacheInv'
  <2>1. loop[t] \in Loops
    BY <1>3 DEF End, Active, Running, CacheInv
  <2> QED BY <1>3, <2>1, TaskStep
<1>4. ASSUME NEW t \in Tasks, TaskRequest(t) PROVE CacheInv'
  BY <1>4, TaskRequestStep
<1>5. ASSUME NEW l \in Loops, CollectLoop(l) \/ CloseClient(l) PROVE CacheInv'
  BY <1>5, LoopStep
<1>6. ASSUME NEW t \in Tasks, NEW c \in Addresses, NEW s \in Settings, AssignMirror(t, c, s)
      PROVE  CacheInv'
  BY <1>6, AssignStep
<1>7. ASSUME NEW c \in Addresses, CollectConfig(c) PROVE CacheInv'
  BY <1>7, CollectStep
<1>8. ASSUME NEW t \in Tasks, NEW ch \in Chains, MakeChain(t, ch) \/ ChainRequest(t, ch)
      PROVE  CacheInv'
  BY <1>8, MakeStep, ChainRequestStep
<1>9. ASSUME NEW ch \in Chains, DropChain(ch) PROVE CacheInv'
  BY <1>9, DropStep
<1>10. ASSUME NEW t \in inInit, ReadBack(t) PROVE CacheInv'
  BY <1>10, ReadBackStep
<1>11. CASE UNCHANGED cacheVars
  BY <1>11, OnlyCaches, SameCaches DEF cacheVars
<1> QED BY <1>1, <1>2, <1>3, <1>4, <1>5, <1>6, <1>7, <1>8, <1>9, <1>10, <1>11
       DEF Next

LEMMA CacheInvariant == Spec => []CacheInv
BY InitCache, CacheInvStep, PTL DEF Spec

-----------------------------------------------------------------------------
(* Every variable keeps its type, nobody refers to a configuration that is *)
(* gone, and a cache has one client for a key.                             *)
THEOREM CacheTypeCorrect == Spec => []CacheTypeOK
BY CacheInvariant, InvIsTyped, PTL

(* Whatever is collected, closed or initialised again, a request gets one  *)
(* open client, of its loop, built with the settings of its configuration. *)
THEOREM RequestsFit == Spec => []ClientFits
<1>1. CacheInv => ClientFits
  <2> SUFFICES ASSUME CacheInv, NEW l \in Loops, NEW c \in Addresses, heap[c] # None
               PROVE  \E e \in GetClient(clients[l], l, c).served :
                        GetClient(clients[l], l, c).served = {e} /\ Fits(e, l, c)
    BY DEF ClientFits
  <2>1. heap[c] \in Settings /\ CacheFits(clients[l], l)
    BY DEF CacheInv, HeapInv
  <2> QED BY <2>1, GetClientFits
<1> QED BY <1>1, CacheInvariant, PTL

(* A chain keeps the settings it was first made or used under, whatever    *)
(* init is called with later.  A task or thread outside init has those of  *)
(* its own last init or of the one it was started under, or those that     *)
(* another thread assigned between the two assignments of that init        *)
(* (client.py, lines 204 and 205), and no others.                          *)
THEOREM SettingsKept == Spec => []SettingsAreKept
<1>1. CacheInv => SettingsAreKept
  BY DEF CacheInv, SettingsAreKept
<1> QED BY <1>1, CacheInvariant, PTL

=============================================================================
