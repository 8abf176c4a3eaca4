---------------------------- MODULE ClientCache ----------------------------
(***************************************************************************)
(* Configurations and HTTP clients, arclasp/client.py: the configuration   *)
(* of a context, the one a Chain is bound to, and the cache of one client  *)
(* per event loop and configuration.                                       *)
(*                                                                         *)
(* The cache knows a configuration by the address of its object, which     *)
(* Python gives to another object when nothing refers to the first one.    *)
(***************************************************************************)
EXTENDS Naturals, FiniteSets

CONSTANTS
  Tasks,      \* asyncio tasks and threads, each with a context of its own
  Loops,      \* event loops
  Chains,     \* Chain objects
  Settings,   \* what init is called with: backend, key, timeouts, retries
  Addresses,  \* bound: where a ChainConfig object can be in memory
  MaxClients, \* bound: clients in the cache of one loop
  None        \* no configuration, no object, no task

ASSUME CacheAssumption ==
  /\ None \notin Tasks \cup Loops \cup Settings \cup Addresses
  /\ MaxClients \in Nat

VARIABLES
  heap,     \* the settings of the ChainConfig object at an address
  default,  \* _config: the module's mirror of the last init
  ctx,      \* _config_ctx in the context of a task
  loop,     \* the event loop a task runs on, None before its start
  inInit,   \* the tasks between the two assignments of init
  bound,    \* _bound_config of a chain
  alive,    \* the chains that have been constructed
  clients,  \* _clients_by_loop
  first,    \* ghost: the settings a chain was first made or used under
  asked,    \* ghost: the settings of a task's last init, or its parent's
  met       \* ghost: those other threads assigned during that init

ghosts == <<first, asked, met>>
cacheVars == <<heap, default, ctx, loop, inInit, bound, alive, clients, ghosts>>

Running == {t \in Tasks : loop[t] # None}

(* The tasks of a loop share a thread, which init does not give up.        *)
Active(t) == t \in Running /\ \A u \in inInit : loop[u] # loop[t]

(* Mutant: the address alone. *)
KeyIsIdentity(c) == [id |-> c, settings |-> CHOOSE s \in Settings : TRUE]

(* _client_cache_key: the settings are in the key beside the address. *)
Key(c) == [id |-> c, settings |-> heap[c]]

Keys == [id : Addresses, settings : Settings]
Entries == [key : Keys, settings : Settings, loop : Loops, closed : BOOLEAN]

Init ==
  /\ heap = [c \in Addresses |-> None]
  /\ default = None
  /\ ctx = [t \in Tasks |-> None]
  /\ loop = [t \in Tasks |-> None]
  /\ inInit = {}
  /\ bound = [ch \in Chains |-> None]
  /\ alive = {}
  /\ clients = [l \in Loops |-> {}]
  /\ first = [ch \in Chains |-> None]
  /\ asked = [t \in Tasks |-> None]
  /\ met = [t \in Tasks |-> {}]

-----------------------------------------------------------------------------
(* Tasks and threads. *)

(* A thread, or the program itself, starts with an empty context; a task   *)
(* gets a copy of the context in which it is created.                      *)
StartThread(t, l) ==
  /\ loop[t] = None
  /\ loop' = [loop EXCEPT ![t] = l]
  /\ UNCHANGED <<heap, default, ctx, inInit, bound, alive, clients, ghosts>>

StartTask(parent, t, l) ==
  /\ Active(parent)
  /\ loop[t] = None
  /\ loop' = [loop EXCEPT ![t] = l]
  /\ ctx' = [ctx EXCEPT ![t] = ctx[parent]]
  /\ asked' = [asked EXCEPT ![t] = asked[parent]]
  /\ met' = [met EXCEPT ![t] = met[parent]]
  /\ UNCHANGED <<heap, default, inInit, bound, alive, clients, first>>

End(t) ==
  /\ Active(t)
  /\ loop' = [loop EXCEPT ![t] = None]
  /\ ctx' = [ctx EXCEPT ![t] = None]
  /\ asked' = [asked EXCEPT ![t] = None]
  /\ met' = [met EXCEPT ![t] = {}]
  /\ UNCHANGED <<heap, default, inInit, bound, alive, clients, first>>

(* A loop without tasks is collected, and its clients with it. *)
CollectLoop(l) ==
  /\ \A t \in Running : loop[t] # l
  /\ clients' = [clients EXCEPT ![l] = {}]
  /\ UNCHANGED <<heap, default, ctx, loop, inInit, bound, alive, ghosts>>

-----------------------------------------------------------------------------
(* Configurations. *)

(* init is two steps, and threads may meet between them.  The new object   *)
(* becomes the mirror; chains and clients of the old one are left alone.   *)
AssignMirror(t, c, s) ==
  /\ Active(t)
  /\ heap[c] = None
  /\ heap' = [heap EXCEPT ![c] = s]
  /\ default' = c
  /\ inInit' = inInit \cup {t}
  /\ asked' = [asked EXCEPT ![t] = s]
  /\ met' = [u \in Tasks |-> CASE u = t -> {}
                             [] u \in inInit -> met[u] \cup {s}
                             [] OTHER -> met[u]]
  /\ UNCHANGED <<ctx, loop, bound, alive, clients, first>>

(* The mirror, read back, becomes the context's own.                       *)
ReadBack(t) ==
  /\ t \in inInit
  /\ ctx' = [ctx EXCEPT ![t] = default]
  /\ inInit' = inInit \ {t}
  /\ UNCHANGED <<heap, default, loop, bound, alive, clients, ghosts>>

(* Mutant: a chain does not keep its configuration alive. *)
ReferredByContexts(c) == default = c \/ \E t \in Tasks : ctx[t] = c

(* An object that nothing refers to is gone, and its address free.  The    *)
(* cache does not refer to the configurations of its clients.              *)
Referred(c) ==
  \/ default = c
  \/ \E t \in Tasks : ctx[t] = c
  \/ \E ch \in Chains : bound[ch] = c

CollectConfig(c) ==
  /\ heap[c] # None
  /\ ~Referred(c)
  /\ heap' = [heap EXCEPT ![c] = None]
  /\ UNCHANGED <<default, ctx, loop, inInit, bound, alive, clients, ghosts>>

-----------------------------------------------------------------------------
(* Chains and requests. *)

(* Mutant: a chain follows the context it is used from. *)
BindingFollows(t, ch) == ctx[t]

(* What a chain is bound to after being made in, or used from, a context.  *)
(* get_config raises where the context has no configuration; the mirror    *)
(* is not looked at.                                                       *)
Binding(t, ch) == IF bound[ch] # None THEN bound[ch] ELSE ctx[t]

Offered(t, ch) == IF first[ch] # None THEN first[ch]
                  ELSE IF ctx[t] = None THEN None ELSE heap[ctx[t]]

(* Chain.__init__: a failing snapshot leaves the chain unbound. *)
MakeChain(t, ch) ==
  /\ Active(t)
  /\ ch \notin alive
  /\ alive' = alive \cup {ch}
  /\ bound' = [bound EXCEPT ![ch] = Binding(t, ch)]
  /\ first' = [first EXCEPT ![ch] = Offered(t, ch)]
  /\ UNCHANGED <<heap, default, ctx, loop, inInit, clients, asked, met>>

DropChain(ch) ==
  /\ ch \in alive
  /\ alive' = alive \ {ch}
  /\ bound' = [bound EXCEPT ![ch] = None]
  /\ first' = [first EXCEPT ![ch] = None]
  /\ UNCHANGED <<heap, default, ctx, loop, inInit, clients, asked, met>>

(* _get_client: an open client of this loop and this key is used again, a  *)
(* closed one is replaced.                                                 *)
Fresh(l, c) == [key |-> Key(c), settings |-> heap[c], loop |-> l, closed |-> FALSE]
Cached(cache, c) == {e \in cache : e.key = Key(c)}

Usable(e) == ~e.closed

GetClient(cache, l, c) ==
  LET kept == {e \in Cached(cache, c) : Usable(e)}
      now  == IF kept = {} THEN {Fresh(l, c)} ELSE kept
  IN  [served |-> now, cache |-> (cache \ Cached(cache, c)) \cup now]

Request(t, c) ==
  LET cache == GetClient(clients[loop[t]], loop[t], c).cache
  IN  /\ Cardinality(cache) <= MaxClients
      /\ clients' = [clients EXCEPT ![loop[t]] = cache]

(* A chain's request goes out under the chain's configuration, whichever   *)
(* task makes it; without one it raises.                                   *)
ChainRequest(t, ch) ==
  /\ Active(t)
  /\ ch \in alive
  /\ Binding(t, ch) # None
  /\ bound' = [bound EXCEPT ![ch] = Binding(t, ch)]
  /\ first' = [first EXCEPT ![ch] = Offered(t, ch)]
  /\ Request(t, Binding(t, ch))
  /\ UNCHANGED <<heap, default, ctx, loop, inInit, alive, asked, met>>

(* The module's read functions use the configuration of their context.     *)
TaskRequest(t) ==
  /\ Active(t)
  /\ ctx[t] # None
  /\ Request(t, ctx[t])
  /\ UNCHANGED <<heap, default, ctx, loop, inInit, bound, alive, ghosts>>

(* Somebody closes a cached client. *)
CloseClient(l) ==
  /\ \E e \in clients[l] :
       /\ ~e.closed
       /\ clients' = [clients EXCEPT ![l] = (@ \ {e}) \cup {[e EXCEPT !.closed = TRUE]}]
  /\ UNCHANGED <<heap, default, ctx, loop, inInit, bound, alive, ghosts>>

Next ==
  \/ \E t \in Tasks, l \in Loops : StartThread(t, l)
  \/ \E p, t \in Tasks, l \in Loops : StartTask(p, t, l)
  \/ \E t \in Tasks : End(t) \/ TaskRequest(t)
  \/ \E l \in Loops : CollectLoop(l) \/ CloseClient(l)
  \/ \E t \in Tasks, c \in Addresses, s \in Settings : AssignMirror(t, c, s)
  \/ \E t \in inInit : ReadBack(t)
  \/ \E c \in Addresses : CollectConfig(c)
  \/ \E t \in Tasks, ch \in Chains : MakeChain(t, ch) \/ ChainRequest(t, ch)
  \/ \E ch \in Chains : DropChain(ch)

Spec == Init /\ [][Next]_cacheVars

-----------------------------------------------------------------------------
(* Properties. *)

CacheTypeOK ==
  /\ heap \in [Addresses -> Settings \cup {None}]
  /\ default \in Addresses \cup {None}
  /\ ctx \in [Tasks -> Addresses \cup {None}]
  /\ loop \in [Tasks -> Loops \cup {None}]
  /\ bound \in [Chains -> Addresses \cup {None}]
  /\ alive \subseteq Chains
  /\ clients \in [Loops -> SUBSET Entries]
  /\ first \in [Chains -> Settings \cup {None}]
  /\ asked \in [Tasks -> Settings \cup {None}]
  /\ met \in [Tasks -> SUBSET Settings]
  /\ inInit \subseteq Running
  /\ default # None => heap[default] # None
  /\ \A t \in Tasks : ctx[t] # None => heap[ctx[t]] # None
  /\ \A ch \in Chains : bound[ch] # None => heap[bound[ch]] # None
  /\ \A l \in Loops : \A e, f \in clients[l] : e.key = f.key => e = f

(* Whatever configuration a request is made with, on whichever loop, it    *)
(* gets one open client, of that loop and built with those settings        *)
(* (_get_client, "Event bound to a different event loop").  The cache asks *)
(* for the address of the configuration, where another one may have been   *)
(* when the cached client was built.                                       *)
Fits(e, l, c) == e.settings = heap[c] /\ e.loop = l /\ ~e.closed

ClientFits ==
  \A l \in Loops, c \in Addresses :
    heap[c] # None =>
      LET served == GetClient(clients[l], l, c).served
      IN  \E e \in served : served = {e} /\ Fits(e, l, c)

(* A chain keeps the settings it was first made or used under: whatever    *)
(* init is called with afterwards, from wherever the chain is used, and    *)
(* whatever a context without configuration would find in the mirror       *)
(* (test_chain_snapshots_init_config_across_reinit,                        *)
(* test_chain_created_before_init_binds_once_on_first_use).                *)
ChainKeepsIdentity ==
  \A ch \in alive :
    /\ first[ch] = None <=> bound[ch] = None
    /\ bound[ch] # None => heap[bound[ch]] = first[ch]

(* Outside init, a task or thread has the settings of its own last init,   *)
(* or of the one it was started under (test_threads_keep_independent_-     *)
(* configs).  Others get into its context only if another thread assigned  *)
(* them while that init was between its two assignments.  A task that      *)
(* never called init, nor inherits from one that did, has no settings.     *)
ContextsAreApart ==
  \A t \in Tasks \ inInit :
    /\ ctx[t] = None <=> asked[t] = None
    /\ ctx[t] # None => heap[ctx[t]] \in {asked[t]} \cup met[t]

(* Both: what is called with whose settings.  A chain is not reconfigured  *)
(* at all, a context only by threads that meet inside init.                *)
SettingsAreKept == ChainKeepsIdentity /\ ContextsAreApart

=============================================================================
