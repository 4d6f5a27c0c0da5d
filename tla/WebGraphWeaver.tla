--------------------------- MODULE WebGraphWeaver ---------------------------
(* The crawl scheduler of part64/code/web_graph_weaver.js: the frontier, the   *)
(* worker slots, the per-host politeness state and the control calls.          *)
(*                                                                             *)
(* The program is one JavaScript event loop.  A step of this module is a piece *)
(* of code that runs without an await.  Code that continues in a microtask (a  *)
(* resolved promise) runs before any timer, network or HTTP callback: the      *)
(* conjunct Quiet of those callbacks says so.                                  *)
(*                                                                             *)
(* Clock values are kept as what is left of them ("readyAt - now"), in units   *)
(* of the host delay; Elapse lets one unit pass.                               *)
EXTENDS Integers, FiniteSets

CONSTANTS
    URLs, Hosts,        \* the web the crawler can reach
    HostOf,             \* [URLs -> Hosts]
    Searches,           \* the URLs that isArxivSearchUrl accepts
    Links,              \* [URLs -> SUBSET URLs]: links and references to enqueue
    Mentions,           \* [URLs -> SUBSET URLs]: canonical links, references kept as nodes
    Redirect,           \* [URLs -> URLs]: where a request of a URL ends
    Disallowed,         \* the URLs that the robots.txt of their host forbids
    RobotsDelay,        \* [Hosts -> Nat]: Crawl-delay of that file, 0 when absent
    Workers,            \* worker slots
    Seeds,              \* the seed lists start() may be called with
    Confs,              \* the limits start() may be called with
    DefaultDelay, HostWait, ApiDelay, ApiRetry, MaxBackoff, Cooldown, Timeout,
    NotQueued

Conf == [depth : Nat, nodes : Nat, conc : Nat, perHost : Nat]

ASSUME WebAssumption ==
    /\ HostOf \in [URLs -> Hosts]
    /\ Searches \subseteq URLs
    /\ Links \in [URLs -> SUBSET URLs]
    /\ Mentions \in [URLs -> SUBSET URLs]
    /\ Redirect \in [URLs -> URLs]
    /\ Disallowed \subseteq URLs
    /\ RobotsDelay \in [Hosts -> Nat]
    /\ Seeds \subseteq SUBSET URLs

ASSUME SizeAssumption == URLs # {} /\ IsFiniteSet(URLs) /\ IsFiniteSet(Workers)

ASSUME ConfAssumption ==
    /\ Confs \subseteq Conf /\ Confs # {}
    /\ \A c \in Confs : c.conc <= Cardinality(Workers)

ASSUME DelayAssumption ==
    /\ DefaultDelay \in Nat /\ HostWait \in Nat /\ ApiDelay \in Nat
    /\ ApiRetry \in Nat /\ MaxBackoff \in Nat /\ Timeout \in Nat
    /\ Cooldown \in Nat

\* The shipped defaults: ten minutes of cooldown, twelve seconds of timeout.
ASSUME CooldownOutlivesFetch == Timeout < Cooldown

ASSUME NotQueuedAssumption == NotQueued \notin [depth : Nat, readyIn : Nat]

VARIABLES
    running, paused, conf,      \* control state and current limits
    nodes, status, cooldown,    \* GraphStore: the URL nodes
    frontier, inFlight,         \* FrontierQueue and inFlightUrls
    active, hostWait, backoff,  \* domainState, per host
    robots, optOut,             \* RobotsCache and optOutDomains
    apiActive, apiWait,         \* arxivApiState
    pc, item, left,             \* where each worker's _processItem waits
    ticking                     \* tick() is on the stack

control   == <<running, paused, conf>>
graph     == <<nodes, status, cooldown>>
hostState == <<active, hostWait, backoff>>
api       == <<apiActive, apiWait>>
worker    == <<pc, item, left>>
vars == <<control, graph, frontier, inFlight, hostState, robots, optOut, api,
          worker, ticking>>

Statuses == {"discovered", "queued", "fetching", "settled", "blocked"}
Entry    == [depth : Nat, readyIn : Nat]
Item     == [url : URLs, depth : Nat]
PageFetch == {"fetch", "body"}
ApiFetch  == {"api", "apibody"}
Network  == {"robots"} \cup PageFetch \cup ApiFetch
NoItem   == [url |-> CHOOSE u \in URLs : TRUE, depth |-> 0]  \* of a free slot
Phases   == {"free", "resume", "done"} \cup Network

Larger(a, b)  == IF a >= b THEN a ELSE b
Smaller(a, b) == IF a <= b THEN a ELSE b
UnclampedSooner(t) == t - 1   \* faulty: the remaining time without Math.max
Sooner(t)     == IF t > 0 THEN t - 1 ELSE 0

host(w)     == HostOf[item[w].url]
Busy        == {w \in Workers : pc[w] # "free"}
Fetching(w) == pc[w] \in PageFetch \cup ApiFetch
Micro       == \E w \in Workers : pc[w] \in {"resume", "done"}
Quiet       == ~ticking /\ ~Micro
Queued(u)   == frontier[u] # NotQueued

TypeOK ==
    /\ running \in BOOLEAN /\ paused \in BOOLEAN /\ conf \in Conf
    /\ nodes \subseteq URLs /\ status \in [URLs -> Statuses]
    /\ cooldown \in [URLs -> Nat]
    /\ frontier \in [URLs -> Entry \cup {NotQueued}] /\ inFlight \subseteq URLs
    /\ active \in [Hosts -> Nat] /\ hostWait \in [Hosts -> Nat]
    /\ backoff \in [Hosts -> Nat]
    /\ robots \in [Hosts -> {"unknown", "rules", "permissive"}]
    /\ optOut \subseteq Hosts
    /\ apiActive \in Nat /\ apiWait \in Nat
    /\ pc \in [Workers -> Phases] /\ item \in [Workers -> Item]
    /\ left \in [Workers -> Nat]
    /\ ticking \in BOOLEAN

Init ==
    /\ running = FALSE /\ paused = FALSE /\ conf \in Confs
    /\ nodes = {} /\ status = [u \in URLs |-> "discovered"]
    /\ cooldown = [u \in URLs |-> 0]
    /\ frontier = [u \in URLs |-> NotQueued] /\ inFlight = {}
    /\ active = [h \in Hosts |-> 0] /\ hostWait = [h \in Hosts |-> 0]
    /\ backoff = [h \in Hosts |-> 0]
    /\ robots = [h \in Hosts |-> "unknown"] /\ optOut = {}
    /\ apiActive = 0 /\ apiWait = 0
    /\ pc = [w \in Workers |-> "free"]
    /\ item = [w \in Workers |-> NoItem]
    /\ left = [w \in Workers |-> 0]
    /\ ticking = FALSE

-----------------------------------------------------------------------------
(* The graph and the frontier                                                  *)

\* upsertUrl of several URLs: the sets of nodes that may be created under the
\* limit `max`.  The order of the URLs on the page decides which fit.
Creations(fresh, known, max) ==
    {F \in SUBSET fresh :
        Cardinality(F) = Smaller(Cardinality(fresh),
                                 Larger(0, max - Cardinality(known)))}

\* The URLs of L that enqueueUrl does not turn away at depth d.
Eligible(L, d, cool, flying, c) ==
    {u \in L : cool[u] = 0 /\ u \notin flying /\ ~Queued(u) /\ d <= c.depth}

\* Faulty: pushes a URL before it knows that its node was accepted.
EagerEnqueue(L, M, d, cool, flying, stat, c) ==
    LET ok == Eligible(L, d, cool, flying, c)
    IN  \E F \in Creations((ok \cup M) \ nodes, nodes, c.nodes) :
            /\ nodes' = nodes \cup F
            /\ frontier' = [u \in URLs |->
                   IF u \in ok THEN [depth |-> d, readyIn |-> 0] ELSE frontier[u]]
            /\ status' = [u \in URLs |-> IF u \in ok THEN "queued" ELSE stat[u]]

\* enqueueUrl on every URL of L at depth d and upsertUrl on every URL of M.
\* `cool`, `flying`, `stat` and `c` are cooldown, inFlight, status and conf as
\* the caller has already changed them.
Enqueue(L, M, d, cool, flying, stat, c) ==
    LET ok == Eligible(L, d, cool, flying, c)
    IN  \E F \in Creations((ok \cup M) \ nodes, nodes, c.nodes) :
            LET in == ok \cap (nodes \cup F)
            IN  /\ nodes' = nodes \cup F
                /\ frontier' = [u \in URLs |->
                       IF u \in in THEN [depth |-> d, readyIn |-> 0] ELSE frontier[u]]
                /\ status' = [u \in URLs |-> IF u \in in THEN "queued" ELSE stat[u]]

-----------------------------------------------------------------------------
(* The control calls, each the whole HTTP handler                              *)

start(S, c) ==
    /\ Quiet /\ S # {}
    /\ running' = TRUE /\ paused' = FALSE /\ conf' = c
    /\ Enqueue(S, {}, 0, cooldown, inFlight, status, c)
    /\ UNCHANGED <<cooldown, inFlight, hostState, robots, optOut, api, worker, ticking>>

pause ==
    /\ Quiet /\ running
    /\ paused' = TRUE
    /\ UNCHANGED <<running, conf, graph, frontier, inFlight, hostState, robots,
                   optOut, api, worker, ticking>>

resume ==
    /\ Quiet /\ running
    /\ paused' = FALSE
    /\ UNCHANGED <<running, conf, graph, frontier, inFlight, hostState, robots,
                   optOut, api, worker, ticking>>

\* Faulty: also forgets the requests that are still under way.
ForgetfulStop ==
    /\ Quiet
    /\ running' = FALSE /\ paused' = FALSE
    /\ frontier' = [u \in URLs |-> NotQueued] /\ inFlight' = {}
    /\ active' = [h \in Hosts |-> 0]
    /\ UNCHANGED <<conf, graph, hostWait, backoff, robots, optOut, api, worker, ticking>>

\* Forgets the frontier and inFlightUrls; the fetches under way go on.
stop ==
    /\ Quiet
    /\ running' = FALSE /\ paused' = FALSE
    /\ frontier' = [u \in URLs |-> NotQueued] /\ inFlight' = {}
    /\ UNCHANGED <<conf, graph, hostState, robots, optOut, api, worker, ticking>>

addOptOutDomain(h) ==
    /\ Quiet
    /\ optOut' = optOut \cup {h}
    /\ UNCHANGED <<control, graph, frontier, inFlight, hostState, robots, api,
                   worker, ticking>>

removeOptOutDomain(h) ==
    /\ Quiet
    /\ optOut' = optOut \ {h}
    /\ UNCHANGED <<control, graph, frontier, inFlight, hostState, robots, api,
                   worker, ticking>>

\* registerInteraction, or an entity's visit: the node exists afterwards, and
\* is enqueued when its potential reached the threshold.  d is the node's depth.
activateNode(u, d, threshold) ==
    /\ Quiet
    /\ u \in nodes \/ Cardinality(nodes) < conf.nodes
    /\ Enqueue(IF threshold THEN {u} ELSE {}, {u}, d, cooldown, inFlight, status, conf)
    /\ UNCHANGED <<control, cooldown, inFlight, hostState, robots, optOut, api,
                   worker, ticking>>

-----------------------------------------------------------------------------
(* tick() and the part of _processItem before its first await                  *)

Ready(u) == Queued(u) /\ frontier[u].readyIn = 0
CanPop   == Cardinality(Busy) < conf.conc /\ \E u \in URLs : Ready(u)

tickBegin ==
    /\ Quiet /\ running /\ ~paused /\ CanPop
    /\ ticking' = TRUE
    /\ UNCHANGED <<control, graph, frontier, inFlight, hostState, robots, optOut,
                   api, worker>>

tickEnd ==
    /\ ticking /\ ~CanPop
    /\ ticking' = FALSE
    /\ UNCHANGED <<control, graph, frontier, inFlight, hostState, robots, optOut,
                   api, worker>>

\* The slot takes the item off the frontier, leaves entry e in its place and
\* waits at `phase`.
Pop(w, u, e, phase) ==
    /\ ticking /\ CanPop /\ pc[w] = "free" /\ Ready(u)
    /\ frontier' = [frontier EXCEPT ![u] = e]
    /\ pc' = [pc EXCEPT ![w] = phase]
    /\ item' = [item EXCEPT ![w] = IF phase = "done" THEN NoItem
                                   ELSE [url |-> u, depth |-> frontier[u].depth]]
    /\ UNCHANGED <<control, robots, optOut, ticking>>

Requeue(w, u, wait) ==
    Pop(w, u, [depth |-> frontier[u].depth, readyIn |-> wait], "done")

\* The checks of _processItem, in the order the code makes them.
Fresh(u)   == u \notin inFlight /\ cooldown[u] = 0
Welcome(u) == Fresh(u) /\ HostOf[u] \notin optOut
HasRoom(u) == Welcome(u) /\ active[HostOf[u]] < conf.perHost
Passes(u)  == HasRoom(u) /\ hostWait[HostOf[u]] = 0

popRepeat(w, u) ==
    /\ ~Fresh(u)
    /\ Pop(w, u, NotQueued, "done")
    /\ UNCHANGED <<graph, inFlight, hostState, api, left>>

popOptedOut(w, u) ==
    /\ Fresh(u) /\ ~Welcome(u)
    /\ Pop(w, u, NotQueued, "done")
    /\ status' = [status EXCEPT ![u] = "blocked"]
    /\ UNCHANGED <<nodes, cooldown, inFlight, hostState, api, left>>

popRequeued(w, u) ==
    /\ \/ Welcome(u) /\ ~HasRoom(u) /\ Requeue(w, u, HostWait)
       \/ HasRoom(u) /\ ~Passes(u) /\ Requeue(w, u, hostWait[HostOf[u]])
       \/ Passes(u) /\ u \in Searches /\ apiActive >= 1 /\ Requeue(w, u, ApiRetry)
       \/ Passes(u) /\ u \in Searches /\ apiActive = 0 /\ apiWait > 0
                    /\ Requeue(w, u, apiWait)
    /\ UNCHANGED <<graph, inFlight, hostState, api, left>>

\* Faulty: without the single-connection check.
UncheckedPopSearch(w, u) ==
    /\ Passes(u) /\ u \in Searches /\ apiWait = 0
    /\ Pop(w, u, NotQueued, "api")
    /\ inFlight' = inFlight \cup {u}
    /\ active' = [active EXCEPT ![HostOf[u]] = @ + 1]
    /\ hostWait' = [hostWait EXCEPT ![HostOf[u]] = Larger(DefaultDelay, ApiDelay)]
    /\ apiActive' = apiActive + 1 /\ apiWait' = ApiDelay
    /\ status' = [status EXCEPT ![u] = "fetching"]
    /\ cooldown' = [cooldown EXCEPT ![u] = Cooldown]
    /\ left' = [left EXCEPT ![w] = Timeout]
    /\ UNCHANGED <<nodes, backoff>>

\* _processArxivSearchItem up to its request: no await since the checks.
popSearch(w, u) ==
    /\ Passes(u) /\ u \in Searches /\ apiActive = 0 /\ apiWait = 0
    /\ Pop(w, u, NotQueued, "api")
    /\ inFlight' = inFlight \cup {u}
    /\ active' = [active EXCEPT ![HostOf[u]] = @ + 1]
    /\ hostWait' = [hostWait EXCEPT ![HostOf[u]] =
                       Larger(DefaultDelay, Larger(ApiDelay, backoff[HostOf[u]]))]
    /\ apiActive' = apiActive + 1
    /\ apiWait' = Larger(ApiDelay, backoff[HostOf[u]])
    /\ status' = [status EXCEPT ![u] = "fetching"]
    /\ cooldown' = [cooldown EXCEPT ![u] = Cooldown]
    /\ left' = [left EXCEPT ![w] = Timeout]
    /\ UNCHANGED <<nodes, backoff>>

\* _policyFor: a cached policy resumes in a microtask, otherwise robots.txt is
\* requested.
popPage(w, u) ==
    /\ Passes(u) /\ u \notin Searches
    /\ Pop(w, u, NotQueued, IF robots[HostOf[u]] = "unknown" THEN "robots" ELSE "resume")
    /\ left' = [left EXCEPT ![w] = IF robots[HostOf[u]] = "unknown" THEN Timeout ELSE @]
    /\ UNCHANGED <<graph, inFlight, hostState, api>>

-----------------------------------------------------------------------------
(* _processItem after each await                                               *)

GoTo(w, phase) == pc' = [pc EXCEPT ![w] = phase] /\ UNCHANGED item

\* _processItem returns; tick's finally frees the slot in a microtask.
Return(w) ==
    /\ pc' = [pc EXCEPT ![w] = "done"]
    /\ item' = [item EXCEPT ![w] = NoItem]
    /\ left' = [left EXCEPT ![w] = 0]

\* robots.txt arrived (rules), or the request failed or was refused (permissive).
robotsAnswer(w, policy) ==
    /\ Quiet /\ pc[w] = "robots"
    /\ robots' = [robots EXCEPT ![host(w)] = policy]
    /\ left' = [left EXCEPT ![w] = 0]
    /\ GoTo(w, "resume")
    /\ UNCHANGED <<control, graph, frontier, inFlight, hostState, optOut, api, ticking>>

DelayOf(h) == IF robots[h] = "rules" THEN Larger(DefaultDelay, RobotsDelay[h])
                                     ELSE DefaultDelay
Forbidden(u) == robots[HostOf[u]] = "rules" /\ u \in Disallowed

robotsBlock(w) ==
    /\ ~ticking /\ pc[w] = "resume" /\ Forbidden(item[w].url)
    /\ status' = [status EXCEPT ![item[w].url] = "blocked"]
    /\ Return(w)
    /\ UNCHANGED <<control, nodes, cooldown, frontier, inFlight, hostState, robots,
                   optOut, api, ticking>>

\* Faulty: the cooldown starts only once the page is fetched.
UncoveredFetchStart(w) ==
    /\ ~ticking /\ pc[w] = "resume" /\ ~Forbidden(item[w].url)
    /\ inFlight' = inFlight \cup {item[w].url}
    /\ active' = [active EXCEPT ![host(w)] = @ + 1]
    /\ hostWait' = [hostWait EXCEPT ![host(w)] = DelayOf(host(w)) + backoff[host(w)]]
    /\ status' = [status EXCEPT ![item[w].url] = "fetching"]
    /\ left' = [left EXCEPT ![w] = Timeout]
    /\ GoTo(w, "fetch")
    /\ UNCHANGED <<control, nodes, cooldown, frontier, backoff, robots, optOut, api,
                   ticking>>

\* The request of the page goes out; none of the earlier checks is repeated.
fetchStart(w) ==
    /\ ~ticking /\ pc[w] = "resume" /\ ~Forbidden(item[w].url)
    /\ inFlight' = inFlight \cup {item[w].url}
    /\ active' = [active EXCEPT ![host(w)] = @ + 1]
    /\ hostWait' = [hostWait EXCEPT ![host(w)] = DelayOf(host(w)) + backoff[host(w)]]
    /\ status' = [status EXCEPT ![item[w].url] = "fetching"]
    /\ cooldown' = [cooldown EXCEPT ![item[w].url] = Cooldown]
    /\ left' = [left EXCEPT ![w] = Timeout]
    /\ GoTo(w, "fetch")
    /\ UNCHANGED <<control, nodes, frontier, backoff, robots, optOut, api, ticking>>

\* Faulty: the URL stays in inFlightUrls.
LeakyPageFinally(w) ==
    /\ active' = [active EXCEPT ![host(w)] = Larger(0, @ - 1)]
    /\ Return(w)
    /\ UNCHANGED <<control, inFlight, hostWait, robots, optOut, api, ticking>>

\* The finally blocks.  Only a page fetch ends the crawl at its node limit.
PageFinally(w) ==
    LET full == Cardinality(nodes') >= conf.nodes
    IN  /\ running' = (running /\ ~full) /\ paused' = (paused /\ ~full)
        /\ inFlight' = inFlight \ {item[w].url}
        /\ active' = [active EXCEPT ![host(w)] = Larger(0, @ - 1)]
        /\ Return(w)
        /\ UNCHANGED <<conf, hostWait, robots, optOut, api, ticking>>

ApiFinally(w) ==
    /\ inFlight' = inFlight \ {item[w].url}
    /\ active' = [active EXCEPT ![host(w)] = Larger(0, @ - 1)]
    /\ apiActive' = Larger(0, apiActive - 1)
    /\ Return(w)
    /\ UNCHANGED <<control, hostWait, robots, optOut, apiWait, ticking>>

Raised(b)  == Smaller(MaxBackoff, IF b > 0 THEN 2 * b ELSE 1)
Backoff(w, b) == backoff' = [backoff EXCEPT ![host(w)] = b]

\* The response line arrived.  A redirect adds the node the request ended at.
Redirected(w) ==
    LET to == {Redirect[item[w].url]} \ nodes
    IN  \E F \in Creations(to, nodes, conf.nodes) : nodes' = nodes \cup F

fetchHeaders(w) ==
    /\ Quiet /\ pc[w] = "fetch"
    /\ Redirected(w)
    /\ Backoff(w, backoff[host(w)] \div 2)
    /\ GoTo(w, "body")
    /\ UNCHANGED <<control, status, cooldown, frontier, inFlight, active, hostWait,
                   robots, optOut, api, left, ticking>>

\* A status that is not ok; 429 and 503 raise the host's backoff.
fetchRefused(w, throttled) ==
    /\ Quiet /\ pc[w] = "fetch"
    /\ Redirected(w)
    /\ Backoff(w, IF throttled THEN Raised(backoff[host(w)]) ELSE backoff[host(w)] \div 2)
    /\ status' = [status EXCEPT ![item[w].url] = "settled"]
    /\ PageFinally(w)
    /\ UNCHANGED <<cooldown, frontier>>

\* The body arrived.  A page whose content another URL has already is not
\* read for links.  The URL itself is still in flight here.
fetchBody(w, duplicate) ==
    LET u    == item[w].url
        cool == [cooldown EXCEPT ![u] = Cooldown]
        stat == [status EXCEPT ![u] = "settled"]
    IN  /\ Quiet /\ pc[w] = "body"
        /\ cooldown' = cool
        /\ Enqueue(IF duplicate THEN {} ELSE Links[u], IF duplicate THEN {} ELSE Mentions[u],
                   item[w].depth + 1, cool, inFlight, stat, conf)
        /\ PageFinally(w)
        /\ UNCHANGED backoff

\* Faulty: the catch block leaves the node's status as it was.
SilentFetchError(w) ==
    /\ Quiet /\ pc[w] \in PageFetch
    /\ Backoff(w, Raised(backoff[host(w)]))
    /\ nodes' = nodes
    /\ PageFinally(w)
    /\ UNCHANGED <<status, cooldown, frontier>>

\* Faulty: the abort timer is cleared when the headers arrive.
HeaderOnlyFetchError(w) ==
    /\ Quiet /\ pc[w] = "fetch"
    /\ status' = [status EXCEPT ![item[w].url] = "settled"]
    /\ Backoff(w, Raised(backoff[host(w)]))
    /\ nodes' = nodes
    /\ PageFinally(w)
    /\ UNCHANGED <<cooldown, frontier>>

\* The request or the body fails; at left = 0 the AbortController makes it fail.
fetchError(w) ==
    /\ Quiet /\ pc[w] \in PageFetch
    /\ status' = [status EXCEPT ![item[w].url] = "settled"]
    /\ Backoff(w, Raised(backoff[host(w)]))
    /\ nodes' = nodes
    /\ PageFinally(w)
    /\ UNCHANGED <<cooldown, frontier>>

apiHeaders(w) ==
    /\ Quiet /\ pc[w] = "api"
    /\ Backoff(w, backoff[host(w)] \div 2)
    /\ GoTo(w, "apibody")
    /\ UNCHANGED <<control, graph, frontier, inFlight, active, hostWait, robots, optOut,
                   api, left, ticking>>

apiRefused(w, throttled) ==
    /\ Quiet /\ pc[w] = "api"
    /\ Backoff(w, IF throttled THEN Raised(backoff[host(w)]) ELSE backoff[host(w)] \div 2)
    /\ status' = [status EXCEPT ![item[w].url] = "settled"]
    /\ ApiFinally(w)
    /\ UNCHANGED <<nodes, cooldown, frontier>>

apiBody(w) ==
    LET u == item[w].url
    IN  /\ Quiet /\ pc[w] = "apibody"
        /\ Enqueue(Links[u], {}, item[w].depth + 1, cooldown, inFlight,
                   [status EXCEPT ![u] = "settled"], conf)
        /\ cooldown' = [cooldown EXCEPT ![u] = Cooldown]
        /\ ApiFinally(w)
        /\ UNCHANGED backoff

\* Faulty: the catch block leaves the node's status as it was.
SilentApiError(w) ==
    /\ Quiet /\ pc[w] \in ApiFetch
    /\ Backoff(w, Raised(backoff[host(w)]))
    /\ ApiFinally(w)
    /\ UNCHANGED <<graph, frontier>>

apiError(w) ==
    /\ Quiet /\ pc[w] \in ApiFetch
    /\ status' = [status EXCEPT ![item[w].url] = "settled"]
    /\ Backoff(w, Raised(backoff[host(w)]))
    /\ ApiFinally(w)
    /\ UNCHANGED <<nodes, cooldown, frontier>>

release(w) ==
    /\ ~ticking /\ pc[w] = "done"
    /\ pc' = [pc EXCEPT ![w] = "free"]
    /\ UNCHANGED <<control, graph, frontier, inFlight, hostState, robots, optOut, api,
                   item, left, ticking>>

-----------------------------------------------------------------------------
(* The clock and the environment                                               *)

\* One unit passes.  A due abort fires first.
Elapse ==
    /\ Quiet /\ \A w \in Workers : pc[w] \in Network => left[w] > 0
    /\ cooldown' = [u \in URLs |-> Sooner(cooldown[u])]
    /\ frontier' = [u \in URLs |-> IF Queued(u)
                        THEN [frontier[u] EXCEPT !.readyIn = Sooner(@)] ELSE NotQueued]
    /\ hostWait' = [h \in Hosts |-> Sooner(hostWait[h])]
    /\ apiWait' = Sooner(apiWait)
    /\ left' = [w \in Workers |-> IF pc[w] \in Network THEN Sooner(left[w]) ELSE left[w]]
    /\ UNCHANGED <<control, nodes, status, inFlight, active, backoff, robots, optOut,
                   apiActive, pc, item, ticking>>

\* The cached policy of a host outlives ROBOTS_CACHE_TTL_MS.
robotsExpire(h) ==
    /\ Quiet /\ robots[h] # "unknown"
    /\ robots' = [robots EXCEPT ![h] = "unknown"]
    /\ UNCHANGED <<control, graph, frontier, inFlight, hostState, optOut, api, worker,
                   ticking>>

Control ==
    \/ \E S \in Seeds, c \in Confs : start(S, c)
    \/ pause \/ resume \/ stop
    \/ \E h \in Hosts : addOptOutDomain(h) \/ removeOptOutDomain(h)
    \/ \E u \in URLs, d \in 0..conf.depth + 1, threshold \in BOOLEAN :
           activateNode(u, d, threshold)

tick ==
    \/ tickBegin \/ tickEnd
    \/ \E w \in Workers, u \in URLs :
           \/ popRepeat(w, u) \/ popOptedOut(w, u) \/ popRequeued(w, u)
           \/ popSearch(w, u) \/ popPage(w, u)

Microtask(w) == robotsBlock(w) \/ fetchStart(w) \/ release(w)

Answer(w) ==
    \/ \E policy \in {"rules", "permissive"} : robotsAnswer(w, policy)
    \/ fetchHeaders(w) \/ apiHeaders(w) \/ apiBody(w)
    \/ \E b \in BOOLEAN : fetchRefused(w, b) \/ fetchBody(w, b) \/ apiRefused(w, b)

Fail(w) == fetchError(w) \/ apiError(w)

Next ==
    \/ Control \/ tick \/ Elapse
    \/ \E w \in Workers : Microtask(w) \/ Answer(w) \/ Fail(w)
    \/ \E h \in Hosts : robotsExpire(h)

Spec == Init /\ [][Next]_vars

\* The event loop runs every callback that is due and time goes on; whether a
\* server ever answers is not assumed.
Fairness ==
    /\ WF_vars(tick /\ ticking) /\ SF_vars(Elapse)
    /\ \A w \in Workers :
          /\ WF_vars(Microtask(w))
          /\ SF_vars(left[w] = 0 /\ (Fail(w) \/ robotsAnswer(w, "permissive")))

FairSpec == Spec /\ Fairness

-----------------------------------------------------------------------------
(* Properties                                                                  *)

\* domainState.active counts exactly the requests under way at the host, over
\* every exit of _processItem and _processArxivSearchItem and across stop().
ActiveCountExact ==
    \A h \in Hosts :
        active[h] = Cardinality({w \in Workers : Fetching(w) /\ host(w) = h})

\* The arXiv API is asked by one worker at a time, and arxivApiState.active is 1
\* exactly while it is asked: no await separates its check from its increment.
ArxivSingleConnection ==
    /\ \A v, w \in Workers : pc[v] \in ApiFetch /\ pc[w] \in ApiFetch => v = w
    /\ apiActive = IF \E w \in Workers : pc[w] \in ApiFetch THEN 1 ELSE 0

\* A URL in inFlightUrls is being fetched: none is left behind by a failed, a
\* refused or a stopped fetch, which would keep the URL out of the crawl for good.
InFlightIsBacked ==
    \A u \in inFlight : \E w \in Workers : Fetching(w) /\ item[w].url = u

\* A URL being fetched is cooling down for longer than its fetch can last.  So
\* stop(), which empties inFlightUrls under running fetches, followed by
\* start() does not fetch the URL twice.
FetchIsCovered ==
    \A w \in Workers : Fetching(w) => left[w] < cooldown[item[w].url]

\* A node shown as "fetching" has a worker that fetches it.
NoStuckFetching ==
    \A u \in URLs : status[u] = "fetching"
        => \E w \in Workers : Fetching(w) /\ item[w].url = u

\* What the frontier and the workers hold are nodes of the graph, so every
\* setUrlStatus on them finds its node.
WorkIsInGraph ==
    /\ \A u \in URLs : Queued(u) => u \in nodes
    /\ \A w \in Workers : pc[w] \notin {"free", "done"} => item[w].url \in nodes

\* Every busy slot becomes free again, even when no server ever answers.
SlotsReturn == \A w \in Workers : pc[w] # "free" ~> pc[w] = "free"

\* The guardrail "crawl-delay": a page request goes out only when the delay
\* since the host's last request has passed.
CrawlDelayKept ==
    [][\A w \in Workers :
          pc[w] = "resume" /\ pc'[w] = "fetch" => hostWait[host(w)] = 0]_vars
=============================================================================
