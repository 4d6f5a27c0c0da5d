------------------------ MODULE WebGraphWeaver_proofs ------------------------
(* Theorems about the crawl scheduler for every web, every number of workers   *)
(* and every set of limits.                                                    *)
EXTENDS WebGraphWeaver, FiniteSetTheorems, TLAPS

-----------------------------------------------------------------------------
(* Helpers                                                                     *)

LEMMA Bounds ==
    ASSUME NEW x \in Nat, NEW y \in Nat
    PROVE  /\ Larger(x, y) \in Nat /\ Smaller(x, y) \in Nat
           /\ Sooner(x) \in Nat /\ Larger(0, x - 1) \in Nat
           /\ x \div 2 \in Nat
  BY DEF Larger, Smaller, Sooner

LEMMA RaisedBound == ASSUME NEW b \in Nat PROVE Raised(b) \in Nat
  BY DelayAssumption DEF Raised, Smaller

LEMMA NoItemType == NoItem \in Item
  BY SizeAssumption DEF NoItem, Item

\* enqueueUrl keeps the types of the graph and of the frontier.
LEMMA EnqueueType ==
    ASSUME TypeOK, NEW L, NEW M \in SUBSET URLs, NEW d \in Nat, NEW cool, NEW flying,
           NEW stat \in [URLs -> Statuses], NEW c,
           L \subseteq URLs,
           Enqueue(L, M, d, cool, flying, stat, c)
    PROVE  /\ nodes' \subseteq URLs /\ nodes \subseteq nodes'
           /\ frontier' \in [URLs -> Entry \cup {NotQueued}]
           /\ status' \in [URLs -> Statuses]
  <1> DEFINE ok == Eligible(L, d, cool, flying, c)
  <1>1. ok \subseteq URLs
    BY DEF Eligible
  <1>2. PICK F \in Creations((ok \cup M) \ nodes, nodes, c.nodes) :
            /\ nodes' = nodes \cup F
            /\ frontier' = [u \in URLs |->
                   IF u \in ok \cap (nodes \cup F) THEN [depth |-> d, readyIn |-> 0]
                   ELSE frontier[u]]
            /\ status' = [u \in URLs |->
                   IF u \in ok \cap (nodes \cup F) THEN "queued" ELSE stat[u]]
    BY DEF Enqueue
  <1>3. F \subseteq URLs
    BY <1>1 DEF Creations
  <1>4. [depth |-> d, readyIn |-> 0] \in Entry
    BY DEF Entry
  <1> HIDE DEF ok
  <1> QED
    BY <1>2, <1>3, <1>4 DEF TypeOK, Statuses

-----------------------------------------------------------------------------
(* Type correctness                                                            *)

LEMMA InitType == ASSUME Init PROVE TypeOK
  <1>1. "free" \in Phases /\ "discovered" \in Statuses
    BY DEF Phases, Statuses
  <1>2. conf \in Conf
    BY ConfAssumption DEF Init
  <1> QED
    BY <1>1, <1>2, NoItemType DEF Init, TypeOK

LEMMA PopType ==
    ASSUME TypeOK, NEW w \in Workers, NEW u \in URLs,
           NEW e \in Entry \cup {NotQueued}, NEW phase \in Phases, Pop(w, u, e, phase)
    PROVE  /\ frontier' \in [URLs -> Entry \cup {NotQueued}]
           /\ item' \in [Workers -> Item] /\ pc' \in [Workers -> Phases]
           /\ frontier[u] \in Entry
  <1>1. frontier[u] \in Entry
    BY DEF TypeOK, Pop, Ready, Queued
  <1>2. [url |-> u, depth |-> frontier[u].depth] \in Item
    BY <1>1 DEF Entry, Item
  <1> QED
    BY <1>1, <1>2, NoItemType DEF TypeOK, Pop

LEMMA ReturnType ==
    ASSUME TypeOK, NEW w \in Workers, Return(w)
    PROVE  /\ pc' \in [Workers -> Phases] /\ item' \in [Workers -> Item]
           /\ left' \in [Workers -> Nat]
  BY NoItemType DEF Return, TypeOK, Phases

LEMMA HostType ==
    ASSUME TypeOK, NEW w \in Workers
    PROVE  /\ item[w].url \in URLs /\ item[w].depth \in Nat /\ host(w) \in Hosts
           /\ active[host(w)] \in Nat /\ backoff[host(w)] \in Nat
           /\ hostWait[host(w)] \in Nat
  BY WebAssumption DEF TypeOK, Item, host

LEMMA ControlType == ASSUME TypeOK, Control PROVE TypeOK'
  <1>1. ASSUME NEW S \in Seeds, NEW c \in Confs, start(S, c) PROVE TypeOK'
    <2>1. S \subseteq URLs /\ {} \subseteq URLs /\ 0 \in Nat /\ c \in Conf
      BY WebAssumption, ConfAssumption
    <2>2. /\ nodes' \subseteq URLs /\ frontier' \in [URLs -> Entry \cup {NotQueued}]
          /\ status' \in [URLs -> Statuses]
      BY <1>1, <2>1, EnqueueType DEF start, TypeOK
    <2> QED
      BY <1>1, <2>1, <2>2
      DEF start, TypeOK, control, hostState, api, worker
  <1>2. ASSUME pause \/ resume PROVE TypeOK'
    BY <1>2 DEF pause, resume, TypeOK, control, graph, hostState, api, worker
  <1>3. ASSUME stop PROVE TypeOK'
    BY <1>3 DEF stop, TypeOK, control, graph, hostState, api, worker
  <1>4. ASSUME NEW h \in Hosts, addOptOutDomain(h) \/ removeOptOutDomain(h) PROVE TypeOK'
    BY <1>4 DEF addOptOutDomain, removeOptOutDomain, TypeOK, control, graph, hostState,
                api, worker
  <1>5. ASSUME NEW u \in URLs, NEW d \in 0..conf.depth + 1, NEW threshold \in BOOLEAN,
               activateNode(u, d, threshold)
        PROVE TypeOK'
    <2>1. d \in Nat /\ {u} \subseteq URLs
      BY DEF TypeOK, Conf
    <2>2. /\ nodes' \subseteq URLs /\ frontier' \in [URLs -> Entry \cup {NotQueued}]
          /\ status' \in [URLs -> Statuses]
      <3> DEFINE L == IF threshold THEN {u} ELSE {}
      <3>1. L \subseteq URLs
        OBVIOUS
      <3>2. Enqueue(L, {u}, d, cooldown, inFlight, status, conf)
        BY <1>5 DEF activateNode
      <3>3. status \in [URLs -> Statuses]
        BY DEF TypeOK
      <3> HIDE DEF L
      <3> QED
        BY <2>1, <3>1, <3>2, <3>3, EnqueueType
    <2> QED
      BY <1>5, <2>2 DEF activateNode, TypeOK, control, hostState, api, worker
  <1> QED
    BY <1>1, <1>2, <1>3, <1>4, <1>5 DEF Control

LEMMA TickType == ASSUME TypeOK, tick PROVE TypeOK'
  <1>1. ASSUME tickBegin \/ tickEnd PROVE TypeOK'
    BY <1>1 DEF tickBegin, tickEnd, TypeOK, control, graph, hostState, api, worker
  <1>2. ASSUME NEW w \in Workers, NEW u \in URLs, popRepeat(w, u) \/ popOptedOut(w, u)
        PROVE  TypeOK'
    <2>1. "done" \in Phases
      BY DEF Phases
    <2>2. /\ frontier' \in [URLs -> Entry \cup {NotQueued}]
          /\ item' \in [Workers -> Item] /\ pc' \in [Workers -> Phases]
      BY <1>2, <2>1, PopType DEF popRepeat, popOptedOut
    <2> QED
      BY <1>2, <2>2
      DEF popRepeat, popOptedOut, Pop, TypeOK, control, graph, hostState, api, Statuses
  <1>3. ASSUME NEW w \in Workers, NEW u \in URLs, popRequeued(w, u) PROVE TypeOK'
    <2>1. PICK wait \in Nat : Requeue(w, u, wait)
      BY <1>3, DelayAssumption, WebAssumption DEF popRequeued, TypeOK
    <2>2. "done" \in Phases
      BY DEF Phases
    <2>3. frontier[u] \in Entry
      BY <2>1 DEF Requeue, Pop, Ready, Queued, TypeOK
    <2>4. [depth |-> frontier[u].depth, readyIn |-> wait] \in Entry \cup {NotQueued}
      BY <2>3 DEF Entry
    <2>5. /\ frontier' \in [URLs -> Entry \cup {NotQueued}]
          /\ item' \in [Workers -> Item] /\ pc' \in [Workers -> Phases]
      BY <2>1, <2>2, <2>4, PopType DEF Requeue
    <2> QED
      BY <1>3, <2>1, <2>5
      DEF popRequeued, Requeue, Pop, TypeOK, control, graph, hostState, api
  <1>4. ASSUME NEW w \in Workers, NEW u \in URLs, popSearch(w, u) PROVE TypeOK'
    <2>1. "api" \in Phases
      BY DEF Phases, Network, ApiFetch
    <2>2. /\ frontier' \in [URLs -> Entry \cup {NotQueued}]
          /\ item' \in [Workers -> Item] /\ pc' \in [Workers -> Phases]
      BY <1>4, <2>1, PopType DEF popSearch
    <2>3. HostOf[u] \in Hosts /\ backoff[HostOf[u]] \in Nat
      BY WebAssumption DEF TypeOK
    <2>4. apiWait' \in Nat
      BY <1>4, <2>3, Bounds, DelayAssumption DEF popSearch
    <2>5. hostWait' \in [Hosts -> Nat]
      <3>1. Larger(DefaultDelay, Larger(ApiDelay, backoff[HostOf[u]])) \in Nat
        BY <2>3, Bounds, DelayAssumption
      <3> QED
        BY <1>4, <2>3, <3>1 DEF popSearch, TypeOK
    <2>6. active' \in [Hosts -> Nat] /\ apiActive' \in Nat
      BY <1>4, <2>3 DEF popSearch, TypeOK
    <2>7. /\ status' \in [URLs -> Statuses] /\ cooldown' \in [URLs -> Nat]
          /\ left' \in [Workers -> Nat] /\ inFlight' \subseteq URLs
      BY <1>4, DelayAssumption DEF popSearch, TypeOK, Statuses
    <2> QED
      BY <1>4, <2>2, <2>4, <2>5, <2>6, <2>7 DEF popSearch, Pop, TypeOK, control
  <1>5. ASSUME NEW w \in Workers, NEW u \in URLs, popPage(w, u) PROVE TypeOK'
    <2>1. "robots" \in Phases /\ "resume" \in Phases
      BY DEF Phases, Network
    <2>2. /\ frontier' \in [URLs -> Entry \cup {NotQueued}]
          /\ item' \in [Workers -> Item] /\ pc' \in [Workers -> Phases]
      BY <1>5, <2>1, PopType DEF popPage
    <2> QED
      BY <1>5, <2>2, DelayAssumption
      DEF popPage, Pop, TypeOK, control, graph, hostState, api
  <1> QED
    BY <1>1, <1>2, <1>3, <1>4, <1>5 DEF tick

LEMMA PageFinallyType ==
    ASSUME TypeOK, NEW w \in Workers, PageFinally(w)
    PROVE  /\ running' \in BOOLEAN /\ paused' \in BOOLEAN /\ conf' \in Conf
           /\ inFlight' \subseteq URLs
           /\ active' \in [Hosts -> Nat] /\ hostWait' \in [Hosts -> Nat]
           /\ robots' \in [Hosts -> {"unknown", "rules", "permissive"}]
           /\ optOut' \subseteq Hosts /\ apiActive' \in Nat /\ apiWait' \in Nat
           /\ pc' \in [Workers -> Phases] /\ item' \in [Workers -> Item]
           /\ left' \in [Workers -> Nat] /\ ticking' \in BOOLEAN
  <1>1. active[host(w)] \in Nat /\ host(w) \in Hosts
    BY HostType
  <1>2. Larger(0, active[host(w)] - 1) \in Nat
    BY <1>1, Bounds
  <1>3. active' \in [Hosts -> Nat]
    BY <1>1, <1>2 DEF PageFinally, TypeOK
  <1> QED
    BY <1>3, ReturnType DEF PageFinally, TypeOK, api

LEMMA ApiFinallyType ==
    ASSUME TypeOK, NEW w \in Workers, ApiFinally(w)
    PROVE  /\ running' \in BOOLEAN /\ paused' \in BOOLEAN /\ conf' \in Conf
           /\ inFlight' \subseteq URLs
           /\ active' \in [Hosts -> Nat] /\ hostWait' \in [Hosts -> Nat]
           /\ robots' \in [Hosts -> {"unknown", "rules", "permissive"}]
           /\ optOut' \subseteq Hosts /\ apiActive' \in Nat /\ apiWait' \in Nat
           /\ pc' \in [Workers -> Phases] /\ item' \in [Workers -> Item]
           /\ left' \in [Workers -> Nat] /\ ticking' \in BOOLEAN
  <1>1. active[host(w)] \in Nat /\ host(w) \in Hosts /\ apiActive \in Nat
    BY HostType DEF TypeOK
  <1>2. Larger(0, active[host(w)] - 1) \in Nat /\ Larger(0, apiActive - 1) \in Nat
    BY <1>1, Bounds
  <1>3. active' \in [Hosts -> Nat] /\ apiActive' \in Nat
    BY <1>1, <1>2 DEF ApiFinally, TypeOK
  <1> QED
    BY <1>3, ReturnType DEF ApiFinally, TypeOK, control

LEMMA BackoffType ==
    ASSUME TypeOK, NEW w \in Workers, NEW b \in Nat, Backoff(w, b)
    PROVE  backoff' \in [Hosts -> Nat]
  BY HostType DEF Backoff, TypeOK

LEMMA SettledType ==
    ASSUME TypeOK, NEW u \in URLs, NEW x \in Statuses
    PROVE  /\ [status EXCEPT ![u] = x] \in [URLs -> Statuses]
           /\ [cooldown EXCEPT ![u] = Cooldown] \in [URLs -> Nat]
  BY DelayAssumption DEF TypeOK

LEMMA MicrotaskType == ASSUME TypeOK, NEW w \in Workers, Microtask(w) PROVE TypeOK'
  <1>1. CASE robotsBlock(w)
    <2>1. status' \in [URLs -> Statuses]
      BY <1>1, HostType, SettledType DEF robotsBlock, Statuses
    <2> QED
      BY <1>1, <2>1, ReturnType DEF robotsBlock, TypeOK, control, hostState, api
  <1>2. CASE fetchStart(w)
    <2>1. DelayOf(host(w)) + backoff[host(w)] \in Nat
      <3>1. host(w) \in Hosts /\ backoff[host(w)] \in Nat
        BY HostType
      <3>2. RobotsDelay[host(w)] \in Nat /\ DefaultDelay \in Nat
        BY <3>1, WebAssumption, DelayAssumption
      <3>3. DelayOf(host(w)) \in Nat
        BY <3>2 DEF DelayOf, Larger
      <3> QED
        BY <3>1, <3>3
    <2>2. /\ hostWait' \in [Hosts -> Nat] /\ active' \in [Hosts -> Nat]
          /\ inFlight' \subseteq URLs /\ left' \in [Workers -> Nat]
      BY <1>2, <2>1, HostType, DelayAssumption DEF fetchStart, TypeOK
    <2>3. status' \in [URLs -> Statuses] /\ cooldown' \in [URLs -> Nat]
      BY <1>2, HostType, SettledType DEF fetchStart, Statuses
    <2>4. pc' \in [Workers -> Phases] /\ item' = item
      BY <1>2 DEF fetchStart, GoTo, TypeOK, Phases, Network, PageFetch
    <2> QED
      BY <1>2, <2>2, <2>3, <2>4 DEF fetchStart, TypeOK, control, api
  <1>3. CASE release(w)
    <2>1. pc' \in [Workers -> Phases]
      BY <1>3 DEF release, TypeOK, Phases
    <2> QED
      BY <1>3, <2>1 DEF release, TypeOK, control, graph, hostState, api
  <1> QED
    BY <1>1, <1>2, <1>3 DEF Microtask

\* What the actions that answer or fail a request leave to show.
LEMMA PageEndType ==
    ASSUME TypeOK, NEW w \in Workers, PageFinally(w),
           nodes' \subseteq URLs, status' \in [URLs -> Statuses],
           cooldown' \in [URLs -> Nat], backoff' \in [Hosts -> Nat],
           frontier' \in [URLs -> Entry \cup {NotQueued}]
    PROVE  TypeOK'
  BY PageFinallyType DEF TypeOK

LEMMA ApiEndType ==
    ASSUME TypeOK, NEW w \in Workers, ApiFinally(w),
           nodes' \subseteq URLs, status' \in [URLs -> Statuses],
           cooldown' \in [URLs -> Nat], backoff' \in [Hosts -> Nat],
           frontier' \in [URLs -> Entry \cup {NotQueued}]
    PROVE  TypeOK'
  BY ApiFinallyType DEF TypeOK

LEMMA RedirectedType ==
    ASSUME TypeOK, NEW w \in Workers, Redirected(w) PROVE nodes' \subseteq URLs
  <1>1. Redirect[item[w].url] \in URLs
    BY HostType, WebAssumption
  <1> QED
    BY <1>1 DEF Redirected, Creations, TypeOK

LEMMA RefusalType ==
    ASSUME TypeOK, NEW w \in Workers, NEW b \in BOOLEAN,
           Backoff(w, IF b THEN Raised(backoff[host(w)]) ELSE backoff[host(w)] \div 2)
    PROVE  backoff' \in [Hosts -> Nat]
  <1> DEFINE raised == IF b THEN Raised(backoff[host(w)]) ELSE backoff[host(w)] \div 2
  <1>1. backoff[host(w)] \in Nat
    BY HostType
  <1>2. raised \in Nat
    BY <1>1, RaisedBound, Bounds
  <1>3. Backoff(w, raised)
    OBVIOUS
  <1> HIDE DEF raised
  <1> QED
    BY <1>2, <1>3, BackoffType

LEMMA AnswerType == ASSUME TypeOK, NEW w \in Workers, Answer(w) PROVE TypeOK'
  <1>0. /\ item[w].url \in URLs /\ item[w].depth + 1 \in Nat /\ host(w) \in Hosts
        /\ backoff[host(w)] \in Nat /\ backoff[host(w)] \div 2 \in Nat
        /\ "settled" \in Statuses
        /\ {} \subseteq URLs /\ Links[item[w].url] \subseteq URLs
        /\ Mentions[item[w].url] \subseteq URLs
    <2>1. /\ item[w].url \in URLs /\ item[w].depth \in Nat /\ host(w) \in Hosts
          /\ backoff[host(w)] \in Nat
      BY HostType
    <2>2. backoff[host(w)] \div 2 \in Nat
      BY <2>1, Bounds
    <2> QED
      BY <2>1, <2>2, WebAssumption DEF Statuses
  <1>1. ASSUME NEW policy \in {"rules", "permissive"}, robotsAnswer(w, policy)
        PROVE  TypeOK'
    <2>1. pc' \in [Workers -> Phases] /\ item' = item
      BY <1>1 DEF robotsAnswer, GoTo, TypeOK, Phases
    <2> QED
      BY <1>0, <1>1, <2>1 DEF robotsAnswer, TypeOK, control, graph, hostState, api
  <1>2. CASE fetchHeaders(w)
    <2>1. pc' \in [Workers -> Phases] /\ item' = item
      BY <1>2 DEF fetchHeaders, GoTo, TypeOK, Phases, Network, PageFetch
    <2>2. backoff' \in [Hosts -> Nat]
      BY <1>0, <1>2, BackoffType DEF fetchHeaders
    <2>3. nodes' \subseteq URLs
      BY <1>2, RedirectedType DEF fetchHeaders
    <2> QED
      BY <1>2, <2>1, <2>2, <2>3 DEF fetchHeaders, TypeOK, control, api
  <1>3. CASE apiHeaders(w)
    <2>1. pc' \in [Workers -> Phases] /\ item' = item
      BY <1>3 DEF apiHeaders, GoTo, TypeOK, Phases, Network, ApiFetch
    <2>2. backoff' \in [Hosts -> Nat]
      BY <1>0, <1>3, BackoffType DEF apiHeaders
    <2> QED
      BY <1>3, <2>1, <2>2 DEF apiHeaders, TypeOK, control, graph, api
  <1>4. CASE apiBody(w)
    <2>1. [status EXCEPT ![item[w].url] = "settled"] \in [URLs -> Statuses]
      BY <1>0, SettledType
    <2>2. /\ nodes' \subseteq URLs /\ status' \in [URLs -> Statuses]
          /\ frontier' \in [URLs -> Entry \cup {NotQueued}]
      BY <1>0, <1>4, <2>1, EnqueueType DEF apiBody
    <2>3. cooldown' \in [URLs -> Nat]
      BY <1>0, <1>4, SettledType DEF apiBody
    <2> QED
      BY <1>4, <2>2, <2>3, ApiEndType DEF apiBody, TypeOK
  <1>5. ASSUME NEW b \in BOOLEAN, fetchRefused(w, b) PROVE TypeOK'
    <2>1. status' \in [URLs -> Statuses]
      BY <1>0, <1>5, SettledType DEF fetchRefused
    <2>2. backoff' \in [Hosts -> Nat]
      BY <1>5, RefusalType DEF fetchRefused
    <2> QED
      BY <1>5, <2>1, <2>2, RedirectedType, PageEndType DEF fetchRefused, TypeOK
  <1>6. ASSUME NEW b \in BOOLEAN, fetchBody(w, b) PROVE TypeOK'
    <2> DEFINE L == IF b THEN {} ELSE Links[item[w].url]
               M == IF b THEN {} ELSE Mentions[item[w].url]
               cool == [cooldown EXCEPT ![item[w].url] = Cooldown]
               stat == [status EXCEPT ![item[w].url] = "settled"]
    <2>1. L \in SUBSET URLs /\ M \in SUBSET URLs
      BY <1>0
    <2>2. stat \in [URLs -> Statuses] /\ cool \in [URLs -> Nat]
      BY <1>0, SettledType
    <2>3. /\ Enqueue(L, M, item[w].depth + 1, cool, inFlight, stat, conf)
          /\ cooldown' = cool /\ PageFinally(w) /\ backoff' = backoff
      BY <1>6 DEF fetchBody
    <2> HIDE DEF L, M, cool, stat
    <2>4. /\ nodes' \subseteq URLs /\ status' \in [URLs -> Statuses]
          /\ frontier' \in [URLs -> Entry \cup {NotQueued}]
      BY <1>0, <2>1, <2>2, <2>3, EnqueueType
    <2> QED
      BY <2>2, <2>3, <2>4, PageEndType DEF TypeOK
  <1>7. ASSUME NEW b \in BOOLEAN, apiRefused(w, b) PROVE TypeOK'
    <2>1. status' \in [URLs -> Statuses]
      BY <1>0, <1>7, SettledType DEF apiRefused
    <2>2. backoff' \in [Hosts -> Nat]
      BY <1>7, RefusalType DEF apiRefused
    <2> QED
      BY <1>7, <2>1, <2>2, ApiEndType DEF apiRefused, TypeOK
  <1> QED
    BY <1>1, <1>2, <1>3, <1>4, <1>5, <1>6, <1>7 DEF Answer

LEMMA FailType == ASSUME TypeOK, NEW w \in Workers, Fail(w) PROVE TypeOK'
  <1>1. /\ item[w].url \in URLs /\ "settled" \in Statuses
        /\ Raised(backoff[host(w)]) \in Nat
    BY HostType, RaisedBound DEF Statuses
  <1>2. status' \in [URLs -> Statuses] /\ backoff' \in [Hosts -> Nat]
    BY <1>1, SettledType, BackoffType DEF Fail, fetchError, apiError
  <1>3. CASE fetchError(w)
    BY <1>2, <1>3, PageEndType DEF fetchError, TypeOK
  <1>4. CASE apiError(w)
    BY <1>2, <1>4, ApiEndType DEF apiError, TypeOK
  <1> QED
    BY <1>3, <1>4 DEF Fail

LEMMA ElapseType == ASSUME TypeOK, Elapse PROVE TypeOK'
  <1>1. /\ cooldown' \in [URLs -> Nat] /\ hostWait' \in [Hosts -> Nat]
        /\ apiWait' \in Nat /\ left' \in [Workers -> Nat]
    BY Bounds DEF Elapse, TypeOK
  <1>2. frontier' \in [URLs -> Entry \cup {NotQueued}]
    <2>1. ASSUME NEW u \in URLs, Queued(u)
          PROVE  [frontier[u] EXCEPT !.readyIn = Sooner(@)] \in Entry
      <3>1. frontier[u] \in Entry
        BY <2>1 DEF TypeOK, Queued
      <3>2. Sooner(frontier[u].readyIn) \in Nat
        BY <3>1, Bounds DEF Entry
      <3> QED
        BY <3>1, <3>2 DEF Entry
    <2> QED
      BY <2>1 DEF Elapse
  <1> QED
    BY <1>1, <1>2 DEF Elapse, TypeOK, control

LEMMA NextType == ASSUME TypeOK, [Next]_vars PROVE TypeOK'
  <1>1. ASSUME NEW h \in Hosts, robotsExpire(h) PROVE TypeOK'
    BY <1>1 DEF robotsExpire, TypeOK, control, graph, hostState, api, worker
  <1>2. CASE UNCHANGED vars
    BY <1>2 DEF vars, TypeOK, control, graph, hostState, api, worker
  <1> QED
    BY <1>1, <1>2, ControlType, TickType, ElapseType, MicrotaskType, AnswerType, FailType
    DEF Next

\* Every variable keeps its type, whatever the web, the limits and the order of
\* the callbacks.
THEOREM TypeCorrect == Spec => []TypeOK
  <1>1. Init => TypeOK
    BY InitType
  <1>2. TypeOK /\ [Next]_vars => TypeOK'
    BY NextType
  <1> QED
    BY <1>1, <1>2, PTL DEF Spec

-----------------------------------------------------------------------------
(* Safety theorems of the crawl scheduler.  Every action either leaves the     *)
(* requests under way as they are, or one worker starts one, or one worker     *)
(* ends one; the lemmas of the first part say so and the theorems use them.    *)

\* The requests under way are the same, held by the same workers.
SameRequests ==
    \A w \in Workers : /\ Fetching(w)' <=> Fetching(w)
                       /\ pc'[w] \in ApiFetch <=> pc[w] \in ApiFetch
                       /\ Fetching(w) => item'[w] = item[w]

\* What is true of every worker but w when w starts or ends a request.
OthersKeep(w) ==
    \A v \in Workers \ {w} : pc'[v] = pc[v] /\ item'[v] = item[v]

Begins(w) ==
    /\ OthersKeep(w) /\ ~Fetching(w) /\ Fetching(w)'
    /\ item'[w] \in Item
    /\ active' = [active EXCEPT ![host(w)'] = @ + 1]

Ends(w) ==
    /\ OthersKeep(w) /\ Fetching(w) /\ ~Fetching(w)'
    /\ active' = [active EXCEPT ![host(w)] = Larger(0, @ - 1)]

\* Every step is one of these, and says what it does to arxivApiState.active.
Effect ==
    \/ SameRequests /\ UNCHANGED <<active, apiActive>>
    \/ \E w \in Workers :
          \/ Begins(w) /\ pc'[w] \in PageFetch /\ UNCHANGED apiActive
          \/ Begins(w) /\ pc'[w] \in ApiFetch /\ apiActive = 0 /\ apiActive' = 1
          \/ Ends(w) /\ pc[w] \in PageFetch /\ UNCHANGED apiActive
          \/ Ends(w) /\ pc[w] \in ApiFetch /\ apiActive' = Larger(0, apiActive - 1)

-----------------------------------------------------------------------------
(* Every step has one of the effects                                           *)

LEMMA IdleEffect ==
    ASSUME UNCHANGED <<worker, active, apiActive>> PROVE Effect
  BY DEF Effect, SameRequests, worker, Fetching

\* A slot that waits for no page and no feed moves to a phase of that kind.
LEMMA MoveEffect ==
    ASSUME TypeOK, NEW w \in Workers, NEW phase \in {"robots", "resume", "done", "free"},
           ~Fetching(w), pc' = [pc EXCEPT ![w] = phase],
           \A v \in Workers \ {w} : item'[v] = item[v],
           UNCHANGED <<active, apiActive>>
    PROVE  Effect
  BY DEF Effect, SameRequests, Fetching, TypeOK, PageFetch, ApiFetch

LEMMA PopEffect ==
    ASSUME TypeOK, NEW w \in Workers, NEW u \in URLs, NEW e,
           NEW phase \in {"robots", "resume", "done"}, Pop(w, u, e, phase),
           UNCHANGED <<active, apiActive>>
    PROVE  Effect
  <1>1. ~Fetching(w) /\ pc' = [pc EXCEPT ![w] = phase]
    BY DEF Pop, Fetching, PageFetch, ApiFetch
  <1>2. \A v \in Workers \ {w} : item'[v] = item[v]
    BY DEF Pop, TypeOK
  <1> QED
    BY <1>1, <1>2, MoveEffect

LEMMA SearchEffect ==
    ASSUME TypeOK, NEW w \in Workers, NEW u \in URLs, popSearch(w, u) PROVE Effect
  <1>1. frontier[u] \in Entry
    BY DEF popSearch, Pop, Ready, Queued, TypeOK
  <1>2. /\ ~Fetching(w) /\ pc' = [pc EXCEPT ![w] = "api"]
        /\ item' = [item EXCEPT ![w] = [url |-> u, depth |-> frontier[u].depth]]
    BY DEF popSearch, Pop, Fetching, PageFetch, ApiFetch
  <1>3. item'[w] = [url |-> u, depth |-> frontier[u].depth] /\ pc'[w] = "api"
    BY <1>2 DEF TypeOK
  <1>4. item'[w] \in Item /\ HostOf[item'[w].url] = HostOf[u]
    BY <1>1, <1>3 DEF Item, Entry
  <1>5. Begins(w)
    BY <1>2, <1>3, <1>4 DEF Begins, OthersKeep, popSearch, TypeOK, Fetching, ApiFetch, host
  <1>6. apiActive = 0 /\ apiActive' = 1
    BY DEF popSearch
  <1> QED
    BY <1>3, <1>5, <1>6 DEF Effect, ApiFetch

LEMMA FetchStartEffect ==
    ASSUME TypeOK, NEW w \in Workers, fetchStart(w) PROVE Effect
  <1>1. pc[w] = "resume" /\ pc' = [pc EXCEPT ![w] = "fetch"] /\ item' = item
    BY DEF fetchStart, GoTo
  <1>2. Begins(w)
    BY <1>1 DEF Begins, OthersKeep, fetchStart, TypeOK, Fetching, PageFetch, ApiFetch, host
  <1> QED
    BY <1>1, <1>2 DEF Effect, PageFetch, fetchStart, api, TypeOK

LEMMA EndEffect ==
    ASSUME TypeOK, NEW w \in Workers,
           \/ pc[w] \in PageFetch /\ PageFinally(w)
           \/ pc[w] \in ApiFetch /\ ApiFinally(w)
    PROVE  Effect
  <1>1. Fetching(w) /\ pc' = [pc EXCEPT ![w] = "done"] /\ item' = [item EXCEPT ![w] = NoItem]
    BY DEF Fetching, PageFinally, ApiFinally, Return
  <1>2. Ends(w)
    BY <1>1 DEF Ends, OthersKeep, PageFinally, ApiFinally, TypeOK, Fetching, PageFetch, ApiFetch
  <1> QED
    BY <1>2 DEF Effect, PageFinally, ApiFinally, api

LEMMA NextEffect == ASSUME TypeOK, [Next]_vars PROVE Effect
  <1>1. CASE Control
    BY <1>1, IdleEffect
    DEF Control, start, pause, resume, stop, addOptOutDomain, removeOptOutDomain,
        activateNode, hostState, api
  <1>2. CASE tick
    <2>1. CASE tickBegin \/ tickEnd
      BY <2>1, IdleEffect DEF tickBegin, tickEnd, hostState, api
    <2>2. ASSUME NEW w \in Workers, NEW u \in URLs,
                 popRepeat(w, u) \/ popOptedOut(w, u) \/ popRequeued(w, u)
          PROVE  Effect
      <3>1. PICK e : Pop(w, u, e, "done")
        BY <2>2 DEF popRepeat, popOptedOut, popRequeued, Requeue
      <3>2. UNCHANGED <<active, apiActive>>
        BY <2>2 DEF popRepeat, popOptedOut, popRequeued, hostState, api
      <3> QED
        BY <3>1, <3>2, PopEffect
    <2>3. ASSUME NEW w \in Workers, NEW u \in URLs, popPage(w, u) PROVE Effect
      <3>1. PICK phase \in {"robots", "resume"} : Pop(w, u, NotQueued, phase)
        BY <2>3 DEF popPage
      <3>2. UNCHANGED <<active, apiActive>>
        BY <2>3 DEF popPage, hostState, api
      <3> QED
        BY <3>1, <3>2, PopEffect
    <2> QED
      BY <1>2, <2>1, <2>2, <2>3, SearchEffect DEF tick
  <1>3. ASSUME NEW w \in Workers, Microtask(w) PROVE Effect
    <2>1. CASE robotsBlock(w)
      BY <2>1, MoveEffect
      DEF robotsBlock, Return, TypeOK, Fetching, PageFetch, ApiFetch, hostState, api
    <2>2. CASE release(w)
      BY <2>2, MoveEffect DEF release, Fetching, PageFetch, ApiFetch, hostState, api
    <2> QED
      BY <1>3, <2>1, <2>2, FetchStartEffect DEF Microtask
  <1>4. ASSUME NEW w \in Workers, Answer(w) PROVE Effect
    <2>1. ASSUME NEW policy \in {"rules", "permissive"}, robotsAnswer(w, policy)
          PROVE  Effect
      BY <2>1, MoveEffect
      DEF robotsAnswer, GoTo, Fetching, PageFetch, ApiFetch, hostState, api
    <2>2. CASE fetchHeaders(w) \/ apiHeaders(w)
      BY <2>2 DEF fetchHeaders, apiHeaders, GoTo, Effect, SameRequests, Fetching,
                  PageFetch, ApiFetch, TypeOK, api
    <2>3. ASSUME apiBody(w) \/ (\E b \in BOOLEAN : fetchRefused(w, b) \/ fetchBody(w, b)
                                                  \/ apiRefused(w, b))
          PROVE  \/ pc[w] \in PageFetch /\ PageFinally(w)
                 \/ pc[w] \in ApiFetch /\ ApiFinally(w)
      BY <2>3 DEF apiBody, fetchRefused, fetchBody, apiRefused, PageFetch, ApiFetch
    <2> QED
      BY <1>4, <2>1, <2>2, <2>3, EndEffect DEF Answer
  <1>5. ASSUME NEW w \in Workers, Fail(w) PROVE Effect
    BY <1>5, EndEffect DEF Fail, fetchError, apiError
  <1>6. CASE Elapse
    BY <1>6 DEF Elapse, Effect, SameRequests, Fetching
  <1>7. ASSUME NEW h \in Hosts, robotsExpire(h) PROVE Effect
    BY <1>7, IdleEffect DEF robotsExpire, hostState, api
  <1>8. CASE UNCHANGED vars
    BY <1>8, IdleEffect DEF vars, hostState, api
  <1> QED
    BY <1>1, <1>2, <1>3, <1>4, <1>5, <1>6, <1>7, <1>8 DEF Next

-----------------------------------------------------------------------------
(* One connection to the arXiv API                                             *)

LEMMA SearchStep ==
    ASSUME TypeOK, ArxivSingleConnection, Effect PROVE ArxivSingleConnection'
  <1>1. CASE SameRequests /\ UNCHANGED <<active, apiActive>>
    BY <1>1 DEF ArxivSingleConnection, SameRequests
  <1>2. ASSUME NEW w \in Workers, Begins(w), pc'[w] \in PageFetch, UNCHANGED apiActive
        PROVE  ArxivSingleConnection'
    BY <1>2 DEF ArxivSingleConnection, Begins, OthersKeep, PageFetch, ApiFetch, Fetching
  <1>3. ASSUME NEW w \in Workers, Begins(w), pc'[w] \in ApiFetch, apiActive = 0,
               apiActive' = 1
        PROVE  ArxivSingleConnection'
    <2>1. \A v \in Workers : pc[v] \notin ApiFetch
      BY <1>3 DEF ArxivSingleConnection
    <2>2. \A v \in Workers : pc'[v] \in ApiFetch => v = w
      BY <1>3, <2>1 DEF Begins, OthersKeep
    <2> QED
      BY <1>3, <2>2 DEF ArxivSingleConnection
  <1>4. ASSUME NEW w \in Workers, Ends(w), pc[w] \in PageFetch, UNCHANGED apiActive
        PROVE  ArxivSingleConnection'
    BY <1>4 DEF ArxivSingleConnection, Ends, OthersKeep, PageFetch, ApiFetch, Fetching
  <1>5. ASSUME NEW w \in Workers, Ends(w), pc[w] \in ApiFetch,
               apiActive' = Larger(0, apiActive - 1)
        PROVE  ArxivSingleConnection'
    <2>1. apiActive' = 0
      BY <1>5 DEF ArxivSingleConnection, Larger
    <2>2. \A v \in Workers : pc'[v] \notin ApiFetch
      BY <1>5 DEF ArxivSingleConnection, Ends, OthersKeep, Fetching
    <2> QED
      BY <2>1, <2>2 DEF ArxivSingleConnection
  <1> QED
    BY <1>1, <1>2, <1>3, <1>4, <1>5 DEF Effect

\* The arXiv API never has two requests of this crawler at once, and its counter
\* is exact, for any number of workers and searches.
THEOREM SingleConnection == Spec => []ArxivSingleConnection
  <1>1. Init => ArxivSingleConnection
    BY DEF Init, ArxivSingleConnection, ApiFetch
  <1>2. TypeOK /\ ArxivSingleConnection /\ [Next]_vars => ArxivSingleConnection'
    BY NextEffect, SearchStep
  <1> QED
    BY <1>1, <1>2, TypeCorrect, PTL DEF Spec

-----------------------------------------------------------------------------
(* The per-host counters                                                       *)

Requests(h) == {w \in Workers : Fetching(w) /\ host(w) = h}

LEMMA RequestsFinite ==
    ASSUME NEW h PROVE IsFiniteSet(Requests(h)) /\ Cardinality(Requests(h)) \in Nat
  <1>1. Requests(h) \subseteq Workers
    BY DEF Requests
  <1> QED
    BY <1>1, SizeAssumption, FS_Subset, FS_CardinalityType

LEMMA CountStep == ASSUME TypeOK, ActiveCountExact, Effect PROVE ActiveCountExact'
  <1> USE DEF ActiveCountExact
  <1>0. \A h \in Hosts : active[h] = Cardinality(Requests(h))
    BY DEF Requests
  <1>1. ASSUME SameRequests, UNCHANGED <<active, apiActive>> PROVE ActiveCountExact'
    <2>1. \A h \in Hosts : Requests(h)' = Requests(h)
      BY <1>1 DEF Requests, SameRequests, Fetching, host
    <2> QED
      BY <1>0, <1>1, <2>1 DEF Requests
  <1>2. ASSUME NEW w \in Workers, Begins(w) PROVE ActiveCountExact'
    <2>0. PICK hw \in Hosts : hw = HostOf[item'[w].url]
      BY <1>2, WebAssumption DEF Begins, Item
    <2>1. active' = [active EXCEPT ![hw] = @ + 1]
      BY <1>2, <2>0 DEF Begins, host
    <2>2. Requests(hw)' = Requests(hw) \cup {w} /\ w \notin Requests(hw)
      BY <1>2, <2>0 DEF Requests, Begins, OthersKeep, Fetching, host
    <2>3. \A h \in Hosts \ {hw} : Requests(h)' = Requests(h)
      BY <1>2, <2>0 DEF Requests, Begins, OthersKeep, Fetching, host
    <2>4. Cardinality(Requests(hw)') = Cardinality(Requests(hw)) + 1
      BY <2>2, RequestsFinite, FS_AddElement
    <2>5. \A h \in Hosts : active'[h] = Cardinality(Requests(h)')
      BY <1>0, <2>1, <2>3, <2>4 DEF TypeOK
    <2> QED
      BY <2>5 DEF Requests
  <1>3. ASSUME NEW w \in Workers, Ends(w) PROVE ActiveCountExact'
    <2>0. PICK hw \in Hosts : hw = host(w)
      BY HostType
    <2>1. active' = [active EXCEPT ![hw] = Larger(0, @ - 1)]
      BY <1>3, <2>0 DEF Ends
    <2>2. Requests(hw)' = Requests(hw) \ {w} /\ w \in Requests(hw)
      BY <1>3, <2>0 DEF Requests, Ends, OthersKeep, Fetching, host
    <2>3. \A h \in Hosts \ {hw} : Requests(h)' = Requests(h)
      BY <1>3, <2>0 DEF Requests, Ends, OthersKeep, Fetching, host
    <2>4. Cardinality(Requests(hw)') = Cardinality(Requests(hw)) - 1
      BY <2>2, RequestsFinite, FS_RemoveElement
    <2>5. Cardinality(Requests(hw)) # 0
      BY <2>2, RequestsFinite, FS_EmptySet
    <2>6. Larger(0, active[hw] - 1) = Cardinality(Requests(hw)) - 1
      BY <1>0, <2>1, <2>5, RequestsFinite DEF Larger
    <2>7. \A h \in Hosts : active'[h] = Cardinality(Requests(h)')
      BY <1>0, <2>1, <2>3, <2>4, <2>6 DEF TypeOK
    <2> QED
      BY <2>7 DEF Requests
  <1> QED
    BY <1>1, <1>2, <1>3 DEF Effect

\* domainState.active is the number of requests under way at its host, for every
\* web, every number of workers and every order of the callbacks.
THEOREM CountExact == Spec => []ActiveCountExact
  <1>1. Init => ActiveCountExact
    <2>1. ASSUME Init, NEW h \in Hosts
          PROVE  active[h] = Cardinality({w \in Workers : Fetching(w) /\ host(w) = h})
      <3>1. {w \in Workers : Fetching(w) /\ host(w) = h} = {}
        BY <2>1 DEF Init, Fetching, PageFetch, ApiFetch
      <3> QED
        BY <2>1, <3>1, FS_EmptySet DEF Init
    <2> QED
      BY <2>1 DEF ActiveCountExact
  <1>2. TypeOK /\ ActiveCountExact /\ [Next]_vars => ActiveCountExact'
    BY NextEffect, CountStep
  <1> QED
    BY <1>1, <1>2, TypeCorrect, PTL DEF Spec

-----------------------------------------------------------------------------
(* A fetch ends before its URL has cooled down                                 *)

\* The timers after every step but Elapse: a cooldown stands or starts anew, and
\* a request that was not under way begins under a cooldown that starts anew.
Rewound ==
    /\ \A u \in URLs : cooldown'[u] \in {cooldown[u], Cooldown}
    /\ \A w \in Workers : left'[w] \in {left[w], 0, Timeout}
    /\ \A w \in Workers : Fetching(w)' =>
          \/ Fetching(w) /\ item'[w] = item[w] /\ left'[w] = left[w]
          \/ item'[w].url \in URLs /\ cooldown'[item'[w].url] = Cooldown

LEMMA IdleRewound == ASSUME UNCHANGED <<worker, cooldown>> PROVE Rewound
  BY DEF Rewound, worker, Fetching

LEMMA PopRewound ==
    ASSUME TypeOK, NEW w \in Workers, NEW u \in URLs, NEW e,
           NEW phase \in {"robots", "resume", "done"}, Pop(w, u, e, phase),
           left' = left \/ left' = [left EXCEPT ![w] = Timeout],
           cooldown' = cooldown
    PROVE  Rewound
  <1>1. /\ pc[w] = "free" /\ pc' = [pc EXCEPT ![w] = phase]
        /\ \A v \in Workers \ {w} : item'[v] = item[v]
    BY DEF Pop, TypeOK
  <1> QED
    BY <1>1 DEF Rewound, Fetching, PageFetch, ApiFetch, TypeOK

LEMMA ReturnRewound ==
    ASSUME TypeOK, NEW w \in Workers, Return(w),
           \/ cooldown' = cooldown
           \/ cooldown' = [cooldown EXCEPT ![item[w].url] = Cooldown]
    PROVE  Rewound
  BY HostType DEF Rewound, Return, Fetching, PageFetch, ApiFetch, TypeOK

LEMMA NextRewound == ASSUME TypeOK, Next, ~Elapse PROVE Rewound
  <1>1. CASE Control
    BY <1>1, IdleRewound
    DEF Control, start, pause, resume, stop, addOptOutDomain, removeOptOutDomain,
        activateNode, graph
  <1>2. CASE tick
    <2>1. CASE tickBegin \/ tickEnd
      BY <2>1, IdleRewound DEF tickBegin, tickEnd, graph
    <2>2. ASSUME NEW w \in Workers, NEW u \in URLs,
                 popRepeat(w, u) \/ popOptedOut(w, u) \/ popRequeued(w, u)
          PROVE  Rewound
      <3>1. PICK e : Pop(w, u, e, "done")
        BY <2>2 DEF popRepeat, popOptedOut, popRequeued, Requeue
      <3>2. left' = left /\ cooldown' = cooldown
        BY <2>2 DEF popRepeat, popOptedOut, popRequeued, graph
      <3> QED
        BY <3>1, <3>2, PopRewound
    <2>3. ASSUME NEW w \in Workers, NEW u \in URLs, popPage(w, u) PROVE Rewound
      <3>1. PICK phase \in {"robots", "resume"} : Pop(w, u, NotQueued, phase)
        BY <2>3 DEF popPage
      <3>2. left' = left \/ left' = [left EXCEPT ![w] = Timeout]
        BY <2>3 DEF popPage, TypeOK
      <3>3. cooldown' = cooldown
        BY <2>3 DEF popPage, graph
      <3> QED
        BY <3>1, <3>2, <3>3, PopRewound
    <2>4. ASSUME NEW w \in Workers, NEW u \in URLs, popSearch(w, u) PROVE Rewound
      <3>1. item' = [item EXCEPT ![w] = [url |-> u, depth |-> frontier[u].depth]]
        BY <2>4 DEF popSearch, Pop
      <3>2. item'[w].url = u /\ cooldown' = [cooldown EXCEPT ![u] = Cooldown]
        BY <2>4, <3>1 DEF popSearch, TypeOK
      <3> QED
        BY <2>4, <3>1, <3>2 DEF popSearch, Pop, Rewound, Fetching, TypeOK
    <2> QED
      BY <1>2, <2>1, <2>2, <2>3, <2>4 DEF tick
  <1>3. ASSUME NEW w \in Workers, Microtask(w) PROVE Rewound
    <2>1. CASE robotsBlock(w)
      BY <2>1, ReturnRewound DEF robotsBlock
    <2>2. CASE fetchStart(w)
      BY <2>2, HostType DEF fetchStart, GoTo, Rewound, Fetching, TypeOK
    <2>3. CASE release(w)
      BY <2>3 DEF release, Rewound, Fetching, PageFetch, ApiFetch, TypeOK, graph
    <2> QED
      BY <1>3, <2>1, <2>2, <2>3 DEF Microtask
  <1>4. ASSUME NEW w \in Workers, Answer(w) PROVE Rewound
    <2>1. ASSUME NEW policy \in {"rules", "permissive"}, robotsAnswer(w, policy)
          PROVE  Rewound
      BY <2>1 DEF robotsAnswer, GoTo, Rewound, Fetching, PageFetch, ApiFetch, TypeOK, graph
    <2>2. CASE fetchHeaders(w) \/ apiHeaders(w)
      BY <2>2 DEF fetchHeaders, apiHeaders, GoTo, Rewound, Fetching, PageFetch, ApiFetch,
                  TypeOK, graph
    <2>3. CASE apiBody(w) \/ (\E b \in BOOLEAN : fetchRefused(w, b) \/ fetchBody(w, b)
                                                \/ apiRefused(w, b))
      BY <2>3, ReturnRewound
      DEF apiBody, fetchRefused, fetchBody, apiRefused, PageFinally, ApiFinally
    <2> QED
      BY <1>4, <2>1, <2>2, <2>3 DEF Answer
  <1>5. ASSUME NEW w \in Workers, Fail(w) PROVE Rewound
    BY <1>5, ReturnRewound DEF Fail, fetchError, apiError, PageFinally, ApiFinally
  <1>6. ASSUME NEW h \in Hosts, robotsExpire(h) PROVE Rewound
    BY <1>6, IdleRewound DEF robotsExpire, graph
  <1> QED
    BY <1>1, <1>2, <1>3, <1>4, <1>5, <1>6 DEF Next

\* The strengthening: no timer of a request exceeds its length.
LeftBounded == \A w \in Workers : left[w] <= Timeout

LEMMA CoverStep ==
    ASSUME TypeOK, FetchIsCovered, LeftBounded, [Next]_vars
    PROVE  FetchIsCovered' /\ LeftBounded'
  <1>1. CASE UNCHANGED vars
    BY <1>1 DEF vars, FetchIsCovered, LeftBounded, Fetching, worker, graph
  <1>2. CASE Elapse
    <2>1. LeftBounded'
      BY <1>2, DelayAssumption DEF Elapse, LeftBounded, Sooner, TypeOK
    <2>2. ASSUME NEW w \in Workers, Fetching(w)' PROVE left'[w] < cooldown'[item'[w].url]
      <3>1. Fetching(w) /\ pc[w] \in Network /\ item' = item
        BY <1>2, <2>2 DEF Elapse, Fetching, Network
      <3>2. left[w] \in Nat /\ item[w].url \in URLs /\ cooldown[item[w].url] \in Nat
        BY HostType DEF TypeOK
      <3>3. left[w] > 0 /\ left'[w] = Sooner(left[w])
        BY <1>2, <3>1 DEF Elapse
      <3>4. cooldown'[item[w].url] = Sooner(cooldown[item[w].url])
        BY <1>2, <3>2 DEF Elapse
      <3>5. left[w] < cooldown[item[w].url]
        BY <3>1 DEF FetchIsCovered
      <3> QED
        BY <3>1, <3>2, <3>3, <3>4, <3>5 DEF Sooner
    <2> QED
      BY <2>1, <2>2 DEF FetchIsCovered
  <1>3. CASE Next /\ ~Elapse
    <2>1. Rewound
      BY <1>3, NextRewound
    <2>2. LeftBounded'
      BY <2>1, DelayAssumption DEF Rewound, LeftBounded, TypeOK
    <2>3. ASSUME NEW w \in Workers, Fetching(w)' PROVE left'[w] < cooldown'[item'[w].url]
      <3>1. left'[w] < Cooldown
        BY <2>1, CooldownOutlivesFetch, DelayAssumption DEF Rewound, LeftBounded, TypeOK
      <3>2. CASE Fetching(w) /\ item'[w] = item[w] /\ left'[w] = left[w]
        <4>1. left[w] < cooldown[item[w].url] /\ item[w].url \in URLs
          BY <3>2, HostType DEF FetchIsCovered
        <4>2. cooldown'[item[w].url] \in {cooldown[item[w].url], Cooldown}
          BY <2>1, <4>1 DEF Rewound
        <4> QED
          BY <3>1, <3>2, <4>1, <4>2
      <3> QED
        BY <2>1, <2>3, <3>1, <3>2 DEF Rewound
    <2> QED
      BY <2>2, <2>3 DEF FetchIsCovered
  <1> QED
    BY <1>1, <1>2, <1>3

\* As long as the cooldown is longer than the fetch timeout, a URL is cooling
\* down while it is fetched, whatever stop(), start() and other workers do.
THEOREM FetchCovered == Spec => []FetchIsCovered
  <1>1. Init => FetchIsCovered /\ LeftBounded
    BY DelayAssumption DEF Init, FetchIsCovered, LeftBounded, Fetching, PageFetch, ApiFetch
  <1>2. TypeOK /\ FetchIsCovered /\ LeftBounded /\ [Next]_vars
            => FetchIsCovered' /\ LeftBounded'
    BY CoverStep
  <1> QED
    BY <1>1, <1>2, TypeCorrect, PTL DEF Spec

-----------------------------------------------------------------------------
(* Every URL that counts as being fetched has a worker that fetches it          *)

\* The URLs in inFlightUrls, and those whose node is shown as "fetching".
Shown == inFlight \cup {u \in URLs : status[u] = "fetching"}

\* Every step leaves the requests as they are and shows no more URLs, or starts
\* a request and shows its URL, or ends a request and shows its URL no more.
Traced ==
    \/ SameRequests /\ Shown' \subseteq Shown
    \/ \E w \in Workers :
          /\ OthersKeep(w) /\ ~Fetching(w) /\ Fetching(w)'
          /\ Shown' \subseteq Shown \cup {item'[w].url}
    \/ \E w \in Workers :
          /\ OthersKeep(w) /\ Fetching(w)
          /\ Shown' \subseteq Shown \ {item[w].url}

\* enqueueUrl shows no URL as "fetching" that was not.
LEMMA EnqueueShown ==
    ASSUME NEW L, NEW M, NEW d, NEW cool, NEW flying, NEW stat, NEW c,
           Enqueue(L, M, d, cool, flying, stat, c),
           NEW u \in URLs, status'[u] = "fetching"
    PROVE  stat[u] = "fetching"
  BY DEF Enqueue

LEMMA IdleTraced == ASSUME UNCHANGED worker, Shown' \subseteq Shown PROVE Traced
  BY DEF Traced, SameRequests, worker, Fetching

LEMMA MoveTraced ==
    ASSUME TypeOK, NEW w \in Workers, NEW phase \in {"robots", "resume", "done", "free"},
           ~Fetching(w), pc' = [pc EXCEPT ![w] = phase],
           \A v \in Workers \ {w} : item'[v] = item[v],
           Shown' \subseteq Shown
    PROVE  Traced
  BY DEF Traced, SameRequests, Fetching, TypeOK, PageFetch, ApiFetch

LEMMA PopTraced ==
    ASSUME TypeOK, NEW w \in Workers, NEW u \in URLs, NEW e,
           NEW phase \in {"robots", "resume", "done"}, Pop(w, u, e, phase),
           Shown' \subseteq Shown
    PROVE  Traced
  <1>1. ~Fetching(w) /\ pc' = [pc EXCEPT ![w] = phase]
    BY DEF Pop, Fetching, PageFetch, ApiFetch
  <1>2. \A v \in Workers \ {w} : item'[v] = item[v]
    BY DEF Pop, TypeOK
  <1> QED
    BY <1>1, <1>2, MoveTraced

LEMMA SearchTraced ==
    ASSUME TypeOK, NEW w \in Workers, NEW u \in URLs, popSearch(w, u) PROVE Traced
  <1>1. /\ ~Fetching(w) /\ pc' = [pc EXCEPT ![w] = "api"]
        /\ item' = [item EXCEPT ![w] = [url |-> u, depth |-> frontier[u].depth]]
    BY DEF popSearch, Pop, Fetching, PageFetch, ApiFetch
  <1>2. OthersKeep(w) /\ pc'[w] = "api" /\ item'[w].url = u
    BY <1>1 DEF TypeOK, OthersKeep
  <1>3. Shown' \subseteq Shown \cup {u}
    BY DEF popSearch, Shown, TypeOK
  <1> QED
    BY <1>1, <1>2, <1>3 DEF Traced, Fetching, ApiFetch

LEMMA FetchStartTraced ==
    ASSUME TypeOK, NEW w \in Workers, fetchStart(w) PROVE Traced
  <1>1. pc[w] = "resume" /\ pc' = [pc EXCEPT ![w] = "fetch"] /\ item' = item
    BY DEF fetchStart, GoTo
  <1>2. OthersKeep(w) /\ pc'[w] = "fetch"
    BY <1>1 DEF TypeOK, OthersKeep
  <1>3. Shown' \subseteq Shown \cup {item[w].url}
    BY DEF fetchStart, Shown, TypeOK
  <1> QED
    BY <1>1, <1>2, <1>3 DEF Traced, Fetching, PageFetch, ApiFetch

\* Both finally blocks, after the node was settled.
LEMMA EndTraced ==
    ASSUME TypeOK, NEW w \in Workers, Fetching(w), PageFinally(w) \/ ApiFinally(w),
           \A u \in URLs : status'[u] = "fetching" => status[u] = "fetching" /\ u # item[w].url
    PROVE  Traced
  <1>1. pc' = [pc EXCEPT ![w] = "done"] /\ item' = [item EXCEPT ![w] = NoItem]
    BY DEF PageFinally, ApiFinally, Return
  <1>2. OthersKeep(w)
    BY <1>1 DEF TypeOK, OthersKeep
  <1>3. inFlight' = inFlight \ {item[w].url}
    BY DEF PageFinally, ApiFinally
  <1> QED
    BY <1>2, <1>3 DEF Traced, Shown

LEMMA NextTraced == ASSUME TypeOK, [Next]_vars PROVE Traced
  <1>1. CASE Control
    <2>1. ASSUME NEW S \in Seeds, NEW c \in Confs, start(S, c) PROVE Traced
      BY <2>1, EnqueueShown, IdleTraced DEF start, Shown
    <2>2. ASSUME NEW u \in URLs, NEW d, NEW threshold, activateNode(u, d, threshold)
          PROVE  Traced
      BY <2>2, EnqueueShown, IdleTraced DEF activateNode, Shown
    <2>3. CASE pause \/ resume \/ stop
               \/ \E h \in Hosts : addOptOutDomain(h) \/ removeOptOutDomain(h)
      BY <2>3, IdleTraced
      DEF pause, resume, stop, addOptOutDomain, removeOptOutDomain, graph, Shown
    <2> QED
      BY <1>1, <2>1, <2>2, <2>3 DEF Control
  <1>2. CASE tick
    <2>1. CASE tickBegin \/ tickEnd
      BY <2>1, IdleTraced DEF tickBegin, tickEnd, graph, Shown
    <2>2. ASSUME NEW w \in Workers, NEW u \in URLs,
                 popRepeat(w, u) \/ popOptedOut(w, u) \/ popRequeued(w, u)
          PROVE  Traced
      <3>1. PICK e : Pop(w, u, e, "done")
        BY <2>2 DEF popRepeat, popOptedOut, popRequeued, Requeue
      <3>2. Shown' \subseteq Shown
        BY <2>2 DEF popRepeat, popOptedOut, popRequeued, graph, Shown, TypeOK
      <3> QED
        BY <3>1, <3>2, PopTraced
    <2>3. ASSUME NEW w \in Workers, NEW u \in URLs, popPage(w, u) PROVE Traced
      <3>1. PICK phase \in {"robots", "resume"} : Pop(w, u, NotQueued, phase)
        BY <2>3 DEF popPage
      <3>2. Shown' \subseteq Shown
        BY <2>3 DEF popPage, graph, Shown
      <3> QED
        BY <3>1, <3>2, PopTraced
    <2> QED
      BY <1>2, <2>1, <2>2, <2>3, SearchTraced DEF tick
  <1>3. ASSUME NEW w \in Workers, Microtask(w) PROVE Traced
    <2>1. CASE robotsBlock(w)
      <3>1. Shown' \subseteq Shown
        BY <2>1 DEF robotsBlock, Shown, TypeOK
      <3> QED
        BY <2>1, <3>1, MoveTraced
        DEF robotsBlock, Return, TypeOK, Fetching, PageFetch, ApiFetch
    <2>2. CASE release(w)
      BY <2>2, MoveTraced DEF release, Fetching, PageFetch, ApiFetch, graph, Shown
    <2> QED
      BY <1>3, <2>1, <2>2, FetchStartTraced DEF Microtask
  <1>4. ASSUME NEW w \in Workers, Answer(w) PROVE Traced
    <2>1. ASSUME NEW policy \in {"rules", "permissive"}, robotsAnswer(w, policy)
          PROVE  Traced
      BY <2>1, MoveTraced
      DEF robotsAnswer, GoTo, Fetching, PageFetch, ApiFetch, graph, Shown
    <2>2. CASE fetchHeaders(w) \/ apiHeaders(w)
      <3>1. SameRequests
        BY <2>2 DEF fetchHeaders, apiHeaders, GoTo, SameRequests, Fetching,
                    PageFetch, ApiFetch, TypeOK
      <3>2. Shown' \subseteq Shown
        BY <2>2 DEF fetchHeaders, apiHeaders, graph, Shown
      <3> QED
        BY <3>1, <3>2 DEF Traced
    <2>3. ASSUME NEW b \in BOOLEAN, fetchRefused(w, b) \/ apiRefused(w, b)
          PROVE  Traced
      BY <2>3, EndTraced DEF fetchRefused, apiRefused, Fetching, PageFetch, ApiFetch, TypeOK
    <2>4. ASSUME NEW b \in BOOLEAN, fetchBody(w, b) PROVE Traced
      <3>1. \A u \in URLs : status'[u] = "fetching"
                => status[u] = "fetching" /\ u # item[w].url
        <4>1. \A u \in URLs : status'[u] = "fetching"
                  => [status EXCEPT ![item[w].url] = "settled"][u] = "fetching"
          <5>1. PICK L, M, d, cool :
                   Enqueue(L, M, d, cool, inFlight, [status EXCEPT ![item[w].url] = "settled"],
                           conf)
            BY <2>4 DEF fetchBody
          <5> QED
            BY <5>1, EnqueueShown
        <4> QED
          BY <4>1 DEF TypeOK
      <3> QED
        BY <2>4, <3>1, EndTraced DEF fetchBody, Fetching, PageFetch
    <2>5. CASE apiBody(w)
      <3>1. \A u \in URLs : status'[u] = "fetching"
                => status[u] = "fetching" /\ u # item[w].url
        <4>1. \A u \in URLs : status'[u] = "fetching"
                  => [status EXCEPT ![item[w].url] = "settled"][u] = "fetching"
          <5>1. PICK L, M, d, cool :
                   Enqueue(L, M, d, cool, inFlight, [status EXCEPT ![item[w].url] = "settled"],
                           conf)
            BY <2>5 DEF apiBody
          <5> QED
            BY <5>1, EnqueueShown
        <4> QED
          BY <4>1 DEF TypeOK
      <3> QED
        BY <2>5, <3>1, EndTraced DEF apiBody, Fetching, ApiFetch
    <2> QED
      BY <1>4, <2>1, <2>2, <2>3, <2>4, <2>5 DEF Answer
  <1>5. ASSUME NEW w \in Workers, Fail(w) PROVE Traced
    BY <1>5, EndTraced DEF Fail, fetchError, apiError, Fetching, TypeOK
  <1>6. CASE Elapse
    BY <1>6 DEF Elapse, Traced, SameRequests, Fetching, Shown
  <1>7. ASSUME NEW h \in Hosts, robotsExpire(h) PROVE Traced
    BY <1>7, IdleTraced DEF robotsExpire, graph, Shown
  <1>8. CASE UNCHANGED vars
    BY <1>8, IdleTraced DEF vars, graph, Shown
  <1> QED
    BY <1>1, <1>2, <1>3, <1>4, <1>5, <1>6, <1>7, <1>8 DEF Next

\* Every URL shown is fetched by a worker.
Backed == \A u \in Shown : \E w \in Workers : Fetching(w) /\ item[w].url = u

LEMMA BackedStep == ASSUME Backed, Traced PROVE Backed'
  <1>1. CASE SameRequests /\ Shown' \subseteq Shown
    BY <1>1 DEF Backed, SameRequests, Fetching
  <1>2. ASSUME NEW w \in Workers, OthersKeep(w), ~Fetching(w), Fetching(w)',
               Shown' \subseteq Shown \cup {item'[w].url}
        PROVE  Backed'
    BY <1>2 DEF Backed, OthersKeep, Fetching
  <1>3. ASSUME NEW w \in Workers, OthersKeep(w), Fetching(w),
               Shown' \subseteq Shown \ {item[w].url}
        PROVE  Backed'
    BY <1>3 DEF Backed, OthersKeep, Fetching
  <1> QED
    BY <1>1, <1>2, <1>3 DEF Traced

LEMMA AlwaysBacked == Spec => []Backed
  <1>1. Init => Backed
    BY DEF Init, Backed, Shown
  <1>2. TypeOK /\ Backed /\ [Next]_vars => Backed'
    BY NextTraced, BackedStep
  <1> QED
    BY <1>1, <1>2, TypeCorrect, PTL DEF Spec

\* No failed, refused or stopped fetch leaves its URL in inFlightUrls, where it
\* would keep enqueueUrl from taking the URL ever again.
THEOREM InFlightBacked == Spec => []InFlightIsBacked
  <1>1. Backed => InFlightIsBacked
    BY DEF Backed, Shown, InFlightIsBacked
  <1> QED
    BY <1>1, AlwaysBacked, PTL

\* No node of the graph stays "fetching" without a worker that fetches it,
\* whatever exit its fetch took.
THEOREM NeverStuck == Spec => []NoStuckFetching
  <1>1. Backed => NoStuckFetching
    BY DEF Backed, Shown, NoStuckFetching
  <1> QED
    BY <1>1, AlwaysBacked, PTL

-----------------------------------------------------------------------------
(* The crawler works on nodes of the graph                                     *)

Holds(w) == pc[w] \notin {"free", "done"}

\* No node is lost, only nodes are queued, and a slot takes its URL off the frontier.
Grows ==
    /\ nodes \subseteq nodes'
    /\ \A u \in URLs : Queued(u)' => Queued(u) \/ u \in nodes'
    /\ \A w \in Workers : Holds(w)' => \/ Holds(w) /\ item'[w].url = item[w].url
                                       \/ item'[w].url \in URLs /\ Queued(item'[w].url)

\* The frontier and the slots as they were, or with less in them.
LEMMA SameWork ==
    ASSUME nodes \subseteq nodes',
           \A u \in URLs : Queued(u)' => Queued(u) \/ u \in nodes',
           \A w \in Workers : Holds(w)' => Holds(w) /\ item'[w].url = item[w].url
    PROVE  Grows
  BY DEF Grows

\* enqueueUrl queues nodes only, also when the graph is full.
LEMMA EnqueueGrows ==
    ASSUME NEW L, NEW M, NEW d, NEW cool, NEW flying, NEW stat, NEW c,
           Enqueue(L, M, d, cool, flying, stat, c)
    PROVE  /\ nodes \subseteq nodes'
           /\ \A u \in URLs : Queued(u)' => Queued(u) \/ u \in nodes'
  <1> DEFINE ok == Eligible(L, d, cool, flying, c)
  <1>1. PICK F \in Creations((ok \cup M) \ nodes, nodes, c.nodes) :
            /\ nodes' = nodes \cup F
            /\ frontier' = [u \in URLs |->
                   IF u \in ok \cap (nodes \cup F) THEN [depth |-> d, readyIn |-> 0]
                   ELSE frontier[u]]
    BY DEF Enqueue
  <1> HIDE DEF ok
  <1> QED
    BY <1>1 DEF Queued

LEMMA PopGrows ==
    ASSUME TypeOK, NEW w \in Workers, NEW u \in URLs, NEW e, NEW phase,
           Pop(w, u, e, phase), nodes' = nodes,
           e # NotQueued => phase = "done"
    PROVE  Grows
  <1>1. Queued(u) /\ frontier' = [frontier EXCEPT ![u] = e]
    BY DEF Pop, Ready
  <1>2. \A v \in URLs : Queued(v)' => Queued(v)
    BY <1>1 DEF Queued, TypeOK
  <1>3. \A v \in Workers \ {w} : pc'[v] = pc[v] /\ item'[v] = item[v]
    BY DEF Pop, TypeOK
  <1>4. Holds(w)' => item'[w].url = u
    BY DEF Pop, Holds, TypeOK
  <1> QED
    BY <1>1, <1>2, <1>3, <1>4 DEF Grows, Holds

LEMMA ReturnGrows ==
    ASSUME TypeOK, NEW w \in Workers, Return(w),
           nodes \subseteq nodes',
           \A u \in URLs : Queued(u)' => Queued(u) \/ u \in nodes'
    PROVE  Grows
  BY SameWork DEF Return, Holds, TypeOK

LEMMA NextGrows == ASSUME TypeOK, [Next]_vars PROVE Grows
  <1>1. ASSUME UNCHANGED <<nodes, frontier, pc, item>> PROVE Grows
    BY <1>1, SameWork DEF Queued, Holds
  <1>2. CASE Control
    <2>1. ASSUME NEW S \in Seeds, NEW c \in Confs, start(S, c) PROVE Grows
      BY <2>1, EnqueueGrows, SameWork DEF start, worker, Holds
    <2>2. ASSUME NEW u \in URLs, NEW d, NEW threshold, activateNode(u, d, threshold)
          PROVE  Grows
      BY <2>2, EnqueueGrows, SameWork DEF activateNode, worker, Holds
    <2>3. CASE stop
      BY <2>3, SameWork DEF stop, graph, worker, Queued, Holds
    <2>4. CASE pause \/ resume \/ \E h \in Hosts : addOptOutDomain(h) \/ removeOptOutDomain(h)
      BY <1>1, <2>4 DEF pause, resume, addOptOutDomain, removeOptOutDomain, graph, worker
    <2> QED
      BY <1>2, <2>1, <2>2, <2>3, <2>4 DEF Control
  <1>3. CASE tick
    <2>1. CASE tickBegin \/ tickEnd
      BY <1>1, <2>1 DEF tickBegin, tickEnd, graph, worker
    <2>2. ASSUME NEW w \in Workers, NEW u \in URLs,
                 \/ popRepeat(w, u) \/ popOptedOut(w, u) \/ popRequeued(w, u)
                 \/ popSearch(w, u) \/ popPage(w, u)
          PROVE  Grows
      <3>1. PICK e, phase : Pop(w, u, e, phase) /\ (e # NotQueued => phase = "done")
        BY <2>2 DEF popRepeat, popOptedOut, popRequeued, Requeue, popSearch, popPage
      <3>2. nodes' = nodes
        BY <2>2 DEF popRepeat, popOptedOut, popRequeued, popSearch, popPage, graph
      <3> QED
        BY <3>1, <3>2, PopGrows
    <2> QED
      BY <1>3, <2>1, <2>2 DEF tick
  <1>4. ASSUME NEW w \in Workers, Microtask(w) PROVE Grows
    <2>1. CASE robotsBlock(w)
      BY <2>1, ReturnGrows DEF robotsBlock, Queued
    <2>2. CASE fetchStart(w)
      BY <2>2, SameWork DEF fetchStart, GoTo, Queued, Holds, TypeOK
    <2>3. CASE release(w)
      BY <2>3, SameWork DEF release, graph, Queued, Holds, TypeOK
    <2> QED
      BY <1>4, <2>1, <2>2, <2>3 DEF Microtask
  <1>5. ASSUME NEW w \in Workers, Answer(w) PROVE Grows
    <2>1. ASSUME NEW policy \in {"rules", "permissive"}, robotsAnswer(w, policy)
          PROVE  Grows
      BY <2>1, SameWork DEF robotsAnswer, GoTo, graph, Queued, Holds, TypeOK
    <2>2. CASE fetchHeaders(w) \/ apiHeaders(w)
      BY <2>2, SameWork
      DEF fetchHeaders, apiHeaders, Redirected, GoTo, graph, Queued, Holds, TypeOK
    <2>3. ASSUME NEW b \in BOOLEAN, fetchRefused(w, b) \/ apiRefused(w, b) PROVE Grows
      BY <2>3, ReturnGrows
      DEF fetchRefused, apiRefused, Redirected, PageFinally, ApiFinally, Queued
    <2>4. ASSUME NEW b \in BOOLEAN, fetchBody(w, b) \/ apiBody(w) PROVE Grows
      <3>1. \E L, M, d, cool, stat : Enqueue(L, M, d, cool, inFlight, stat, conf)
        BY <2>4 DEF fetchBody, apiBody
      <3>2. Return(w)
        BY <2>4 DEF fetchBody, apiBody, PageFinally, ApiFinally
      <3> QED
        BY <3>1, <3>2, EnqueueGrows, ReturnGrows
    <2> QED
      BY <1>5, <2>1, <2>2, <2>3, <2>4 DEF Answer
  <1>6. ASSUME NEW w \in Workers, Fail(w) PROVE Grows
    BY <1>6, ReturnGrows DEF Fail, fetchError, apiError, PageFinally, ApiFinally, Queued
  <1>7. CASE Elapse
    <2>1. \A u \in URLs : Queued(u)' => Queued(u)
      BY <1>7 DEF Elapse, Queued
    <2> QED
      BY <1>7, <2>1, SameWork DEF Elapse, Holds
  <1>8. ASSUME NEW h \in Hosts, robotsExpire(h) PROVE Grows
    BY <1>1, <1>8 DEF robotsExpire, graph, worker
  <1>9. CASE UNCHANGED vars
    BY <1>1, <1>9 DEF vars, graph, worker
  <1> QED
    BY <1>2, <1>3, <1>4, <1>5, <1>6, <1>7, <1>8, <1>9 DEF Next

\* What is queued or worked on is a node of the graph, although the graph is
\* limited and turns URLs away: no setUrlStatus of the crawler misses its node.
THEOREM WorkInGraph == Spec => []WorkIsInGraph
  <1>1. Init => WorkIsInGraph
    BY DEF Init, WorkIsInGraph, Queued
  <1>2. TypeOK /\ WorkIsInGraph /\ Grows => WorkIsInGraph'
    BY DEF Grows, WorkIsInGraph, Holds
  <1>3. TypeOK /\ WorkIsInGraph /\ [Next]_vars => WorkIsInGraph'
    BY <1>2, NextGrows
  <1> QED
    BY <1>1, <1>3, TypeCorrect, PTL DEF Spec
=============================================================================
