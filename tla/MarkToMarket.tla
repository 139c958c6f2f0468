----------------------------- MODULE MarkToMarket -----------------------------
(***************************************************************************)
(* Market prices and the marks of open positions.  A call notes the time,  *)
(* asks for the price of each of its subjects, with a cache per server     *)
(* process and a fallback, stores each price, and writes what it was       *)
(* answered to its positions in one transaction that locks them one by     *)
(* one.  Calls overlap at every step.                                      *)
(*                                                                         *)
(* An operator named Faulty... is never used by the specification: it is   *)
(* the definition after it with a bug seeded in.                           *)
(***************************************************************************)
EXTENDS Integers

CONSTANTS
  None,       \* no position, no kind, no price but that of the entry
  Positions,  \* paper positions of the portfolio
  Symbols,    \* what there are prices of
  SymbolOf,   \* the symbol of each position
  Covered,    \* the symbols of the public feed
  LiveMode,   \* whether the feed is asked at all
  Servers,    \* processes
  Handlers,   \* calls, each served once
  ServerOf,   \* where each is served
  KindsOf,    \* bound: what each may be
  TTL,        \* how long a cached price serves, in ticks
  LiveWidth,  \* length of a bucket of live prices
  MockWidth,  \* length of a bucket of simulated prices
  MaxTime     \* bound on the clock

Kinds == {"mark_all", "mark", "demo_mark", "demo_close", "review", "snapshot"}
Subjects == Positions \cup Symbols
Times == 0..MaxTime
Price == [source : {"live_public", "mock"}, at : Times]

ASSUME MarketAssumption ==
  /\ SymbolOf \in [Positions -> Symbols] /\ Covered \subseteq Symbols
  /\ Positions \cap Symbols = {}
  /\ LiveMode \in BOOLEAN
  /\ ServerOf \in [Handlers -> Servers] /\ KindsOf \in [Handlers -> SUBSET Kinds]
  /\ {TTL, LiveWidth, MockWidth} \subseteq Nat \ {0} /\ MaxTime \in Nat
  /\ None \notin Positions \cup Price \cup Times \cup Kinds

VARIABLES
  now,        \* the clock
  positions,  \* the rows of paper_positions
  calledAt,   \* history: when the call began that last marked each
  prices,     \* the rows of paper_market_prices
  cache,      \* of each process and symbol, the time of the price in memory
  pc,         \* where each call is
  kind,       \* what it is
  at,         \* the time it noted
  task,       \* how far the price of each of its subjects is
  todo,       \* the positions it has still to lock
  wants,      \* the one whose lock it asks for
  held        \* those it has locked

rows == <<positions, calledAt, prices, cache>>
vars == <<now, rows, pc, kind, at, task, todo, wants, held>>

NoTask == [stage |-> "none", price |-> None]

Init ==
  /\ now = 0
  /\ positions = [p \in Positions |-> [status |-> "open", price |-> None]]
  /\ calledAt = [p \in Positions |-> 0]
  /\ prices = {}
  /\ cache = [v \in Servers |-> [s \in Symbols |-> None]]
  /\ pc = [h \in Handlers |-> "idle"]
  /\ kind = [h \in Handlers |-> None]
  /\ at = [h \in Handlers |-> 0]
  /\ task = [h \in Handlers |-> [x \in Subjects |-> NoTask]]
  /\ todo = [h \in Handlers |-> {}]
  /\ wants = [h \in Handlers |-> None]
  /\ held = [h \in Handlers |-> {}]

(***************************************************************************)
(* The price of one subject: recordMarketPrice and fetchLivePrice.  It is  *)
(* known by its source and the moment it was asked for.                    *)
(***************************************************************************)

SymbolFor(x) == IF x \in Positions THEN SymbolOf[x] ELSE x
Simulated(t) == [source |-> "mock", at |-> t]
Live(t) == [source |-> "live_public", at |-> t]

\* The rows of a symbol are told apart by the start of their bucket only.
Bucket(price) ==
  price.at - (price.at % (IF price.source = "mock" THEN MockWidth ELSE LiveWidth))
Row(s, price) == [symbol |-> s, asOf |-> Bucket(price), price |-> price]

FaultyFresh(v, s, t) == cache[v][s] # None
Cached(v, s, t) == cache[v][s] # None /\ cache[v][s] + TTL > t

\* What is settled before the first await: the demo and an uncovered symbol
\* have a simulated price, and the cache is looked into.
Resolve(h, k, x, t) ==
  LET v == ServerOf[h]
      s == SymbolFor(x)
  IN  IF ~LiveMode \/ k \in {"demo_mark", "demo_close"} \/ s \notin Covered
      THEN [stage |-> "store", price |-> Simulated(t)]
      ELSE IF Cached(v, s, t) THEN [stage |-> "store", price |-> Live(cache[v][s])]
      ELSE [stage |-> "fetch", price |-> None]

SetTask(h, x, new) ==
  /\ task' = [task EXCEPT ![h][x] = new]
  /\ UNCHANGED <<now, positions, calledAt, pc, kind, at, todo, wants, held>>

FetchAnswers(h, x) ==
  /\ task[h][x].stage = "fetch"
  /\ cache' = [cache EXCEPT ![ServerOf[h]][SymbolFor(x)] = at[h]]
  /\ SetTask(h, x, [stage |-> "store", price |-> Live(at[h])])
  /\ UNCHANGED prices

\* Every failure of the feed, and its silence, ends in a simulated price.
FaultyGivesUp(h, x) == FALSE
GivesUp(h, x) == task[h][x].stage = "fetch"
FetchFails(h, x) ==
  /\ GivesUp(h, x)
  /\ SetTask(h, x, [stage |-> "store", price |-> Simulated(at[h])])
  /\ UNCHANGED <<prices, cache>>

\* The row of the bucket is overwritten, whatever price it held.
StorePrice(h, x) ==
  LET new == Row(SymbolFor(x), task[h][x].price)
  IN  /\ task[h][x].stage = "store"
      /\ prices' = {r \in prices : r.symbol # new.symbol \/ r.asOf # new.asOf} \cup {new}
      /\ SetTask(h, x, [task[h][x] EXCEPT !.stage = "done"])
      /\ UNCHANGED cache

FaultyUnstored == "done"
Unstored == "failed"
StoreFails(h, x) ==
  /\ task[h][x].stage = "store"
  /\ SetTask(h, x, [task[h][x] EXCEPT !.stage = Unstored])
  /\ UNCHANGED <<prices, cache>>

(***************************************************************************)
(* A call, until it has its prices.                                        *)
(***************************************************************************)

\* A call that has ended leaves the prices it had asked for on their way.
End(h) ==
  /\ pc' = [pc EXCEPT ![h] = "ended"]
  /\ kind' = [kind EXCEPT ![h] = None]
  /\ task' = [task EXCEPT ![h] = [x \in Subjects |->
       IF task[h][x].stage \in {"fetch", "store"} THEN task[h][x] ELSE NoTask]]
  /\ todo' = [todo EXCEPT ![h] = {}]
  /\ wants' = [wants EXCEPT ![h] = None]
  /\ held' = [held EXCEPT ![h] = {}]
  /\ UNCHANGED <<now, prices, cache, at>>

IsOpen(p) == positions[p].status = "open"

\* A bulk mark is about all open positions, a snapshot about all symbols, any
\* other call about one open position; a reviewed close needs no price.
About(k, P) ==
  CASE k = "mark_all" -> P = {p \in Positions : IsOpen(p)}
    [] k = "snapshot" -> P = {}
    [] OTHER          -> \E p \in Positions : P = {p} /\ IsOpen(p)
FirstTask(h, k, P, x) ==
  CASE k = "snapshot" /\ x \in Symbols -> [stage |-> "queued", price |-> None]
    [] k # "review" /\ x \in P         -> Resolve(h, k, x, now)
    [] OTHER                           -> NoTask

Start(h, k, P) ==
  /\ pc[h] = "idle" /\ k \in KindsOf[h]
  /\ About(k, P)
  /\ pc' = [pc EXCEPT ![h] = IF k = "review" THEN "lock" ELSE "price"]
  /\ kind' = [kind EXCEPT ![h] = k]
  /\ at' = [at EXCEPT ![h] = now]
  /\ todo' = [todo EXCEPT ![h] = P]
  /\ task' = [task EXCEPT ![h] = [x \in Subjects |-> FirstTask(h, k, P, x)]]
  /\ UNCHANGED <<now, rows, wants, held>>

\* A snapshot takes one symbol after the other, all for the time it noted.
NextSymbol(h, x) ==
  /\ pc[h] = "price" /\ task[h][x].stage = "queued"
  /\ \A y \in Subjects : task[h][y].stage \in {"none", "queued", "done"}
  /\ SetTask(h, x, Resolve(h, kind[h], x, at[h]))
  /\ UNCHANGED <<prices, cache>>

\* The first price that cannot be stored ends the call.
PricingFails(h) ==
  /\ pc[h] = "price"
  /\ \E x \in Subjects : task[h][x].stage = "failed"
  /\ End(h)
  /\ UNCHANGED <<positions, calledAt>>

AllPriced(h) == pc[h] = "price" /\ \A x \in Subjects : task[h][x].stage \in {"none", "done"}
NothingToMark(h) ==
  /\ AllPriced(h) /\ todo[h] = {}
  /\ End(h)
  /\ UNCHANGED <<positions, calledAt>>
Begin(h) ==
  /\ AllPriced(h) /\ todo[h] # {}
  /\ pc' = [pc EXCEPT ![h] = "lock"]
  /\ UNCHANGED <<now, rows, kind, at, task, todo, wants, held>>

(***************************************************************************)
(* Its transaction: mark_paper_position, mark_all_open_paper_positions and *)
(* the two closing functions.                                              *)
(***************************************************************************)

\* The positions come in whatever order the query has given.
TurnTo(h, p) ==
  /\ pc[h] = "lock" /\ wants[h] = None /\ p \in todo[h]
  /\ wants' = [wants EXCEPT ![h] = p]
  /\ todo' = [todo EXCEPT ![h] = @ \ {p}]
  /\ UNCHANGED <<now, rows, pc, kind, at, task, held>>

Granted(h) == wants[h] # None /\ \A g \in Handlers : wants[h] \notin held[g]
FaultyMarkable(p) == TRUE      \* the row is marked as it was listed
Markable(p) == IsOpen(p)

LockPosition(h) ==
  /\ Granted(h) /\ Markable(wants[h])
  /\ held' = [held EXCEPT ![h] = @ \cup {wants[h]}]
  /\ wants' = [wants EXCEPT ![h] = None]
  /\ UNCHANGED <<now, rows, pc, kind, at, task, todo>>

\* A bulk mark passes over a position that is no longer open.
PassOver(h) ==
  /\ Granted(h) /\ ~Markable(wants[h]) /\ kind[h] = "mark_all"
  /\ wants' = [wants EXCEPT ![h] = None]
  /\ UNCHANGED <<now, rows, pc, kind, at, task, todo, held>>

Refused(h) ==
  /\ Granted(h) /\ ~Markable(wants[h]) /\ kind[h] # "mark_all"
  /\ End(h)
  /\ UNCHANGED <<positions, calledAt>>

Closes(k) == k \in {"demo_close", "review"}
\* A reviewed close keeps the stored price; every other call has brought one.
Commit(h) ==
  /\ pc[h] = "lock" /\ wants[h] = None /\ todo[h] = {}
  /\ positions' = [p \in Positions |->
       IF p \notin held[h] THEN positions[p]
       ELSE [status |-> IF Closes(kind[h]) THEN "closed" ELSE "open",
             price |-> IF kind[h] = "review" THEN positions[p].price ELSE task[h][p].price]]
  /\ calledAt' = [p \in Positions |->
       IF p \in held[h] /\ kind[h] # "review" THEN at[h] ELSE calledAt[p]]
  /\ End(h)

\* Calls wait for one another in a circle: the database ends one of them.
Deadlocked(h) ==
  \E S \in SUBSET Handlers :
    h \in S /\ \A g \in S : wants[g] # None /\ \E f \in S \ {g} : wants[g] \in held[f]
BreakDeadlock(h) == Deadlocked(h) /\ End(h) /\ UNCHANGED <<positions, calledAt>>

Abort(h) == pc[h] = "lock" /\ End(h) /\ UNCHANGED <<positions, calledAt>>

Tick ==
  /\ now < MaxTime
  /\ now' = now + 1
  /\ UNCHANGED <<rows, pc, kind, at, task, todo, wants, held>>

Serve(h) ==
  \/ \E x \in Subjects : FetchFails(h, x) \/ StorePrice(h, x) \/ NextSymbol(h, x)
  \/ PricingFails(h) \/ NothingToMark(h) \/ Begin(h)
  \/ \E p \in Positions : TurnTo(h, p)
  \/ LockPosition(h) \/ PassOver(h) \/ Refused(h) \/ Commit(h)

Next ==
  \/ \E h \in Handlers :
       \/ \E k \in Kinds, P \in SUBSET Positions : Start(h, k, P)
       \/ \E x \in Subjects : FetchAnswers(h, x) \/ StoreFails(h, x)
       \/ Serve(h) \/ BreakDeadlock(h) \/ Abort(h)
  \/ Tick

Spec == Init /\ [][Next]_vars
\* A request to the feed is given up in the end, queries are answered, and the
\* database grants locks in turn and resolves deadlocks.
Fairness == \A h \in Handlers : SF_vars(Serve(h)) /\ WF_vars(BreakDeadlock(h))
FairSpec == Spec /\ Fairness

(***************************************************************************)
(* Properties.                                                             *)
(***************************************************************************)

Tasks ==
  [stage : {"none", "queued", "fetch"}, price : {None}]
    \cup [stage : {"store", "done", "failed"}, price : Price]

\* Every variable keeps its shape.
TypeOK ==
  /\ now \in Times
  /\ positions \in [Positions -> [status : {"open", "closed"}, price : Price \cup {None}]]
  /\ calledAt \in [Positions -> Times]
  /\ prices \subseteq {Row(s, price) : s \in Symbols, price \in Price}
  /\ cache \in [Servers -> [Symbols -> Times \cup {None}]]
  /\ pc \in [Handlers -> {"idle", "price", "lock", "ended"}]
  /\ kind \in [Handlers -> Kinds \cup {None}]
  /\ at \in [Handlers -> Times]
  /\ task \in [Handlers -> [Subjects -> Tasks]]
  /\ todo \in [Handlers -> SUBSET Positions]
  /\ wants \in [Handlers -> Positions \cup {None}]
  /\ held \in [Handlers -> SUBSET Positions]

\* For the price a position carries there is a row of its symbol and bucket,
\* though not always of that price: what is left of every mark being auditable
\* when calls overwrite each other's rows and a store may fail.
MarksHaveRows ==
  \A p \in Positions :
    positions[p].price # None =>
      \E r \in prices : r.symbol = SymbolOf[p] /\ r.asOf = Bucket(positions[p].price)

\* No position is marked or closed at a price that was older than the cache
\* allows when the call began, whichever call had put it there.
MarksAreFresh ==
  \A p \in Positions :
    positions[p].price # None => calledAt[p] < positions[p].price.at + TTL

\* A closed position keeps its price, also when a call that had listed it as
\* open, or was waiting for its lock, comes to it afterwards.
ClosedStays ==
  [][\A p \in Positions : ~IsOpen(p) => positions'[p] = positions[p]]_vars

\* Every call ends: no feed that is silent, no failed store and no pair of bulk
\* marks that lock the positions in different orders keeps one waiting for ever.
CallsEnd == \A h \in Handlers : pc[h] # "idle" ~> pc[h] = "ended"
===============================================================================
