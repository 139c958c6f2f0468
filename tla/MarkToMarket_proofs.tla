------------------------ MODULE MarkToMarket_proofs ------------------------
(***************************************************************************)
(* Proofs about market prices and marks, for any number of calls, servers, *)
(* positions and symbols, and any lengths of the cache and the buckets.    *)
(* What a call has been answered is never undone: a row of prices is only  *)
(* ever replaced by one of the same symbol and bucket, and the price a     *)
(* call brings to its transaction is the one it stored.                    *)
(***************************************************************************)
EXTENDS MarkToMarket, TLAPS

RowIn(R, s, price) == \E r \in R : r.symbol = s /\ r.asOf = Bucket(price)

\* A price in hand is fresh, and stored when its task is done.
PriceOk(h, x) ==
  /\ task[h][x].price # None => at[h] < task[h][x].price.at + TTL
  /\ task[h][x].stage = "done" => RowIn(prices, SymbolFor(x), task[h][x].price)

\* A call holds nothing before its transaction, and enters that one with all
\* its prices.
CallOk(h) ==
  /\ pc[h] \in {"idle", "ended"} => todo[h] = {} /\ wants[h] = None /\ held[h] = {}
  /\ pc[h] = "price" =>
       /\ wants[h] = None /\ held[h] = {} /\ kind[h] \in Kinds \ {"review"}
       /\ \A p \in todo[h] : task[h][p].stage # "none"
  /\ pc[h] = "lock" =>
       /\ kind[h] \in Kinds
       /\ kind[h] # "review" =>
            \A p \in todo[h] \cup held[h] \cup ({wants[h]} \ {None}) : task[h][p].stage = "done"

\* A locked position is open, and locked by one call.
LocksOk ==
  \A h \in Handlers : \A p \in held[h] :
    IsOpen(p) /\ \A g \in Handlers \ {h} : p \notin held[g]

MarketInv ==
  /\ TypeOK
  /\ \A h \in Handlers : CallOk(h) /\ \A x \in Subjects : PriceOk(h, x)
  /\ LocksOk
  /\ MarksHaveRows /\ MarksAreFresh

LEMMA Constants ==
  /\ None \notin Positions /\ None \notin Price /\ None \notin Times /\ None \notin Kinds
  /\ TTL \in Nat /\ TTL > 0 /\ Times \subseteq Nat
  /\ \A x \in Subjects : SymbolFor(x) \in Symbols
  /\ \A h \in Handlers : ServerOf[h] \in Servers
  /\ Positions \subseteq Subjects /\ Symbols \subseteq Subjects
  /\ \A p \in Positions : SymbolFor(p) = SymbolOf[p]
<1>1. TTL \in Nat \ {0} /\ MaxTime \in Nat
  BY MarketAssumption
<1>2. \A h \in Handlers : ServerOf[h] \in Servers
  BY MarketAssumption
<1>3. \A x \in Subjects : SymbolFor(x) \in Symbols
  BY MarketAssumption DEF Subjects, SymbolFor
<1> QED
  BY <1>1, <1>2, <1>3, MarketAssumption DEF Subjects, SymbolFor, Times

\* The price of a task is absent in its first stages and present afterwards.
LEMMA TaskShapes ==
  /\ \A e \in Tasks :
       /\ e.stage \in {"none", "queued", "fetch"} => e.price = None
       /\ e.stage \in {"store", "done", "failed"} => e.price \in Price
       /\ e.stage \in {"none", "queued", "fetch", "store", "done", "failed"}
       /\ e.stage = "store" =>
            /\ [e EXCEPT !.stage = "done"] \in Tasks /\ [e EXCEPT !.stage = "failed"] \in Tasks
            /\ [e EXCEPT !.stage = "done"].price = e.price
            /\ [e EXCEPT !.stage = "failed"].price = e.price
            /\ [e EXCEPT !.stage = "done"].stage = "done"
            /\ [e EXCEPT !.stage = "failed"].stage = "failed"
  /\ \A price \in Price : [stage |-> "store", price |-> price] \in Tasks
  /\ NoTask \in Tasks
  /\ [stage |-> "queued", price |-> None] \in Tasks
  BY Constants DEF Tasks, NoTask

LEMMA Answers ==
  ASSUME NEW t \in Times
  PROVE  /\ Live(t) \in Price /\ Simulated(t) \in Price
         /\ Live(t).at = t /\ Simulated(t).at = t
  BY DEF Live, Simulated, Price

\* What a subject's price is settled to is fresh, and not yet stored.
LEMMA Resolved ==
  ASSUME TypeOK, NEW h \in Handlers, NEW k, NEW x \in Subjects, NEW t \in Times
  PROVE  /\ Resolve(h, k, x, t) \in Tasks
         /\ Resolve(h, k, x, t).stage \in {"store", "fetch"}
         /\ Resolve(h, k, x, t).price # None => t < Resolve(h, k, x, t).price.at + TTL
<1> DEFINE c == cache[ServerOf[h]][SymbolFor(x)]
           simulated == ~LiveMode \/ k \in {"demo_mark", "demo_close"} \/ SymbolFor(x) \notin Covered
           inMemory == Cached(ServerOf[h], SymbolFor(x), t)
<1>1. c \in Times \cup {None}
  BY Constants DEF TypeOK
<1>2. CASE simulated
  <2>1. Resolve(h, k, x, t) = [stage |-> "store", price |-> Simulated(t)]
    BY <1>2 DEF Resolve
  <2> QED
    BY <2>1, Answers, Constants DEF Tasks
<1>3. CASE ~simulated /\ inMemory
  <2>1. Resolve(h, k, x, t) = [stage |-> "store", price |-> Live(c)]
    BY <1>3 DEF Resolve
  <2>2. c \in Times /\ t < c + TTL
    BY <1>1, <1>3, Constants DEF Cached
  <2> HIDE DEF c
  <2>3. Live(c) \in Price /\ Live(c).at = c
    BY <2>2, Answers
  <2>4. [stage |-> "store", price |-> Live(c)] \in Tasks
    BY <2>3 DEF Tasks
  <2> QED
    BY <2>1, <2>2, <2>3, <2>4
<1>4. CASE ~simulated /\ ~inMemory
  <2>1. Resolve(h, k, x, t) = [stage |-> "fetch", price |-> None]
    BY <1>4 DEF Resolve
  <2> QED
    BY <2>1 DEF Tasks
<1> QED
  BY <1>2, <1>3, <1>4

LEMMA InitiallyOk == Init => MarketInv
<1> SUFFICES ASSUME Init PROVE MarketInv
  OBVIOUS
<1>1. 0 \in Times
  BY MarketAssumption DEF Times
<1>2. NoTask \in Tasks /\ NoTask.price = None /\ NoTask.stage = "none"
  BY TaskShapes DEF NoTask
<1>3. TypeOK
  <2>1. now \in Times /\ prices \subseteq {Row(s, price) : s \in Symbols, price \in Price}
    BY <1>1 DEF Init
  <2>2. positions \in [Positions -> [status : {"open", "closed"}, price : Price \cup {None}]]
    BY DEF Init
  <2>3. calledAt \in [Positions -> Times] /\ at \in [Handlers -> Times]
    BY <1>1 DEF Init
  <2>4. cache \in [Servers -> [Symbols -> Times \cup {None}]]
    BY DEF Init
  <2>5. /\ pc \in [Handlers -> {"idle", "price", "lock", "ended"}]
        /\ kind \in [Handlers -> Kinds \cup {None}]
    BY DEF Init
  <2>6. task \in [Handlers -> [Subjects -> Tasks]]
    BY <1>2 DEF Init
  <2>7. /\ todo \in [Handlers -> SUBSET Positions] /\ held \in [Handlers -> SUBSET Positions]
        /\ wants \in [Handlers -> Positions \cup {None}]
    BY DEF Init
  <2> QED
    BY <2>1, <2>2, <2>3, <2>4, <2>5, <2>6, <2>7 DEF TypeOK
<1>4. \A h \in Handlers : CallOk(h) /\ \A x \in Subjects : PriceOk(h, x)
  BY <1>2 DEF Init, CallOk, PriceOk
<1>5. LocksOk /\ MarksHaveRows /\ MarksAreFresh
  BY DEF Init, LocksOk, MarksHaveRows, MarksAreFresh
<1> QED
  BY <1>3, <1>4, <1>5 DEF MarketInv

(***************************************************************************)
(* A price on its way.                                                     *)
(***************************************************************************)

LEMMA TaskMoves ==
  ASSUME MarketInv, NEW h \in Handlers, NEW x \in Subjects, NEW new \in Tasks,
         SetTask(h, x, new),
         task[h][x].stage \notin {"none", "done"}, new.stage # "none",
         new.price # None => at[h] < new.price.at + TTL,
         new.stage = "done" => RowIn(prices', SymbolFor(x), new.price),
         \A s, price : RowIn(prices, s, price) => RowIn(prices', s, price),
         prices' \subseteq {Row(s, price) : s \in Symbols, price \in Price},
         cache' \in [Servers -> [Symbols -> Times \cup {None}]]
  PROVE  MarketInv'
<1>1. TypeOK
  BY DEF MarketInv
<1>2. task' \in [Handlers -> [Subjects -> Tasks]]
  BY <1>1 DEF TypeOK, SetTask
<1>3. /\ task'[h][x] = new
      /\ \A g \in Handlers : \A y \in Subjects : g # h \/ y # x => task'[g][y] = task[g][y]
  BY <1>1 DEF TypeOK, SetTask
<1>4. UNCHANGED <<now, positions, calledAt, pc, kind, at, todo, wants, held>>
  BY DEF SetTask
<1>5. TypeOK'
  BY <1>1, <1>2, <1>4 DEF TypeOK
<1>6. ASSUME NEW g \in Handlers, NEW y \in Subjects PROVE PriceOk(g, y)'
  <2>1. CASE g = h /\ y = x
    BY <1>3, <1>4, <2>1 DEF PriceOk
  <2>2. CASE g # h \/ y # x
    BY <1>3, <1>4, <2>2 DEF MarketInv, PriceOk
  <2> QED
    BY <2>1, <2>2
<1>7. ASSUME NEW g \in Handlers PROVE CallOk(g)'
  <2>1. CallOk(g)
    BY DEF MarketInv
  <2>2. \A p \in Positions : task[g][p].stage # "none" => task'[g][p].stage # "none"
    BY <1>3, Constants
  <2>3. \A p \in Positions : task[g][p].stage = "done" => task'[g][p].stage = "done"
    BY <1>3, Constants
  <2>4. todo[g] \subseteq Positions /\ held[g] \subseteq Positions /\ {wants[g]} \ {None} \subseteq Positions
    BY <1>1 DEF TypeOK
  <2> QED
    BY <1>4, <2>1, <2>2, <2>3, <2>4 DEF CallOk
<1>8. LocksOk'
  BY <1>4 DEF MarketInv, LocksOk, IsOpen
<1>9. MarksHaveRows'
  <2>1. \A p \in Positions :
          positions[p].price # None => RowIn(prices, SymbolOf[p], positions[p].price)
    BY DEF MarketInv, MarksHaveRows, RowIn
  <2>2. \A p \in Positions :
          positions'[p].price # None => RowIn(prices', SymbolOf[p], positions'[p].price)
    BY <1>4, <2>1
  <2> QED
    BY <2>2 DEF MarksHaveRows, RowIn
<1>10. MarksAreFresh'
  BY <1>4 DEF MarketInv, MarksAreFresh
<1> QED
  BY <1>5, <1>6, <1>7, <1>8, <1>9, <1>10 DEF MarketInv

LEMMA FetchAnswersKeeps ==
  ASSUME MarketInv, NEW h \in Handlers, NEW x \in Subjects, FetchAnswers(h, x)
  PROVE  MarketInv'
<1> DEFINE new == [stage |-> "store", price |-> Live(at[h])]
<1>1. TypeOK
  BY DEF MarketInv
<1>2. at[h] \in Times
  BY <1>1 DEF TypeOK
<1>3. Live(at[h]) \in Price /\ Live(at[h]).at = at[h]
  BY <1>2, Answers
<1>4. new \in Tasks /\ new.stage # "none" /\ new.stage # "done"
  BY <1>3, TaskShapes
<1>8. at[h] < new.price.at + TTL
  <2>1. at[h] \in Nat /\ TTL \in Nat /\ TTL > 0
    BY <1>2, Constants
  <2>2. at[h] < at[h] + TTL
    BY <2>1
  <2>3. new.price.at = at[h]
    BY <1>3
  <2> QED
    BY <2>2, <2>3
<1>5. SetTask(h, x, new) /\ task[h][x].stage = "fetch" /\ prices' = prices
  BY DEF FetchAnswers
<1>6. cache' \in [Servers -> [Symbols -> Times \cup {None}]]
  BY <1>1, <1>2, Constants DEF FetchAnswers, TypeOK
<1>7. prices' \subseteq {Row(s, price) : s \in Symbols, price \in Price}
  BY <1>1, <1>5 DEF TypeOK
<1> HIDE DEF new
<1> QED
  BY <1>4, <1>5, <1>6, <1>7, <1>8, TaskMoves

LEMMA FetchFailsKeeps ==
  ASSUME MarketInv, NEW h \in Handlers, NEW x \in Subjects, FetchFails(h, x)
  PROVE  MarketInv'
<1> DEFINE new == [stage |-> "store", price |-> Simulated(at[h])]
<1>1. TypeOK
  BY DEF MarketInv
<1>2. at[h] \in Times
  BY <1>1 DEF TypeOK
<1>3. Simulated(at[h]) \in Price /\ Simulated(at[h]).at = at[h]
  BY <1>2, Answers
<1>4. new \in Tasks /\ new.stage # "none" /\ new.stage # "done"
  BY <1>3, TaskShapes
<1>8. at[h] < new.price.at + TTL
  <2>1. at[h] \in Nat /\ TTL \in Nat /\ TTL > 0
    BY <1>2, Constants
  <2>2. at[h] < at[h] + TTL
    BY <2>1
  <2>3. new.price.at = at[h]
    BY <1>3
  <2> QED
    BY <2>2, <2>3
<1>5. /\ SetTask(h, x, new) /\ task[h][x].stage = "fetch"
      /\ prices' = prices /\ cache' = cache
  BY DEF FetchFails, GivesUp
<1>6. /\ prices' \subseteq {Row(s, price) : s \in Symbols, price \in Price}
      /\ cache' \in [Servers -> [Symbols -> Times \cup {None}]]
  BY <1>1, <1>5 DEF TypeOK
<1> HIDE DEF new
<1> QED
  BY <1>4, <1>5, <1>6, <1>8, TaskMoves

\* A row is only ever replaced by one of the same symbol and bucket.
LEMMA StorePriceKeeps ==
  ASSUME MarketInv, NEW h \in Handlers, NEW x \in Subjects, StorePrice(h, x)
  PROVE  MarketInv'
<1> DEFINE old == task[h][x]
           new == [old EXCEPT !.stage = "done"]
           row == Row(SymbolFor(x), old.price)
<1>1. TypeOK /\ PriceOk(h, x)
  BY DEF MarketInv
<1>2. old \in Tasks /\ old.stage = "store"
  BY <1>1 DEF TypeOK, StorePrice
<1>3. /\ new \in Tasks /\ new.stage = "done" /\ new.price = old.price
      /\ old.price \in Price
  BY <1>2, TaskShapes
<1>4. new.price # None => at[h] < new.price.at + TTL
  BY <1>1, <1>3 DEF PriceOk
<1>5. SetTask(h, x, new)
  BY DEF StorePrice
<1>6. /\ cache' = cache
      /\ prices' = {r \in prices : r.symbol # row.symbol \/ r.asOf # row.asOf} \cup {row}
  BY DEF StorePrice
<1>7. row.symbol = SymbolFor(x) /\ row.asOf = Bucket(old.price)
  BY DEF Row
<1> HIDE DEF row
<1>8. RowIn(prices', SymbolFor(x), new.price)
  BY <1>3, <1>6, <1>7 DEF RowIn
<1>9. \A s, price : RowIn(prices, s, price) => RowIn(prices', s, price)
  BY <1>6 DEF RowIn
<1>10. row \in {Row(s, price) : s \in Symbols, price \in Price}
  BY <1>3, Constants DEF row
<1>11. /\ prices' \subseteq {Row(s, price) : s \in Symbols, price \in Price}
       /\ cache' \in [Servers -> [Symbols -> Times \cup {None}]]
  BY <1>1, <1>6, <1>10 DEF TypeOK
<1>12. task[h][x].stage \notin {"none", "done"}
  BY <1>2
<1>13. new.stage # "none" /\ (new.stage = "done" => RowIn(prices', SymbolFor(x), new.price))
  BY <1>3, <1>8
<1> HIDE DEF new, old
<1> QED
  BY <1>3, <1>4, <1>9, <1>11, <1>12, <1>13, <1>5, TaskMoves

LEMMA StoreFailsKeeps ==
  ASSUME MarketInv, NEW h \in Handlers, NEW x \in Subjects, StoreFails(h, x)
  PROVE  MarketInv'
<1> DEFINE old == task[h][x]
           new == [old EXCEPT !.stage = "failed"]
<1>1. TypeOK /\ PriceOk(h, x)
  BY DEF MarketInv
<1>2. old \in Tasks /\ old.stage = "store"
  BY <1>1 DEF TypeOK, StoreFails
<1>3. new \in Tasks /\ new.stage = "failed" /\ new.price = old.price
  BY <1>2, TaskShapes
<1>4. new.price # None => at[h] < new.price.at + TTL
  BY <1>1, <1>3 DEF PriceOk
<1>5. SetTask(h, x, new) /\ prices' = prices /\ cache' = cache
  BY DEF StoreFails, Unstored
<1>6. /\ prices' \subseteq {Row(s, price) : s \in Symbols, price \in Price}
      /\ cache' \in [Servers -> [Symbols -> Times \cup {None}]]
  BY <1>1, <1>5 DEF TypeOK
<1>7. task[h][x].stage \notin {"none", "done"}
  BY <1>2
<1> HIDE DEF new, old
<1> QED
  BY <1>3, <1>4, <1>5, <1>6, <1>7, TaskMoves

LEMMA NextSymbolKeeps ==
  ASSUME MarketInv, NEW h \in Handlers, NEW x \in Subjects, NextSymbol(h, x)
  PROVE  MarketInv'
<1> DEFINE new == Resolve(h, kind[h], x, at[h])
<1>1. TypeOK
  BY DEF MarketInv
<1>2. at[h] \in Times
  BY <1>1 DEF TypeOK
<1>3. /\ new \in Tasks /\ new.stage \in {"store", "fetch"}
      /\ new.price # None => at[h] < new.price.at + TTL
  BY <1>1, <1>2, Resolved
<1>4. /\ SetTask(h, x, new) /\ task[h][x].stage = "queued"
      /\ prices' = prices /\ cache' = cache
  BY DEF NextSymbol
<1>5. /\ prices' \subseteq {Row(s, price) : s \in Symbols, price \in Price}
      /\ cache' \in [Servers -> [Symbols -> Times \cup {None}]]
  BY <1>1, <1>4 DEF TypeOK
<1> HIDE DEF new
<1> QED
  BY <1>3, <1>4, <1>5, TaskMoves

(***************************************************************************)
(* A call.                                                                 *)
(***************************************************************************)

LEMMA StartKeeps ==
  ASSUME MarketInv, NEW h \in Handlers, NEW k \in Kinds, NEW P \in SUBSET Positions,
         Start(h, k, P)
  PROVE  MarketInv'
<1> DEFINE first == [x \in Subjects |-> FirstTask(h, k, P, x)]
<1>1. TypeOK
  BY DEF MarketInv
<1>2. now \in Times
  BY <1>1 DEF TypeOK
<1>3. ASSUME NEW x \in Subjects
      PROVE  /\ first[x] \in Tasks /\ first[x].stage # "done"
             /\ first[x].price # None => now < first[x].price.at + TTL
             /\ x \in P /\ k # "snapshot" /\ k # "review" => first[x].stage # "none"
  <2>1. first[x] = FirstTask(h, k, P, x)
    OBVIOUS
  <2>2. CASE k = "snapshot" /\ x \in Symbols
    <3>1. x \notin P
      BY <2>2, MarketAssumption
    <3>2. first[x] = [stage |-> "queued", price |-> None]
      BY <2>1, <2>2, <3>1 DEF FirstTask
    <3> QED
      BY <3>2, <2>2, TaskShapes
  <2>3. CASE ~(k = "snapshot" /\ x \in Symbols) /\ k # "review" /\ x \in P
    <3>1. first[x] = Resolve(h, k, x, now)
      BY <2>1, <2>3 DEF FirstTask
    <3> QED
      BY <3>1, <1>1, <1>2, Resolved
  <2>4. CASE ~(k = "snapshot" /\ x \in Symbols) /\ ~(k # "review" /\ x \in P)
    <3>1. first[x] = NoTask
      BY <2>1, <2>4 DEF FirstTask
    <3>2. NoTask \in Tasks /\ NoTask.price = None /\ NoTask.stage = "none"
      BY TaskShapes DEF NoTask
    <3> QED
      BY <3>1, <3>2, <2>4
  <2> QED
    BY <2>2, <2>3, <2>4
<1> HIDE DEF first
<1>4. first \in [Subjects -> Tasks]
  BY <1>3 DEF first
<1>5. /\ pc' = [pc EXCEPT ![h] = IF k = "review" THEN "lock" ELSE "price"]
      /\ kind' = [kind EXCEPT ![h] = k] /\ at' = [at EXCEPT ![h] = now]
      /\ todo' = [todo EXCEPT ![h] = P] /\ task' = [task EXCEPT ![h] = first]
      /\ UNCHANGED <<now, positions, calledAt, prices, cache, wants, held>>
      /\ pc[h] = "idle"
  BY DEF Start, first, rows
<1>6. TypeOK'
  BY <1>1, <1>2, <1>4, <1>5 DEF TypeOK
<1>7. CallOk(h) /\ wants[h] = None /\ held[h] = {}
  BY <1>5 DEF MarketInv, CallOk
<1>8. /\ pc'[h] = (IF k = "review" THEN "lock" ELSE "price") /\ kind'[h] = k
      /\ at'[h] = now /\ todo'[h] = P /\ task'[h] = first
      /\ wants'[h] = None /\ held'[h] = {}
  BY <1>1, <1>5, <1>7 DEF TypeOK
<1>9. ASSUME NEW g \in Handlers, g # h
      PROVE  /\ pc'[g] = pc[g] /\ kind'[g] = kind[g] /\ at'[g] = at[g]
             /\ todo'[g] = todo[g] /\ task'[g] = task[g]
             /\ wants'[g] = wants[g] /\ held'[g] = held[g]
  BY <1>1, <1>5, <1>9 DEF TypeOK
<1>10. CallOk(h)'
  <2>1. k = "snapshot" => P = {}
    BY DEF Start, About
  <2>2. \A p \in P : p \in Subjects
    BY Constants
  <2>3. k # "review" => \A p \in P : first[p].stage # "none"
    BY <2>1, <2>2, <1>3
  <2> QED
    BY <1>8, <2>3 DEF CallOk
<1>11. ASSUME NEW g \in Handlers PROVE CallOk(g)'
  BY <1>9, <1>10 DEF MarketInv, CallOk
<1>12. ASSUME NEW g \in Handlers, NEW x \in Subjects PROVE PriceOk(g, x)'
  <2>1. CASE g = h
    BY <1>3, <1>8, <2>1 DEF PriceOk
  <2>2. CASE g # h
    BY <1>5, <1>9, <2>2 DEF MarketInv, PriceOk
  <2> QED
    BY <2>1, <2>2
<1>13. LocksOk'
  BY <1>5 DEF MarketInv, LocksOk, IsOpen
<1>14. MarksHaveRows' /\ MarksAreFresh'
  BY <1>5 DEF MarketInv, MarksHaveRows, MarksAreFresh
<1> QED
  BY <1>6, <1>11, <1>12, <1>13, <1>14 DEF MarketInv

\* What is left of a call that has ended: the prices still on their way.
LEMMA Ended ==
  ASSUME MarketInv, NEW h \in Handlers, End(h),
         positions' \in [Positions -> [status : {"open", "closed"}, price : Price \cup {None}]],
         calledAt' \in [Positions -> Times]
  PROVE  /\ TypeOK'
         /\ \A g \in Handlers : CallOk(g)' /\ \A x \in Subjects : PriceOk(g, x)'
         /\ held'[h] = {} /\ \A g \in Handlers : g # h => held'[g] = held[g]
<1> DEFINE left == [x \in Subjects |->
               IF task[h][x].stage \in {"fetch", "store"} THEN task[h][x] ELSE NoTask]
<1>1. TypeOK
  BY DEF MarketInv
<1>2. NoTask \in Tasks /\ NoTask.price = None /\ NoTask.stage = "none"
  BY TaskShapes DEF NoTask
<1>3. left \in [Subjects -> Tasks]
  BY <1>1, <1>2 DEF TypeOK
<1>4. ASSUME NEW x \in Subjects
      PROVE  /\ left[x].price # None => at[h] < left[x].price.at + TTL
             /\ left[x].stage # "done"
  <2>1. PriceOk(h, x)
    BY DEF MarketInv
  <2>2. CASE task[h][x].stage \in {"fetch", "store"}
    BY <2>1, <2>2 DEF PriceOk
  <2>3. CASE task[h][x].stage \notin {"fetch", "store"}
    BY <1>2, <2>3
  <2> QED
    BY <2>2, <2>3
<1>5. /\ pc' = [pc EXCEPT ![h] = "ended"] /\ kind' = [kind EXCEPT ![h] = None]
      /\ task' = [task EXCEPT ![h] = left]
      /\ todo' = [todo EXCEPT ![h] = {}] /\ wants' = [wants EXCEPT ![h] = None]
      /\ held' = [held EXCEPT ![h] = {}]
      /\ UNCHANGED <<now, prices, cache, at>>
  BY DEF End
<1> HIDE DEF left
<1>6. TypeOK'
  BY <1>1, <1>3, <1>5 DEF TypeOK
<1>7. /\ pc'[h] = "ended" /\ task'[h] = left
      /\ todo'[h] = {} /\ wants'[h] = None /\ held'[h] = {}
  BY <1>1, <1>5 DEF TypeOK
<1>8. ASSUME NEW g \in Handlers, g # h
      PROVE  /\ pc'[g] = pc[g] /\ kind'[g] = kind[g] /\ todo'[g] = todo[g]
             /\ task'[g] = task[g] /\ wants'[g] = wants[g] /\ held'[g] = held[g]
  BY <1>1, <1>5, <1>8 DEF TypeOK
<1>9. ASSUME NEW g \in Handlers PROVE CallOk(g)'
  <2>1. CASE g = h
    BY <1>7, <2>1 DEF CallOk
  <2>2. CASE g # h
    BY <1>8, <2>2 DEF MarketInv, CallOk
  <2> QED
    BY <2>1, <2>2
<1>10. ASSUME NEW g \in Handlers, NEW x \in Subjects PROVE PriceOk(g, x)'
  <2>1. CASE g = h
    BY <1>4, <1>5, <1>7, <2>1 DEF PriceOk
  <2>2. CASE g # h
    BY <1>5, <1>8, <2>2 DEF MarketInv, PriceOk
  <2> QED
    BY <2>1, <2>2
<1> QED
  BY <1>6, <1>7, <1>8, <1>9, <1>10

\* A call that ends without a trace in the positions only lets go of its locks.
LEMMA EndKeeps ==
  ASSUME MarketInv, NEW h \in Handlers, End(h), UNCHANGED <<positions, calledAt>>
  PROVE  MarketInv'
<1>1. /\ positions' \in [Positions -> [status : {"open", "closed"}, price : Price \cup {None}]]
      /\ calledAt' \in [Positions -> Times]
  BY DEF MarketInv, TypeOK
<1>2. /\ TypeOK'
      /\ \A g \in Handlers : CallOk(g)' /\ \A x \in Subjects : PriceOk(g, x)'
      /\ \A g \in Handlers : held'[g] \subseteq held[g]
  BY <1>1, Ended
<1>3. LocksOk'
  BY <1>2 DEF MarketInv, LocksOk, IsOpen
<1>4. prices' = prices
  BY DEF End
<1>5. MarksHaveRows' /\ MarksAreFresh'
  BY <1>4 DEF MarketInv, MarksHaveRows, MarksAreFresh
<1> QED
  BY <1>2, <1>3, <1>5 DEF MarketInv

LEMMA BeginKeeps ==
  ASSUME MarketInv, NEW h \in Handlers, Begin(h)
  PROVE  MarketInv'
<1>1. TypeOK
  BY DEF MarketInv
<1>2. /\ pc' = [pc EXCEPT ![h] = "lock"]
      /\ UNCHANGED <<now, positions, calledAt, prices, cache, kind, at, task, todo, wants, held>>
      /\ pc[h] = "price" /\ \A x \in Subjects : task[h][x].stage \in {"none", "done"}
  BY DEF Begin, AllPriced, rows
<1>3. TypeOK'
  BY <1>1, <1>2 DEF TypeOK
<1>4. pc'[h] = "lock" /\ \A g \in Handlers : g # h => pc'[g] = pc[g]
  BY <1>1, <1>2 DEF TypeOK
<1>5. CallOk(h)'
  <2>1. /\ wants[h] = None /\ held[h] = {} /\ kind[h] \in Kinds
        /\ \A p \in todo[h] : task[h][p].stage # "none"
    BY <1>2 DEF MarketInv, CallOk
  <2>2. todo[h] \subseteq Subjects
    BY <1>1, Constants DEF TypeOK
  <2>3. \A p \in todo[h] : task[h][p].stage = "done"
    BY <1>2, <2>1, <2>2
  <2> QED
    BY <1>2, <1>4, <2>1, <2>3 DEF CallOk
<1>6. ASSUME NEW g \in Handlers PROVE CallOk(g)'
  BY <1>2, <1>4, <1>5 DEF MarketInv, CallOk
<1>7. ASSUME NEW g \in Handlers, NEW x \in Subjects PROVE PriceOk(g, x)'
  BY <1>2 DEF MarketInv, PriceOk
<1>8. LocksOk'
  BY <1>2 DEF MarketInv, LocksOk, IsOpen
<1>9. MarksHaveRows' /\ MarksAreFresh'
  BY <1>2 DEF MarketInv, MarksHaveRows, MarksAreFresh
<1> QED
  BY <1>3, <1>6, <1>7, <1>8, <1>9 DEF MarketInv

\* A step of a transaction moves a position from the list to the lock that is
\* asked for, from there to the locks held, or drops it.
LEMMA LocksMove ==
  ASSUME MarketInv, NEW h \in Handlers, NEW T, NEW w, NEW H,
         pc[h] = "lock",
         UNCHANGED <<now, positions, calledAt, prices, cache, pc, kind, at, task>>,
         todo' = [todo EXCEPT ![h] = T], wants' = [wants EXCEPT ![h] = w],
         held' = [held EXCEPT ![h] = H],
         T \subseteq todo[h], w \in todo[h] \cup {None}, H \subseteq held[h] \cup ({wants[h]} \ {None}),
         \A p \in H \ held[h] : IsOpen(p) /\ \A g \in Handlers : p \notin held[g]
  PROVE  MarketInv'
<1>1. TypeOK
  BY DEF MarketInv
<1>2. /\ T \subseteq Positions /\ w \in Positions \cup {None} /\ H \subseteq Positions
  BY <1>1 DEF TypeOK
<1>3. TypeOK'
  BY <1>1, <1>2 DEF TypeOK
<1>4. todo'[h] = T /\ wants'[h] = w /\ held'[h] = H
  BY <1>1 DEF TypeOK
<1>5. \A g \in Handlers : g # h => todo'[g] = todo[g] /\ wants'[g] = wants[g] /\ held'[g] = held[g]
  BY <1>1 DEF TypeOK
<1>6. ASSUME NEW g \in Handlers PROVE CallOk(g)'
  <2>1. CASE g = h
    BY <1>4, <2>1 DEF MarketInv, CallOk
  <2>2. CASE g # h
    BY <1>5, <2>2 DEF MarketInv, CallOk
  <2> QED
    BY <2>1, <2>2
<1>7. ASSUME NEW g \in Handlers, NEW x \in Subjects PROVE PriceOk(g, x)'
  BY DEF MarketInv, PriceOk
<1>8. LocksOk'
  <2> SUFFICES ASSUME NEW g \in Handlers, NEW p \in held'[g]
               PROVE  IsOpen(p)' /\ \A f \in Handlers \ {g} : p \notin held'[f]
    BY DEF LocksOk
  <2>1. LocksOk
    BY DEF MarketInv
  <2>2. IsOpen(p) => IsOpen(p)'
    BY DEF IsOpen
  <2>3. CASE g = h
    BY <1>4, <1>5, <2>1, <2>2, <2>3 DEF LocksOk
  <2>4. CASE g # h
    <3>1. p \in held[g]
      BY <1>5, <2>4
    <3>2. p \notin H
      BY <2>1, <2>4, <3>1 DEF LocksOk
    <3> QED
      BY <1>4, <1>5, <2>1, <2>2, <3>1, <3>2 DEF LocksOk
  <2> QED
    BY <2>3, <2>4
<1>9. MarksHaveRows' /\ MarksAreFresh'
  BY DEF MarketInv, MarksHaveRows, MarksAreFresh
<1> QED
  BY <1>3, <1>6, <1>7, <1>8, <1>9 DEF MarketInv

LEMMA LockStepsKeep ==
  ASSUME MarketInv, NEW h \in Handlers,
         (\E p \in Positions : TurnTo(h, p)) \/ LockPosition(h) \/ PassOver(h)
  PROVE  MarketInv'
<1>1. TypeOK /\ CallOk(h)
  BY DEF MarketInv
<1>2. /\ todo = [todo EXCEPT ![h] = todo[h]] /\ wants = [wants EXCEPT ![h] = wants[h]]
      /\ held = [held EXCEPT ![h] = held[h]]
  BY <1>1 DEF TypeOK
<1>3. wants[h] # None => pc[h] = "lock"
  BY <1>1 DEF TypeOK, CallOk
<1>4. ASSUME NEW p \in Positions, TurnTo(h, p) PROVE MarketInv'
  <2>1. /\ pc[h] = "lock" /\ p \in todo[h]
        /\ UNCHANGED <<now, positions, calledAt, prices, cache, pc, kind, at, task>>
        /\ todo' = [todo EXCEPT ![h] = todo[h] \ {p}] /\ wants' = [wants EXCEPT ![h] = p]
        /\ held' = [held EXCEPT ![h] = held[h]]
    BY <1>2, <1>4 DEF TurnTo, rows
  <2>2. /\ todo[h] \ {p} \subseteq todo[h] /\ p \in todo[h] \cup {None}
        /\ held[h] \subseteq held[h] \cup ({wants[h]} \ {None}) /\ held[h] \ held[h] = {}
    BY <2>1
  <2> QED
    BY <2>1, <2>2, LocksMove
<1>5. CASE LockPosition(h)
  <2>1. /\ wants[h] # None /\ IsOpen(wants[h]) /\ \A g \in Handlers : wants[h] \notin held[g]
        /\ UNCHANGED <<now, positions, calledAt, prices, cache, pc, kind, at, task>>
        /\ todo' = [todo EXCEPT ![h] = todo[h]] /\ wants' = [wants EXCEPT ![h] = None]
        /\ held' = [held EXCEPT ![h] = held[h] \cup {wants[h]}]
    BY <1>2, <1>5 DEF LockPosition, Granted, Markable, rows
  <2>2. /\ todo[h] \subseteq todo[h] /\ None \in todo[h] \cup {None}
        /\ held[h] \cup {wants[h]} \subseteq held[h] \cup ({wants[h]} \ {None})
        /\ \A p \in (held[h] \cup {wants[h]}) \ held[h] :
             IsOpen(p) /\ \A g \in Handlers : p \notin held[g]
    BY <2>1
  <2>3. pc[h] = "lock"
    BY <1>3, <2>1
  <2> QED
    BY <2>1, <2>2, <2>3, LocksMove
<1>6. CASE PassOver(h)
  <2>1. /\ wants[h] # None
        /\ UNCHANGED <<now, positions, calledAt, prices, cache, pc, kind, at, task>>
        /\ todo' = [todo EXCEPT ![h] = todo[h]] /\ wants' = [wants EXCEPT ![h] = None]
        /\ held' = [held EXCEPT ![h] = held[h]]
    BY <1>2, <1>6 DEF PassOver, Granted, rows
  <2>2. /\ todo[h] \subseteq todo[h] /\ None \in todo[h] \cup {None}
        /\ held[h] \subseteq held[h] \cup ({wants[h]} \ {None}) /\ held[h] \ held[h] = {}
    OBVIOUS
  <2>3. pc[h] = "lock"
    BY <1>3, <2>1
  <2> QED
    BY <2>1, <2>2, <2>3, LocksMove
<1> QED
  BY <1>4, <1>5, <1>6

\* The transaction writes the positions it holds, and no other: each was open,
\* and is given the price that was stored for it.
LEMMA CommitWrites ==
  ASSUME MarketInv, NEW h \in Handlers, Commit(h), NEW p \in Positions
  PROVE  /\ p \notin held[h] => positions'[p] = positions[p] /\ calledAt'[p] = calledAt[p]
         /\ p \in held[h] /\ kind[h] = "review" =>
              positions'[p].price = positions[p].price /\ calledAt'[p] = calledAt[p]
         /\ p \in held[h] /\ kind[h] # "review" =>
              /\ positions'[p].price \in Price /\ calledAt'[p] = at[h]
              /\ at[h] < positions'[p].price.at + TTL
              /\ RowIn(prices, SymbolOf[p], positions'[p].price)
         /\ p \in held[h] => IsOpen(p)
         /\ positions'[p] \in [status : {"open", "closed"}, price : Price \cup {None}]
         /\ calledAt'[p] \in Times
<1>1. /\ TypeOK /\ CallOk(h) /\ LocksOk /\ PriceOk(h, p)
  BY Constants DEF MarketInv
<1>2. /\ positions[p] \in [status : {"open", "closed"}, price : Price \cup {None}]
      /\ calledAt[p] \in Times /\ at[h] \in Times /\ task[h][p] \in Tasks
  BY <1>1, Constants DEF TypeOK
<1>3. p \in held[h] => IsOpen(p)
  BY <1>1 DEF LocksOk
<1>4. pc[h] = "lock"
  BY DEF Commit
<1>5. calledAt'[p] = IF p \in held[h] /\ kind[h] # "review" THEN at[h] ELSE calledAt[p]
  BY DEF Commit
<1>6. p \notin held[h] => positions'[p] = positions[p]
  BY DEF Commit
<1>7. p \in held[h] =>
        positions'[p] =
          [status |-> IF Closes(kind[h]) THEN "closed" ELSE "open",
           price |-> IF kind[h] = "review" THEN positions[p].price ELSE task[h][p].price]
  BY DEF Commit
<1>8. CASE p \notin held[h]
  BY <1>2, <1>5, <1>6, <1>8
<1>9. CASE p \in held[h] /\ kind[h] = "review"
  BY <1>2, <1>3, <1>5, <1>7, <1>9
<1>10. CASE p \in held[h] /\ kind[h] # "review"
  <2>1. task[h][p].stage = "done"
    BY <1>1, <1>4, <1>10 DEF CallOk
  <2>2. task[h][p].price \in Price /\ task[h][p].price # None
    <3>1. task[h][p].price \in Price
      BY <1>2, <2>1, TaskShapes
    <3> QED
      BY <3>1, Constants
  <2>3. /\ at[h] < task[h][p].price.at + TTL
        /\ RowIn(prices, SymbolOf[p], task[h][p].price)
    BY <1>1, <2>1, <2>2, Constants DEF PriceOk
  <2>4. positions'[p].price = task[h][p].price /\ positions'[p].status \in {"open", "closed"}
    BY <1>7, <1>10
  <2>5. positions'[p] \in [status : {"open", "closed"}, price : Price \cup {None}]
    BY <1>7, <1>10, <2>2
  <2> QED
    BY <1>2, <1>3, <1>5, <1>10, <2>2, <2>3, <2>4, <2>5
<1> QED
  BY <1>8, <1>9, <1>10

LEMMA CommitKeeps ==
  ASSUME MarketInv, NEW h \in Handlers, Commit(h)
  PROVE  MarketInv'
<1>1. /\ positions' \in [Positions -> [status : {"open", "closed"}, price : Price \cup {None}]]
      /\ calledAt' \in [Positions -> Times]
  <2>1. /\ positions' = [p \in Positions |-> positions'[p]]
        /\ calledAt' = [p \in Positions |-> calledAt'[p]]
    BY DEF Commit
  <2> QED
    BY <2>1, CommitWrites
<1>2. End(h)
  BY DEF Commit
<1>3. /\ TypeOK'
      /\ \A g \in Handlers : CallOk(g)' /\ \A x \in Subjects : PriceOk(g, x)'
      /\ held'[h] = {} /\ \A g \in Handlers : g # h => held'[g] = held[g]
  BY <1>1, <1>2, Ended
<1>4. LocksOk'
  <2> SUFFICES ASSUME NEW g \in Handlers, NEW p \in held'[g]
               PROVE  IsOpen(p)' /\ \A f \in Handlers \ {g} : p \notin held'[f]
    BY DEF LocksOk
  <2>1. g # h /\ p \in held[g]
    BY <1>3
  <2>2. p \notin held[h] /\ IsOpen(p) /\ \A f \in Handlers \ {g} : p \notin held[f]
    BY <2>1 DEF MarketInv, LocksOk
  <2>3. p \in Positions
    BY <2>1 DEF MarketInv, TypeOK
  <2>4. positions'[p] = positions[p]
    BY <2>2, <2>3, CommitWrites
  <2> QED
    BY <1>3, <2>2, <2>4 DEF IsOpen
<1>5. prices' = prices
  BY <1>2 DEF End
<1>6. MarksHaveRows'
  <2> SUFFICES ASSUME NEW p \in Positions, positions'[p].price # None
               PROVE  RowIn(prices, SymbolOf[p], positions'[p].price)
    BY <1>5 DEF MarksHaveRows, RowIn
  <2>1. positions[p].price # None => RowIn(prices, SymbolOf[p], positions[p].price)
    BY DEF MarketInv, MarksHaveRows, RowIn
  <2> QED
    BY <2>1, CommitWrites
<1>7. MarksAreFresh'
  <2> SUFFICES ASSUME NEW p \in Positions, positions'[p].price # None
               PROVE  calledAt'[p] < positions'[p].price.at + TTL
    BY DEF MarksAreFresh
  <2>1. positions[p].price # None => calledAt[p] < positions[p].price.at + TTL
    BY DEF MarketInv, MarksAreFresh
  <2> QED
    BY <2>1, CommitWrites
<1> QED
  BY <1>3, <1>4, <1>6, <1>7 DEF MarketInv

LEMMA TickKeeps ==
  ASSUME MarketInv, Tick
  PROVE  MarketInv'
<1>1. /\ now' = now + 1 /\ now < MaxTime
      /\ UNCHANGED <<positions, calledAt, prices, cache, pc, kind, at, task, todo, wants, held>>
  BY DEF Tick, rows
<1>2. now' \in Times
  BY <1>1, MarketAssumption DEF MarketInv, TypeOK, Times
<1>3. TypeOK'
  BY <1>1, <1>2 DEF MarketInv, TypeOK
<1>4. \A g \in Handlers : CallOk(g)' /\ \A x \in Subjects : PriceOk(g, x)'
  BY <1>1 DEF MarketInv, CallOk, PriceOk
<1>5. LocksOk' /\ MarksHaveRows' /\ MarksAreFresh'
  BY <1>1 DEF MarketInv, LocksOk, IsOpen, MarksHaveRows, MarksAreFresh
<1> QED
  BY <1>3, <1>4, <1>5 DEF MarketInv

LEMMA StutterKeeps ==
  ASSUME MarketInv, UNCHANGED vars
  PROVE  MarketInv'
<1>1. UNCHANGED <<now, positions, calledAt, prices, cache, pc, kind, at, task, todo, wants, held>>
  BY DEF vars, rows
<1>2. TypeOK'
  BY <1>1 DEF MarketInv, TypeOK
<1>3. \A g \in Handlers : CallOk(g)' /\ \A x \in Subjects : PriceOk(g, x)'
  BY <1>1 DEF MarketInv, CallOk, PriceOk
<1>4. LocksOk' /\ MarksHaveRows' /\ MarksAreFresh'
  BY <1>1 DEF MarketInv, LocksOk, IsOpen, MarksHaveRows, MarksAreFresh
<1> QED
  BY <1>2, <1>3, <1>4 DEF MarketInv

\* The ways a call ends without writing a position.
EndsOnly(h) == PricingFails(h) \/ NothingToMark(h) \/ Refused(h) \/ BreakDeadlock(h) \/ Abort(h)

LEMMA EndsOnlyEnds ==
  ASSUME NEW h \in Handlers, EndsOnly(h)
  PROVE  End(h) /\ UNCHANGED <<positions, calledAt>>
  BY DEF EndsOnly, PricingFails, NothingToMark, Refused, BreakDeadlock, Abort

\* Every step, by the call that takes it.
LEMMA NextCases ==
  ASSUME Next
  PROVE  \/ Tick
         \/ \E h \in Handlers :
              \/ \E k \in Kinds, P \in SUBSET Positions : Start(h, k, P)
              \/ \E x \in Subjects :
                   \/ FetchAnswers(h, x) \/ StoreFails(h, x) \/ FetchFails(h, x)
                   \/ StorePrice(h, x) \/ NextSymbol(h, x)
              \/ Begin(h) \/ Commit(h) \/ EndsOnly(h)
              \/ (\E p \in Positions : TurnTo(h, p)) \/ LockPosition(h) \/ PassOver(h)
  BY DEF Next, Serve, EndsOnly

LEMMA StepKeeps == MarketInv /\ [Next]_vars => MarketInv'
<1> SUFFICES ASSUME MarketInv, [Next]_vars PROVE MarketInv'
  OBVIOUS
<1>1. CASE Tick
  BY <1>1, TickKeeps
<1>2. ASSUME NEW h \in Handlers, NEW k \in Kinds, NEW P \in SUBSET Positions, Start(h, k, P)
      PROVE  MarketInv'
  BY <1>2, StartKeeps
<1>3. ASSUME NEW h \in Handlers, NEW x \in Subjects,
             \/ FetchAnswers(h, x) \/ StoreFails(h, x) \/ FetchFails(h, x)
             \/ StorePrice(h, x) \/ NextSymbol(h, x)
      PROVE  MarketInv'
  BY <1>3, FetchAnswersKeeps, StoreFailsKeeps, FetchFailsKeeps, StorePriceKeeps, NextSymbolKeeps
<1>4. ASSUME NEW h \in Handlers, Begin(h) \/ Commit(h) PROVE MarketInv'
  BY <1>4, BeginKeeps, CommitKeeps
<1>5. ASSUME NEW h \in Handlers, EndsOnly(h) PROVE MarketInv'
  BY <1>5, EndsOnlyEnds, EndKeeps
<1>6. ASSUME NEW h \in Handlers,
             (\E p \in Positions : TurnTo(h, p)) \/ LockPosition(h) \/ PassOver(h)
      PROVE  MarketInv'
  BY <1>6, LockStepsKeep
<1>7. CASE UNCHANGED vars
  BY <1>7, StutterKeeps
<1> QED
  BY <1>1, <1>2, <1>3, <1>4, <1>5, <1>6, <1>7, NextCases

\* The inductive invariant holds of every run.
THEOREM MarketInvariant == Spec => []MarketInv
  BY InitiallyOk, StepKeeps, PTL DEF Spec

\* Every variable keeps its shape.
THEOREM MarketTypes == Spec => []TypeOK
<1>1. MarketInv => TypeOK
  BY DEF MarketInv
<1> QED
  BY <1>1, MarketInvariant, PTL

\* Whatever calls overlap and whatever fails, the price a position carries has a
\* row of its symbol and bucket.
THEOREM MarksHaveRowsHolds == Spec => []MarksHaveRows
<1>1. MarketInv => MarksHaveRows
  BY DEF MarketInv
<1> QED
  BY <1>1, MarketInvariant, PTL

\* No mark is older than the cache allows, on any number of servers.
THEOREM MarksAreFreshHolds == Spec => []MarksAreFresh
<1>1. MarketInv => MarksAreFresh
  BY DEF MarketInv
<1> QED
  BY <1>1, MarketInvariant, PTL

\* A closed position is never written again.
THEOREM ClosedStaysHolds == Spec => ClosedStays
<1> DEFINE Step == \A p \in Positions : ~IsOpen(p) => positions'[p] = positions[p]
<1>1. ASSUME MarketInv, [Next]_vars PROVE [Step]_vars
  <2>1. CASE UNCHANGED positions
    BY <2>1
  <2>2. ASSUME NEW h \in Handlers, Commit(h) PROVE Step
    BY <1>1, <2>2, CommitWrites
  <2>3. CASE Tick
    BY <2>3, <2>1 DEF Tick, rows
  <2>4. ASSUME NEW h \in Handlers, NEW k \in Kinds, NEW P \in SUBSET Positions, Start(h, k, P)
        PROVE  UNCHANGED positions
    BY <2>4 DEF Start, rows
  <2>5. ASSUME NEW h \in Handlers, NEW x \in Subjects,
               \/ FetchAnswers(h, x) \/ StoreFails(h, x) \/ FetchFails(h, x)
               \/ StorePrice(h, x) \/ NextSymbol(h, x)
        PROVE  UNCHANGED positions
    BY <2>5 DEF FetchAnswers, StoreFails, FetchFails, StorePrice, NextSymbol, SetTask
  <2>6. ASSUME NEW h \in Handlers, Begin(h) PROVE UNCHANGED positions
    BY <2>6 DEF Begin, rows
  <2>7. ASSUME NEW h \in Handlers, EndsOnly(h) PROVE UNCHANGED positions
    BY <2>7, EndsOnlyEnds
  <2>8. ASSUME NEW h \in Handlers,
               (\E p \in Positions : TurnTo(h, p)) \/ LockPosition(h) \/ PassOver(h)
        PROVE  UNCHANGED positions
    BY <2>8 DEF TurnTo, LockPosition, PassOver, rows
  <2>9. CASE UNCHANGED vars
    BY <2>9
  <2> QED
    BY <1>1, <2>1, <2>2, <2>3, <2>4, <2>5, <2>6, <2>7, <2>8, <2>9, NextCases
<1> QED
  BY <1>1, MarketInvariant, PTL DEF Spec, ClosedStays
=============================================================================
