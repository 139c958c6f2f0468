---------------------------- MODULE DemoSandbox ----------------------------
(***************************************************************************)
(* The demo sandbox of one company: POST /api/capital/demo/load plays a    *)
(* scripted scenario through the governed write paths and then writes a    *)
(* marker whose manifest names what it made; POST /api/capital/demo/reset  *)
(* deletes what the latest marker names.  Every step below is one call to  *)
(* the database; nothing holds the steps of a request together, and real   *)
(* confirmations and trades of the same company run between them.          *)
(*                                                                         *)
(* An operator named Faulty... is never used by the specification: it is   *)
(* the definition after it with a bug seeded in.                           *)
(***************************************************************************)
EXTENDS Integers, Sequences

CONSTANTS
  None,       \* no marker
  Loaders,    \* requests to load the demo
  Resetters,  \* requests to reset it
  Advisors,   \* a user's confirmations of an advisor recommendation
  Traders,    \* a user's sessions at the trading desk
  Plan,       \* the scenario: a sequence of submissions and closes
  Faults      \* whether a read or delete may fail and its error be ignored

Submit(k) == [kind |-> "submit", step |-> k]
CloseOf(k) == [kind |-> "close", step |-> k]

\* A demo intent is known by its run and step, a user's by its session.
Ids == (Loaders \cup Traders) \X Nat
Owner(i) == i[1]
Real == {i \in Ids : Owner(i) \in Traders}

Advice == {"strategy", "constitution"}
AdviceEvent == [type : Advice, run : Loaders \cup Advisors]
Event == [kind : {"decided", "opened", "marked", "closed"}, subject : Ids,
          by : Loaders \cup Traders]
Marker == [run : Loaders, at : Nat, intents : SUBSET Ids, events : SUBSET Event,
           advice : SUBSET AdviceEvent]

ASSUME DemoAssumption ==
  /\ Plan \in Seq([kind : {"submit", "close"}, step : Nat])
  /\ Faults \in BOOLEAN
  /\ Loaders \cap Traders = {} /\ Loaders \cap Resetters = {}
  /\ Loaders \cap Advisors = {} /\ Traders \cap (Resetters \cup Advisors) = {}
  /\ Resetters \cap Advisors = {}
  /\ None \notin Marker

VARIABLES
  intents,    \* rows of trade_intents, each with its decision
  open,       \* the intents whose paper position is open
  closed,     \* the intents whose paper position is closed
  trail,      \* audit events about an intent or a position
  advice,     \* audit events of advisor confirmations, with their time
  markers,    \* demo_scenario_loaded events
  stamp,      \* the audit ledger's clock
  pc,         \* where each request is
  mem,        \* what each load has in memory
  target,     \* the marker each reset works on
  unreversed  \* history: the runs whose rows a reset failed to delete

rows == <<intents, open, closed>>
ledger == <<trail, advice, markers, stamp>>
vars == <<rows, ledger, pc, mem, target, unreversed>>

Requests == Loaders \cup Resetters \cup Advisors \cup Traders
Memory == [next : Nat, made : SUBSET Ids, held : SUBSET Ids, toMark : SUBSET Ids,
           events : SUBSET Event, advice : SUBSET AdviceEvent]
NoMemory == [next |-> 1, made |-> {}, held |-> {}, toMark |-> {}, events |-> {}, advice |-> {}]

Init ==
  /\ intents = {} /\ open = {} /\ closed = {}
  /\ trail = {} /\ advice = {} /\ markers = {} /\ stamp = 0
  /\ pc = [r \in Requests |-> IF r \in Advisors THEN "strategy" ELSE "idle"]
  /\ mem = [l \in Loaders |-> NoMemory]
  /\ target = [z \in Resetters |-> None]
  /\ unreversed = {}

Goto(r, stage) == pc' = [pc EXCEPT ![r] = stage]
Newest(S) == {e \in S : \A f \in S : f.at <= e.at}

\* What a query may answer: an error is taken for an empty answer.
Answers(result) == {result} \cup (IF Faults THEN {{}} ELSE {})

(***************************************************************************)
(* Loading.                                                                *)
(***************************************************************************)

CheckMarker(l) ==
  /\ pc[l] = "idle"
  /\ \E found \in Answers(Newest(markers)) :
       Goto(l, IF found = {} THEN "strategy" ELSE "already")
  /\ UNCHANGED <<rows, ledger, mem, target, unreversed>>

\* confirmAdvisorRecommendation, for a load and for a user alike: one event
\* for the strategy, then one for the constitution.
RecordAdvice(r, type) ==
  /\ pc[r] = type
  /\ advice' = advice \cup {[type |-> type, run |-> r, at |-> stamp]}
  /\ stamp' = stamp + 1
  /\ Goto(r, CASE type = "strategy" -> "constitution"
               [] r \in Loaders     -> "fetch strategy"
               [] OTHER             -> "done")
  /\ UNCHANGED <<rows, trail, markers, mem, target, unreversed>>

FetchStage(type) == IF type = "strategy" THEN "fetch strategy" ELSE "fetch constitution"
Fetched(type) == Newest({e \in advice : e.type = type})

FetchAdvice(l, type) ==
  /\ pc[l] = FetchStage(type)
  /\ \E found \in Answers(Fetched(type)) :
       mem' = [mem EXCEPT ![l].advice =
                 @ \cup {[type |-> type, run |-> e.run] : e \in found}]
  /\ Goto(l, IF type = "strategy" THEN "fetch constitution" ELSE "plan")
  /\ UNCHANGED <<rows, ledger, target, unreversed>>

\* The plan's next action, for a load that has one.
Acting(l, kind) ==
  /\ pc[l] = "plan"
  /\ mem[l].next \in 1..Len(Plan)
  /\ Plan[mem[l].next].kind = kind
Subject(l) == <<l, Plan[mem[l].next].step>>

\* A row has an identity of its own.
Evaluated(i, r, approved) ==
  /\ i \notin intents
  /\ intents' = intents \cup {i}
  /\ open' = IF approved THEN open \cup {i} ELSE open
  /\ trail' = trail \cup {[kind |-> k, subject |-> i, by |-> r] :
                            k \in {"decided"} \cup (IF approved THEN {"opened"} ELSE {})}
  /\ UNCHANGED <<closed, advice, markers, stamp>>

\* createTradeIntent: the verdict depends on the whole book, of which the
\* demo is only a part.
SubmitIntent(l) ==
  /\ Acting(l, "submit")
  /\ \E approved \in BOOLEAN :
       /\ Evaluated(Subject(l), l, approved)
       /\ mem' = [mem EXCEPT ![l].next = @ + 1,
                             ![l].made = @ \cup {Subject(l)},
                             ![l].held = IF approved THEN @ \cup {Subject(l)} ELSE @]
  /\ UNCHANGED <<pc, target, unreversed>>

FaultyClosePosition(i, r) ==
  /\ i \in open
  /\ closed' = closed \cup {i}
  /\ trail' = trail \cup {[kind |-> "closed", subject |-> i, by |-> r]}
  /\ UNCHANGED <<intents, open, advice, markers, stamp>>
ClosePosition(i, r) ==
  /\ i \in open
  /\ open' = open \ {i}
  /\ closed' = closed \cup {i}
  /\ trail' = trail \cup {[kind |-> "closed", subject |-> i, by |-> r]}
  /\ UNCHANGED <<intents, advice, markers, stamp>>

CloseStep(l) ==
  /\ Acting(l, "close")
  /\ Subject(l) \in mem[l].held
  /\ ClosePosition(Subject(l), l)
  /\ mem' = [mem EXCEPT ![l].next = @ + 1]
  /\ UNCHANGED <<pc, target, unreversed>>

\* The submission was rejected: there is nothing to close.
SkipClose(l) ==
  /\ Acting(l, "close")
  /\ Subject(l) \notin mem[l].held
  /\ mem' = [mem EXCEPT ![l].next = @ + 1]
  /\ UNCHANGED <<rows, ledger, pc, target, unreversed>>

\* listPaperPositions: every open position of the portfolio, whoever opened it.
ListOpen(l) ==
  /\ pc[l] = "plan"
  /\ mem[l].next > Len(Plan)
  /\ \E found \in Answers(open) : mem' = [mem EXCEPT ![l].toMark = found]
  /\ Goto(l, "mark")
  /\ UNCHANGED <<rows, ledger, target, unreversed>>

MarkPosition(i, r) ==
  /\ i \in open
  /\ trail' = trail \cup {[kind |-> "marked", subject |-> i, by |-> r]}
  /\ UNCHANGED <<rows, advice, markers, stamp>>

MarkStep(l) ==
  /\ pc[l] = "mark"
  /\ \E i \in mem[l].toMark :
       /\ MarkPosition(i, l)
       /\ mem' = [mem EXCEPT ![l].toMark = @ \ {i}]
  /\ UNCHANGED <<pc, target, unreversed>>

\* The position to close or to mark is not open any more: the call throws, and
\* the load ends where it is.
LoadThrows(l) ==
  /\ \/ Acting(l, "close") /\ Subject(l) \in mem[l].held \ open
     \/ pc[l] = "mark" /\ mem[l].toMark \ open # {}
  /\ Goto(l, "cut off")
  /\ mem' = [mem EXCEPT ![l] = NoMemory]
  /\ UNCHANGED <<rows, ledger, target, unreversed>>

MarkingDone(l) == pc[l] = "mark" /\ mem[l].toMark = {}
FaultyAbout(S) == trail
ForgetfulAbout(S) == {e \in trail : e.subject \in S /\ e.kind # "marked"}
About(S) == {e \in trail : e.subject \in S}

CollectIntentEvents(l) ==
  /\ MarkingDone(l)
  /\ \E found \in Answers({e \in About(mem[l].made) : e.kind = "decided"}) :
       mem' = [mem EXCEPT ![l].events = found]
  /\ Goto(l, "collect")
  /\ UNCHANGED <<rows, ledger, target, unreversed>>

CollectPositionEvents(l) ==
  /\ pc[l] = "collect"
  /\ \E found \in Answers({e \in About(mem[l].held) : e.kind # "decided"}) :
       mem' = [mem EXCEPT ![l].events = @ \cup found]
  /\ Goto(l, "finish")
  /\ UNCHANGED <<rows, ledger, target, unreversed>>

FaultyManifest(l) ==
  [run |-> l, at |-> stamp, intents |-> mem[l].held, events |-> mem[l].events,
   advice |-> mem[l].advice]
Manifest(l) ==
  [run |-> l, at |-> stamp, intents |-> mem[l].made, events |-> mem[l].events,
   advice |-> mem[l].advice]

WriteMarker(l) ==
  /\ pc[l] = "finish"
  /\ markers' = markers \cup {Manifest(l)}
  /\ stamp' = stamp + 1
  /\ Goto(l, "loaded")
  /\ mem' = [mem EXCEPT ![l] = NoMemory]
  /\ UNCHANGED <<rows, trail, advice, target, unreversed>>

Load(l) ==
  \/ CheckMarker(l)
  \/ \E type \in Advice : RecordAdvice(l, type) \/ FetchAdvice(l, type)
  \/ SubmitIntent(l) \/ CloseStep(l) \/ SkipClose(l)
  \/ ListOpen(l) \/ MarkStep(l) \/ LoadThrows(l)
  \/ CollectIntentEvents(l) \/ CollectPositionEvents(l) \/ WriteMarker(l)

(***************************************************************************)
(* Resetting.                                                              *)
(***************************************************************************)

FindMarker(z) ==
  /\ pc[z] = "idle"
  /\ \E found \in Answers(Newest(markers)) :
       \/ found = {} /\ Goto(z, "not loaded") /\ UNCHANGED target
       \/ \E m \in found : target' = [target EXCEPT ![z] = m] /\ Goto(z, "delete rows")
  /\ UNCHANGED <<rows, ledger, mem, unreversed>>

FaultyDoomed(z) == target[z].intents \ closed
Doomed(z) == target[z].intents

\* Deleting an intent cascades to its decision and its position.
DeleteRows(z) ==
  /\ pc[z] = "delete rows"
  /\ \/ /\ intents' = intents \ Doomed(z)
        /\ open' = open \ Doomed(z)
        /\ closed' = closed \ Doomed(z)
        /\ UNCHANGED unreversed
     \/ Faults /\ unreversed' = unreversed \cup {target[z].run} /\ UNCHANGED rows
  /\ Goto(z, "delete events")
  /\ UNCHANGED <<ledger, mem, target>>

\* The manifest's events and the marker go in one statement.
DeleteEvents(z) ==
  /\ pc[z] = "delete events"
  /\ \/ /\ trail' = trail \ target[z].events
        /\ advice' = {e \in advice :
                        [type |-> e.type, run |-> e.run] \notin target[z].advice}
        /\ markers' = {m \in markers : m.run # target[z].run}
     \/ Faults /\ UNCHANGED <<trail, advice, markers>>
  /\ Goto(z, "record")
  /\ UNCHANGED <<rows, stamp, mem, target, unreversed>>

\* The demo_scenario_reset event, which nothing reads.
RecordReset(z) ==
  /\ pc[z] = "record"
  /\ Goto(z, "reset")
  /\ UNCHANGED <<rows, ledger, mem, target, unreversed>>

Reset(z) == FindMarker(z) \/ DeleteRows(z) \/ DeleteEvents(z) \/ RecordReset(z)

(***************************************************************************)
(* The user, and failures.                                                 *)
(***************************************************************************)

\* A session makes one call.
TradeIntent(t) ==
  /\ pc[t] = "idle"
  /\ \E approved \in BOOLEAN : Evaluated(<<t, 0>>, t, approved)
  /\ Goto(t, "done")
  /\ UNCHANGED <<mem, target, unreversed>>

\* A governed close or an audited mark of any open position, the demo's too.
ActOnPosition(t) ==
  /\ pc[t] = "idle"
  /\ \E i \in open : ClosePosition(i, t) \/ MarkPosition(i, t)
  /\ Goto(t, "done")
  /\ UNCHANGED <<mem, target, unreversed>>

\* A call fails, the server stops, or the request times out.
Ends == {"already", "loaded", "not loaded", "reset", "done", "cut off"}
CutOff(r) ==
  /\ r \in Loaders \cup Resetters
  /\ pc[r] \notin Ends \cup {"idle"}
  /\ Goto(r, "cut off")
  /\ mem' = IF r \in Loaders THEN [mem EXCEPT ![r] = NoMemory] ELSE mem
  /\ target' = IF r \in Resetters THEN [target EXCEPT ![r] = None] ELSE target
  /\ UNCHANGED <<rows, ledger, unreversed>>

Next ==
  \/ \E l \in Loaders : Load(l)
  \/ \E z \in Resetters : Reset(z)
  \/ \E a \in Advisors, type \in Advice : RecordAdvice(a, type)
  \/ \E t \in Traders : TradeIntent(t) \/ ActOnPosition(t)
  \/ \E r \in Requests : CutOff(r)

Spec == Init /\ [][Next]_vars

(***************************************************************************)
(* Properties.                                                             *)
(***************************************************************************)

Stages == Ends \cup Advice \cup
  {"idle", "fetch strategy", "fetch constitution", "plan", "mark", "collect", "finish",
   "delete rows", "delete events", "record"}

\* Every variable keeps its shape, and a position belongs to an intent and is
\* either open or closed.
TypeOK ==
  /\ intents \subseteq Ids /\ open \cup closed \subseteq intents /\ open \cap closed = {}
  /\ trail \subseteq Event
  /\ advice \subseteq [type : Advice, run : Loaders \cup Advisors, at : Nat]
  /\ markers \subseteq Marker
  /\ stamp \in Nat
  /\ pc \in [Requests -> Stages]
  /\ mem \in [Loaders -> Memory]
  /\ target \in [Resetters -> Marker \cup {None}]
  /\ unreversed \subseteq Loaders

\* "Safe to run against a company that also has real portfolio activity": no
\* demo request removes a user's intent, closes or removes a user's position, or
\* deletes an audit event about one, whatever it races with.
RealRowsKept ==
  [][(\E l \in Loaders : Load(l)) \/ (\E z \in Resetters : Reset(z)) =>
       /\ intents \cap Real \subseteq intents'
       /\ open \cap Real \subseteq open' /\ closed \cap Real \subseteq closed'
       /\ {e \in trail : e.subject \in Real} \subseteq trail']_vars

\* A demo row that is still there is named by its run's marker, so that a reset
\* finds it; unless the run is still going on or was cut off before its marker,
\* or a reset could not delete the rows and deleted the marker all the same.
NamedOrCutOff ==
  \A i \in intents \ Real :
    \/ \E m \in markers : m.run = Owner(i) /\ i \in m.intents
    \/ pc[Owner(i)] # "loaded"
    \/ Owner(i) \in unreversed

\* The audit ledger never loses the evidence of a row that is still there,
\* unless a reset deleted the events of rows that it failed to delete.
RowsHaveEvidence ==
  \A i \in intents :
    \/ \E e \in trail : e.kind = "decided" /\ e.subject = i
    \/ Owner(i) \in unreversed

\* Without ignored errors, what a run wrote about its own rows goes with them,
\* or is still named by a marker, so that another reset can remove it.
NothingLeftBehind ==
  ~Faults =>
    \A e \in trail :
      e.subject \in intents \/ e.by # Owner(e.subject)
        \/ \E m \in markers : e \in m.events
=============================================================================
