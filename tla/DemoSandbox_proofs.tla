------------------------- MODULE DemoSandbox_proofs -------------------------
(***************************************************************************)
(* Proofs about DemoSandbox for any number of requests and any scenario.   *)
(***************************************************************************)
EXTENDS DemoSandbox, TLAPS

Working == {"plan", "mark", "collect", "finish"}
Before == {"idle", "already", "strategy", "constitution", "fetch strategy",
           "fetch constitution"}

\* A load that is still going on has all its rows in memory, and one that has
\* not come to the plan has none.
RowsRemembered ==
  \A l \in Loaders : \A i \in intents :
    Owner(i) = l => pc[l] \notin Before /\ (pc[l] \in Working => i \in mem[l].made)

\* A load remembers nothing of anybody else.
MemoryOwn ==
  \A l \in Loaders :
    /\ \A i \in mem[l].made \cup mem[l].held : Owner(i) = l
    /\ \A e \in mem[l].events : Owner(e.subject) = l

\* A marker names rows and events of its run alone, and all that is left of
\* the run's rows.
Sound(m) ==
  /\ pc[m.run] = "loaded"
  /\ \A i \in m.intents : Owner(i) = m.run
  /\ \A e \in m.events : Owner(e.subject) = m.run
  /\ \A i \in intents : Owner(i) = m.run => i \in m.intents
MarkersSound == \A m \in markers : Sound(m)

\* So does the marker a reset has read, even if it is gone; and events are
\* deleted after the rows, or after a failure to delete the rows.
TargetsSound ==
  \A z \in Resetters :
    /\ target[z] # None => Sound(target[z])
    /\ pc[z] \in {"delete rows", "delete events"} => target[z] # None
    /\ pc[z] = "delete events" =>
         target[z].intents \cap intents = {} \/ target[z].run \in unreversed

DemoInv ==
  TypeOK /\ RowsRemembered /\ MemoryOwn /\ MarkersSound /\ TargetsSound
    /\ NamedOrCutOff /\ RowsHaveEvidence

\* Loads are neither resets nor users, and an identity tells them apart.
LEMMA Apart ==
  /\ \A l \in Loaders : l \notin Resetters /\ l \notin Advisors /\ l \notin Traders
  /\ \A l \in Loaders, k \in Nat : <<l, k>> \in Ids /\ Owner(<<l, k>>) = l
  /\ \A t \in Traders : <<t, 0>> \in Ids /\ Owner(<<t, 0>>) = t
  /\ \A i \in Ids : Owner(i) \in Loaders \cup Traders /\ (i \in Real <=> Owner(i) \notin Loaders)
BY DemoAssumption DEF Ids, Owner, Real

\* The plan's next action is about a row of the load's own.
LEMMA PlannedStep ==
  ASSUME TypeOK, NEW l \in Loaders, NEW kind, Acting(l, kind)
  PROVE  /\ pc[l] = "plan" /\ mem[l].next \in Nat /\ mem[l].next + 1 \in Nat
         /\ Subject(l) \in Ids /\ Owner(Subject(l)) = l
<1>1. mem[l].next \in 1..Len(Plan) /\ pc[l] = "plan"
  BY DEF Acting
<1> DEFINE Step == [kind : {"submit", "close"}, step : Nat]
<1>2. Plan[mem[l].next] \in Step
  <2>1. Plan \in Seq(Step)
    BY DemoAssumption
  <2> HIDE DEF Step
  <2> QED
    BY <1>1, <2>1
<1>3. Plan[mem[l].next].step \in Nat
  BY <1>2
<1>4. mem[l].next \in Nat /\ mem[l].next + 1 \in Nat
  <2>1. mem[l].next \in Nat
    BY DEF TypeOK, Memory
  <2> QED
    BY <2>1
<1> QED
  BY <1>1, <1>3, <1>4, Apart DEF Subject

\* An answer never names what is not there.
LEMMA SomeAnswer ==
  ASSUME NEW S, NEW T, T \in Answers(S) PROVE T \subseteq S
BY DEF Answers

\* An audit event is well formed.
LEMMA EventTyped ==
  ASSUME NEW k \in {"decided", "opened", "marked", "closed"}, NEW i \in Ids,
         NEW r \in Loaders \cup Traders
  PROVE  [kind |-> k, subject |-> i, by |-> r] \in Event
BY DEF Event

\* So is what a load copies of the events of a confirmation.
LEMMA AdviceTyped ==
  ASSUME TypeOK, NEW S, S \subseteq advice, NEW t \in Advice
  PROVE  /\ {[type |-> t, run |-> e.run] : e \in S} \subseteq AdviceEvent
         /\ {[type |-> e.type, run |-> e.run] : e \in S} \subseteq AdviceEvent
<1>1. \A e \in S : e.type \in Advice /\ e.run \in Loaders \cup Advisors
  BY DEF TypeOK
<1> QED
  BY <1>1 DEF AdviceEvent

\* What a verdict, a close and a mark do to the rows and to the trail.
LEMMA RowTypes ==
  ASSUME TypeOK, NEW i \in Ids, NEW r \in Loaders \cup Traders,
         \/ \E approved \in BOOLEAN : Evaluated(i, r, approved)
         \/ ClosePosition(i, r) \/ MarkPosition(i, r)
  PROVE  /\ intents' \subseteq Ids /\ open' \cup closed' \subseteq intents'
         /\ open' \cap closed' = {} /\ trail' \subseteq Event
         /\ UNCHANGED <<advice, markers, stamp>>
<1>1. /\ intents \subseteq Ids /\ open \cup closed \subseteq intents
      /\ open \cap closed = {} /\ trail \subseteq Event
  BY DEF TypeOK
<1>2. \A k \in {"decided", "opened", "marked", "closed"} :
        [kind |-> k, subject |-> i, by |-> r] \in Event
  BY EventTyped
<1>3. ASSUME NEW approved \in BOOLEAN, Evaluated(i, r, approved)
      PROVE  /\ intents' \subseteq Ids /\ open' \cup closed' \subseteq intents'
             /\ open' \cap closed' = {} /\ trail' \subseteq Event
             /\ UNCHANGED <<advice, markers, stamp>>
  <2>1. trail' \subseteq Event
    BY <1>1, <1>2, <1>3 DEF Evaluated
  <2> QED
    BY <1>1, <1>3, <2>1 DEF Evaluated
<1>4. CASE ClosePosition(i, r)
  BY <1>1, <1>2, <1>4 DEF ClosePosition
<1>5. CASE MarkPosition(i, r)
  BY <1>1, <1>2, <1>5 DEF MarkPosition, rows
<1> QED
  BY <1>3, <1>4, <1>5

\* The clock can always tick.
LEMMA Tick == ASSUME TypeOK PROVE stamp + 1 \in Nat
<1>1. stamp \in Nat
  BY DEF TypeOK
<1> QED
  BY <1>1

\* A load goes from stage to stage.
LEMMA Gone ==
  ASSUME TypeOK, NEW r, NEW stage \in Stages, Goto(r, stage) PROVE pc' \in [Requests -> Stages]
<1>1. pc \in [Requests -> Stages]
  BY DEF TypeOK
<1> QED
  BY <1>1 DEF Goto

\* A confirmation's events, of a load or of a user.
LEMMA RecordTypes ==
  ASSUME TypeOK, NEW r \in Loaders \cup Advisors, NEW type \in Advice, RecordAdvice(r, type)
  PROVE  TypeOK'
<1> DEFINE event == [type |-> type, run |-> r, at |-> stamp]
           stage == CASE type = "strategy" -> "constitution"
                      [] r \in Loaders     -> "fetch strategy"
                      [] OTHER             -> "done"
<1>1. stamp \in Nat /\ stamp' = stamp + 1
  BY DEF TypeOK, RecordAdvice
<1>2. stamp' \in Nat
  BY <1>1
<1>3. advice' = advice \cup {event}
  BY DEF RecordAdvice
<1>4. event \in [type : Advice, run : Loaders \cup Advisors, at : Nat]
  BY <1>1
<1>5. advice' \subseteq [type : Advice, run : Loaders \cup Advisors, at : Nat]
  BY <1>3, <1>4 DEF TypeOK
<1>6. pc' = [pc EXCEPT ![r] = stage] /\ stage \in Stages
  BY DEF RecordAdvice, Goto, Stages, Ends, Advice
<1> HIDE DEF stage
<1>7. pc' \in [Requests -> Stages]
  BY <1>6 DEF TypeOK
<1> QED
  BY <1>2, <1>5, <1>7 DEF TypeOK, RecordAdvice, rows

\* The shapes are kept by every step of a load.
LEMMA LoadTypes ==
  ASSUME TypeOK, NEW l \in Loaders, Load(l) PROVE TypeOK'
<1> USE DemoAssumption DEF TypeOK, rows, ledger, Goto, Stages, Ends, Requests
<1>0. mem[l] \in Memory /\ pc[l] \in Stages /\ NoMemory \in Memory
  BY DEF Memory, NoMemory
<1>1. CASE CheckMarker(l)
  <2>1. Goto(l, "strategy") \/ Goto(l, "already")
    BY <1>1 DEF CheckMarker
  <2>2. pc' \in [Requests -> Stages]
    BY <2>1, Gone DEF Advice
  <2> QED
    BY <1>1, <2>2 DEF CheckMarker
<1>2. ASSUME NEW type \in Advice, RecordAdvice(l, type) PROVE TypeOK'
  BY <1>2, RecordTypes
<1>3. ASSUME NEW type \in Advice, FetchAdvice(l, type) PROVE TypeOK'
  <2>1. PICK found \in Answers(Fetched(type)) :
          mem' = [mem EXCEPT ![l].advice =
                    @ \cup {[type |-> type, run |-> e.run] : e \in found}]
    BY <1>3 DEF FetchAdvice
  <2>2. found \subseteq advice
    BY <2>1, SomeAnswer DEF Fetched, Newest
  <2>3. {[type |-> type, run |-> e.run] : e \in found} \subseteq AdviceEvent
    BY <2>2, AdviceTyped
  <2>4. mem' \in [Loaders -> Memory]
    BY <1>0, <2>1, <2>3 DEF Memory
  <2> QED
    BY <1>3, <2>4 DEF FetchAdvice
<1>4. CASE SubmitIntent(l)
  <2> DEFINE i == Subject(l)
  <2>1. i \in Ids /\ pc[l] = "plan" /\ mem[l].next + 1 \in Nat
    BY <1>4, PlannedStep DEF SubmitIntent
  <2> HIDE DEF i
  <2>2. PICK approved \in BOOLEAN :
          /\ Evaluated(i, l, approved)
          /\ mem' = [mem EXCEPT ![l].next = @ + 1,
                                ![l].made = @ \cup {i},
                                ![l].held = IF approved THEN @ \cup {i} ELSE @]
    BY <1>4 DEF SubmitIntent, i
  <2>3. mem' \in [Loaders -> Memory]
    BY <1>0, <2>1, <2>2 DEF Memory
  <2>4. /\ intents' \subseteq Ids /\ open' \cup closed' \subseteq intents'
        /\ open' \cap closed' = {} /\ trail' \subseteq Event
        /\ UNCHANGED <<advice, markers, stamp>>
    BY <2>1, <2>2, RowTypes
  <2> QED
    BY <1>4, <2>3, <2>4 DEF SubmitIntent
<1>5. CASE CloseStep(l) \/ SkipClose(l)
  <2>1. Subject(l) \in Ids /\ mem[l].next + 1 \in Nat
    BY <1>5, PlannedStep DEF CloseStep, SkipClose
  <2>2. mem' = [mem EXCEPT ![l].next = @ + 1]
    BY <1>5 DEF CloseStep, SkipClose
  <2>3. mem' \in [Loaders -> Memory]
    BY <1>0, <2>1, <2>2 DEF Memory
  <2>4. CASE CloseStep(l)
    <3>1. ClosePosition(Subject(l), l)
      BY <2>4 DEF CloseStep
    <3>2. /\ intents' \subseteq Ids /\ open' \cup closed' \subseteq intents'
          /\ open' \cap closed' = {} /\ trail' \subseteq Event
          /\ UNCHANGED <<advice, markers, stamp>>
      BY <2>1, <3>1, RowTypes
    <3> QED
      BY <2>3, <2>4, <3>2 DEF CloseStep
  <2>5. CASE SkipClose(l)
    BY <2>3, <2>5 DEF SkipClose
  <2> QED
    BY <1>5, <2>4, <2>5
<1>6. CASE ListOpen(l)
  <2>1. PICK found \in Answers(open) : mem' = [mem EXCEPT ![l].toMark = found]
    BY <1>6 DEF ListOpen
  <2>2. found \subseteq Ids
    BY <2>1, SomeAnswer
  <2>3. mem' \in [Loaders -> Memory]
    BY <1>0, <2>1, <2>2 DEF Memory
  <2> QED
    BY <1>6, <2>3 DEF ListOpen
<1>7. CASE MarkStep(l)
  <2>1. PICK i \in mem[l].toMark :
          MarkPosition(i, l) /\ mem' = [mem EXCEPT ![l].toMark = @ \ {i}]
    BY <1>7 DEF MarkStep
  <2>2. mem' \in [Loaders -> Memory]
    BY <1>0, <2>1 DEF Memory
  <2>3. /\ intents' \subseteq Ids /\ open' \cup closed' \subseteq intents'
        /\ open' \cap closed' = {} /\ trail' \subseteq Event
        /\ UNCHANGED <<advice, markers, stamp>>
    <3>1. i \in Ids
      BY <1>0, <2>1 DEF Memory
    <3> QED
      BY <2>1, <3>1, RowTypes
  <2> QED
    BY <1>7, <2>2, <2>3 DEF MarkStep
<1>8. CASE LoadThrows(l)
  BY <1>0, <1>8 DEF LoadThrows
<1>9. CASE CollectIntentEvents(l)
  <2>1. PICK found \in Answers({e \in About(mem[l].made) : e.kind = "decided"}) :
          mem' = [mem EXCEPT ![l].events = found]
    BY <1>9 DEF CollectIntentEvents
  <2>2. found \subseteq Event
    BY <2>1, SomeAnswer DEF About
  <2>3. mem' \in [Loaders -> Memory]
    BY <1>0, <2>1, <2>2 DEF Memory
  <2> QED
    BY <1>9, <2>3 DEF CollectIntentEvents
<1>10. CASE CollectPositionEvents(l)
  <2>1. PICK found \in Answers({e \in About(mem[l].held) : e.kind # "decided"}) :
          mem' = [mem EXCEPT ![l].events = @ \cup found]
    BY <1>10 DEF CollectPositionEvents
  <2>2. found \subseteq Event
    BY <2>1, SomeAnswer DEF About
  <2>3. mem' \in [Loaders -> Memory]
    BY <1>0, <2>1, <2>2 DEF Memory
  <2> QED
    BY <1>10, <2>3 DEF CollectPositionEvents
<1>11. CASE WriteMarker(l)
  <2>1. Manifest(l) \in Marker
    BY <1>0 DEF Manifest, Marker, Memory
  <2>2. markers' \subseteq Marker
    BY <1>11, <2>1 DEF WriteMarker
  <2>3. stamp' \in Nat
    BY <1>11, Tick DEF WriteMarker
  <2>4. pc' \in [Requests -> Stages] /\ mem' \in [Loaders -> Memory]
    BY <1>0, <1>11 DEF WriteMarker
  <2> QED
    BY <1>11, <2>2, <2>3, <2>4 DEF WriteMarker
<1> QED
  BY <1>1, <1>2, <1>3, <1>4, <1>5, <1>6, <1>7, <1>8, <1>9, <1>10, <1>11 DEF Load

\* The shapes are kept by every step.
LEMMA TypePreserved ==
  ASSUME TypeOK, TargetsSound, [Next]_vars PROVE TypeOK'
<1> USE DemoAssumption DEF TypeOK, rows, ledger, Goto, Stages, Ends, Requests
<1>1. ASSUME NEW z \in Resetters, FindMarker(z) PROVE TypeOK'
  <2>1. PICK found \in Answers(Newest(markers)) :
          \/ found = {} /\ Goto(z, "not loaded") /\ UNCHANGED target
          \/ \E m \in found : target' = [target EXCEPT ![z] = m] /\ Goto(z, "delete rows")
    BY <1>1 DEF FindMarker
  <2>2. found \subseteq Marker
    BY <2>1, SomeAnswer DEF Newest
  <2>3. target' \in [Resetters -> Marker \cup {None}] /\ pc' \in [Requests -> Stages]
    BY <2>1, <2>2
  <2> QED
    BY <1>1, <2>3 DEF FindMarker
<1>2. ASSUME NEW z \in Resetters, DeleteRows(z) PROVE TypeOK'
  <2>1. target[z] \in Marker
    BY <1>2 DEF TargetsSound, DeleteRows
  <2>2. target[z].run \in Loaders
    BY <2>1 DEF Marker
  <2>3. unreversed' \subseteq Loaders
    BY <1>2, <2>2 DEF DeleteRows
  <2>4. /\ intents' \subseteq Ids /\ open' \cup closed' \subseteq intents'
        /\ open' \cap closed' = {}
    BY <1>2 DEF DeleteRows
  <2>5. pc' \in [Requests -> Stages]
    BY <1>2 DEF DeleteRows
  <2> QED
    BY <1>2, <2>3, <2>4, <2>5 DEF DeleteRows
<1>3. ASSUME NEW z \in Resetters, DeleteEvents(z) PROVE TypeOK'
  BY <1>3 DEF DeleteEvents
<1>4. ASSUME NEW z \in Resetters, RecordReset(z) PROVE TypeOK'
  BY <1>4 DEF RecordReset
<1>5. ASSUME NEW a \in Advisors, NEW type \in Advice, RecordAdvice(a, type) PROVE TypeOK'
  BY <1>5, RecordTypes
<1>6. ASSUME NEW t \in Traders, TradeIntent(t) \/ ActOnPosition(t) PROVE TypeOK'
  <2>1. \E i \in Ids : \/ \E approved \in BOOLEAN : Evaluated(i, t, approved)
                       \/ ClosePosition(i, t) \/ MarkPosition(i, t)
    BY <1>6, Apart DEF TradeIntent, ActOnPosition
  <2>2. /\ intents' \subseteq Ids /\ open' \cup closed' \subseteq intents'
        /\ open' \cap closed' = {} /\ trail' \subseteq Event
        /\ UNCHANGED <<advice, markers, stamp>>
    BY <2>1, RowTypes
  <2>3. pc' \in [Requests -> Stages] /\ UNCHANGED <<mem, target, unreversed>>
    BY <1>6 DEF TradeIntent, ActOnPosition
  <2> QED
    BY <2>2, <2>3
<1>7. ASSUME NEW r \in Requests, CutOff(r) PROVE TypeOK'
  <2>1. NoMemory \in Memory
    BY DEF Memory, NoMemory
  <2> QED
    BY <1>7, <2>1 DEF CutOff
<1>8. CASE UNCHANGED vars
  BY <1>8 DEF vars
<1>9. ASSUME NEW l \in Loaders, Load(l) PROVE TypeOK'
  BY <1>9, LoadTypes
<1> QED
  BY <1>1, <1>2, <1>3, <1>4, <1>5, <1>6, <1>7, <1>8, <1>9 DEF Next, Reset

(***************************************************************************)
(* Whose step it is.                                                       *)
(***************************************************************************)

\* Rows appear with the evidence of their verdict.
Adds(r) ==
  \A i \in intents' \ intents :
    Owner(i) = r /\ \E e \in trail' : e.kind = "decided" /\ e.subject = i

\* A step of request r moves r alone, adds rows of r alone, and is not taken
\* by a load that has finished.
Moves(r) ==
  /\ pc[r] # "loaded"
  /\ \A q \in Requests \ {r} : pc'[q] = pc[q]
  /\ \A l \in Loaders \ {r} : mem'[l] = mem[l]
  /\ \A z \in Resetters \ {r} : target'[z] = target[z]
  /\ unreversed \subseteq unreversed'
  /\ Adds(r)

\* A verdict, a close and a mark remove neither rows nor events.
LEMMA RowsAdd ==
  ASSUME TypeOK, NEW i \in Ids, NEW r,
         \/ Owner(i) = r /\ \E approved \in BOOLEAN : Evaluated(i, r, approved)
         \/ ClosePosition(i, r) \/ MarkPosition(i, r)
  PROVE  Adds(r) /\ intents \subseteq intents' /\ trail \subseteq trail'
<1>1. ASSUME NEW approved \in BOOLEAN, Owner(i) = r, Evaluated(i, r, approved)
      PROVE  Adds(r) /\ intents \subseteq intents' /\ trail \subseteq trail'
  <2> DEFINE e == [kind |-> "decided", subject |-> i, by |-> r]
  <2>1. e \in trail' /\ trail \subseteq trail' /\ intents' = intents \cup {i}
    BY <1>1 DEF Evaluated
  <2>2. e.kind = "decided" /\ e.subject = i
    OBVIOUS
  <2> HIDE DEF e
  <2> QED
    BY <1>1, <2>1, <2>2 DEF Adds
<1>2. CASE ClosePosition(i, r) \/ MarkPosition(i, r)
  BY <1>2 DEF ClosePosition, MarkPosition, rows, Adds
<1> QED
  BY <1>1, <1>2

\* A step of a load never removes a row or an event.
LEMMA LoadAdds ==
  ASSUME TypeOK, NEW l \in Loaders, Load(l)
  PROVE  Adds(l) /\ intents \subseteq intents' /\ trail \subseteq trail'
<1>1. CASE SubmitIntent(l)
  BY <1>1, PlannedStep, RowsAdd DEF SubmitIntent
<1>2. CASE CloseStep(l)
  BY <1>2, PlannedStep, RowsAdd DEF CloseStep
<1>3. CASE MarkStep(l)
  <2>1. mem[l].toMark \subseteq Ids
    BY DEF TypeOK, Memory
  <2> QED
    BY <1>3, <2>1, RowsAdd DEF MarkStep
<1>4. CASE UNCHANGED <<intents, trail>>
  BY <1>4 DEF Adds
<1> QED
  BY <1>1, <1>2, <1>3, <1>4 DEF Load, CheckMarker, RecordAdvice, FetchAdvice, SkipClose,
     ListOpen, LoadThrows, CollectIntentEvents, CollectPositionEvents, WriteMarker, rows, ledger

\* A step of a load is that load's.
LEMMA LoadMoves ==
  ASSUME TypeOK, NEW l \in Loaders, Load(l) PROVE Moves(l)
<1>1. Adds(l)
  BY LoadAdds
<1>2. UNCHANGED <<target, unreversed>>
  BY DEF Load, CheckMarker, RecordAdvice, FetchAdvice, SubmitIntent, CloseStep, SkipClose,
     ListOpen, MarkStep, LoadThrows, CollectIntentEvents, CollectPositionEvents, WriteMarker
<1>3. pc[l] # "loaded"
  BY DEF Load, CheckMarker, RecordAdvice, FetchAdvice, SubmitIntent, CloseStep, SkipClose,
     ListOpen, MarkStep, LoadThrows, CollectIntentEvents, CollectPositionEvents, WriteMarker,
     Acting, MarkingDone, Advice, FetchStage
<1>4. (\E stage : Goto(l, stage)) \/ UNCHANGED pc
  BY DEF Load, CheckMarker, RecordAdvice, FetchAdvice, SubmitIntent, CloseStep, SkipClose,
     ListOpen, MarkStep, LoadThrows, CollectIntentEvents, CollectPositionEvents, WriteMarker
<1>5. \A q \in Requests \ {l} : pc'[q] = pc[q]
  BY <1>4 DEF Goto, TypeOK
<1>6. \A k \in Loaders \ {l} : mem'[k] = mem[k]
  BY DEF Load, CheckMarker, RecordAdvice, FetchAdvice, SubmitIntent, CloseStep, SkipClose,
     ListOpen, MarkStep, LoadThrows, CollectIntentEvents, CollectPositionEvents, WriteMarker,
     TypeOK
<1> QED
  BY <1>1, <1>2, <1>3, <1>5, <1>6 DEF Moves

\* A step of a reset is that reset's.
LEMMA ResetMoves ==
  ASSUME TypeOK, NEW z \in Resetters, Reset(z) PROVE Moves(z)
<1> USE DEF Reset, FindMarker, DeleteRows, DeleteEvents, RecordReset, rows, ledger
<1>1. pc[z] # "loaded" /\ unreversed \subseteq unreversed' /\ Adds(z) /\ UNCHANGED mem
  BY DEF Adds
<1>2. \E stage : Goto(z, stage)
  OBVIOUS
<1>3. \A q \in Requests \ {z} : pc'[q] = pc[q]
  BY <1>2 DEF Goto, TypeOK
<1>4. \A y \in Resetters \ {z} : target'[y] = target[y]
  BY DEF TypeOK
<1> QED
  BY <1>1, <1>3, <1>4 DEF Moves

\* So are a user's steps and failures.
LEMMA UserMoves ==
  ASSUME TypeOK, NEW r \in Requests,
         \/ r \in Advisors /\ \E type \in Advice : RecordAdvice(r, type)
         \/ r \in Traders /\ (TradeIntent(r) \/ ActOnPosition(r))
         \/ CutOff(r)
  PROVE  Moves(r)
<1>1. CASE r \in Advisors /\ \E type \in Advice : RecordAdvice(r, type)
  BY <1>1 DEF RecordAdvice, Moves, Adds, Goto, TypeOK, rows, Advice
<1>2. CASE r \in Traders /\ (TradeIntent(r) \/ ActOnPosition(r))
  <2>1. Adds(r)
    BY <1>2, RowsAdd, Apart DEF TradeIntent, ActOnPosition, TypeOK
  <2>2. pc[r] # "loaded" /\ Goto(r, "done") /\ UNCHANGED <<mem, target, unreversed>>
    BY <1>2 DEF TradeIntent, ActOnPosition
  <2> QED
    BY <2>1, <2>2 DEF Moves, Goto, TypeOK
<1>3. CASE CutOff(r)
  <2>1. pc[r] # "loaded" /\ Goto(r, "cut off") /\ UNCHANGED <<intents, unreversed>>
    BY <1>3 DEF CutOff, Ends, rows
  <2>2. \A l \in Loaders \ {r} : mem'[l] = mem[l]
    BY <1>3 DEF CutOff, TypeOK
  <2>3. \A z \in Resetters \ {r} : target'[z] = target[z]
    BY <1>3 DEF CutOff, TypeOK
  <2> QED
    BY <2>1, <2>2, <2>3 DEF Moves, Adds, Goto, TypeOK
<1> QED
  BY <1>1, <1>2, <1>3

(***************************************************************************)
(* The invariant.                                                          *)
(***************************************************************************)

\* What is sound of a finished run stays so, whoever moves.
LEMMA SoundKept ==
  ASSUME TypeOK, NEW r \in Requests, Moves(r), NEW m \in Marker, Sound(m)
  PROVE  /\ Sound(m)' /\ m.run \in Loaders /\ m.run # r
         /\ \A i \in intents' \ intents : Owner(i) # m.run
<1>1. m.run \in Loaders
  BY DEF Marker
<1>2. pc[m.run] = "loaded" /\ pc[r] # "loaded" /\ m.run \in Requests \ {r}
  BY <1>1 DEF Sound, Moves, Requests
<1>3. pc'[m.run] = "loaded"
  BY <1>2 DEF Moves
<1>4. \A i \in intents' \ intents : Owner(i) # m.run
  BY <1>2 DEF Moves, Adds
<1> QED
  BY <1>1, <1>2, <1>3, <1>4 DEF Sound

\* A load's own step keeps its memory of its rows.
LEMMA LoadRemembers ==
  ASSUME DemoInv, NEW l \in Loaders, Load(l)
  PROVE  /\ \A i \in intents' :
              Owner(i) = l => pc'[l] \notin Before /\ (pc'[l] \in Working => i \in mem'[l].made)
         /\ \A i \in mem'[l].made \cup mem'[l].held : Owner(i) = l
         /\ \A e \in mem'[l].events : Owner(e.subject) = l
<1>0. /\ TypeOK /\ mem[l] \in Memory /\ l \in Requests
      /\ mem \in [Loaders -> Memory] /\ pc \in [Requests -> Stages]
      /\ \A i \in intents :
           Owner(i) = l => pc[l] \notin Before /\ (pc[l] \in Working => i \in mem[l].made)
      /\ \A i \in mem[l].made \cup mem[l].held : Owner(i) = l
      /\ \A e \in mem[l].events : Owner(e.subject) = l
  BY DEF DemoInv, TypeOK, RowsRemembered, MemoryOwn, Requests
<1> USE DEF Before, Working, Goto, rows, ledger
<1>1. CASE CheckMarker(l) \/ (\E type \in Advice : RecordAdvice(l, type))
  <2>1. pc[l] \in Before /\ UNCHANGED <<intents, mem>>
    BY <1>1 DEF CheckMarker, RecordAdvice, Advice
  <2> QED
    BY <1>0, <2>1
<1>2. ASSUME NEW type \in Advice, FetchAdvice(l, type)
      PROVE  /\ \A i \in intents' : Owner(i) # l
             /\ mem'[l].made = mem[l].made /\ mem'[l].held = mem[l].held
             /\ mem'[l].events = mem[l].events
  <2>1. pc[l] \in Before /\ UNCHANGED intents
    BY <1>2 DEF FetchAdvice, FetchStage
  <2>2. \E S : mem' = [mem EXCEPT ![l].advice = S]
    BY <1>2 DEF FetchAdvice
  <2> QED
    BY <1>0, <2>1, <2>2 DEF Memory
<1>3. CASE SubmitIntent(l)
  <2> DEFINE i == Subject(l)
  <2>1. pc[l] = "plan" /\ pc'[l] = "plan" /\ Owner(i) = l
    BY <1>0, <1>3, PlannedStep DEF SubmitIntent
  <2>2. intents' = intents \cup {i}
    BY <1>3 DEF SubmitIntent, Evaluated
  <2>3. \E approved \in BOOLEAN :
          mem' = [mem EXCEPT ![l].next = @ + 1,
                             ![l].made = @ \cup {i},
                             ![l].held = IF approved THEN @ \cup {i} ELSE @]
    BY <1>3 DEF SubmitIntent
  <2> HIDE DEF i
  <2>4. /\ mem'[l].made = mem[l].made \cup {i} /\ mem'[l].held \subseteq mem[l].held \cup {i}
        /\ mem'[l].events = mem[l].events
    BY <1>0, <2>3 DEF Memory
  <2> QED
    BY <1>0, <2>1, <2>2, <2>4
<1>4. CASE CloseStep(l) \/ SkipClose(l) \/ ListOpen(l) \/ MarkStep(l)
  <2>1. UNCHANGED intents /\ pc[l] \in {"plan", "mark"} /\ pc'[l] \in {"plan", "mark"}
    BY <1>0, <1>4 DEF CloseStep, SkipClose, ListOpen, MarkStep, Acting, ClosePosition,
       MarkPosition
  <2>2. (\E n : mem' = [mem EXCEPT ![l].next = n]) \/ (\E S : mem' = [mem EXCEPT ![l].toMark = S])
    BY <1>4 DEF CloseStep, SkipClose, ListOpen, MarkStep
  <2>3. /\ mem'[l].made = mem[l].made /\ mem'[l].held = mem[l].held
        /\ mem'[l].events = mem[l].events
    BY <1>0, <2>2 DEF Memory
  <2> QED
    BY <1>0, <2>1, <2>3
<1>5. CASE LoadThrows(l)
  BY <1>0, <1>5 DEF LoadThrows, NoMemory, Acting
<1>6. CASE CollectIntentEvents(l) \/ CollectPositionEvents(l)
  <2>1. UNCHANGED intents /\ pc[l] \in Working /\ pc'[l] \in Working
    BY <1>0, <1>6 DEF CollectIntentEvents, CollectPositionEvents, MarkingDone
  <2>2. PICK found :
          /\ \A e \in found : e.subject \in mem[l].made \cup mem[l].held
          /\ \/ mem' = [mem EXCEPT ![l].events = found]
             \/ mem' = [mem EXCEPT ![l].events = @ \cup found]
    <3>1. CASE CollectIntentEvents(l)
      <4>1. PICK found \in Answers({e \in About(mem[l].made) : e.kind = "decided"}) :
              mem' = [mem EXCEPT ![l].events = found]
        BY <3>1 DEF CollectIntentEvents
      <4>2. \A e \in found : e.subject \in mem[l].made
        BY <4>1, SomeAnswer DEF About
      <4> QED
        BY <4>1, <4>2
    <3>2. CASE CollectPositionEvents(l)
      <4>1. PICK found \in Answers({e \in About(mem[l].held) : e.kind # "decided"}) :
              mem' = [mem EXCEPT ![l].events = @ \cup found]
        BY <3>2 DEF CollectPositionEvents
      <4>2. \A e \in found : e.subject \in mem[l].held
        BY <4>1, SomeAnswer DEF About
      <4> QED
        BY <4>1, <4>2
    <3> QED
      BY <1>6, <3>1, <3>2
  <2>3. /\ mem'[l].made = mem[l].made /\ mem'[l].held = mem[l].held
        /\ mem'[l].events \subseteq mem[l].events \cup found
    BY <1>0, <2>2 DEF Memory
  <2>4. \A e \in found : Owner(e.subject) = l
    BY <1>0, <2>2
  <2> QED
    BY <1>0, <2>1, <2>3, <2>4
<1>7. CASE WriteMarker(l)
  <2>1. UNCHANGED intents /\ pc[l] = "finish" /\ pc'[l] = "loaded" /\ mem'[l] = NoMemory
    BY <1>0, <1>7 DEF WriteMarker
  <2> QED
    BY <1>0, <2>1 DEF NoMemory
<1>8. CASE \E type \in Advice : FetchAdvice(l, type)
  BY <1>0, <1>2, <1>8
<1> QED
  BY <1>1, <1>3, <1>4, <1>5, <1>6, <1>7, <1>8 DEF Load

\* Every step is somebody's.
LEMMA SomebodyMoves ==
  ASSUME TypeOK, Next PROVE \E r \in Requests : Moves(r)
<1>1. ASSUME NEW l \in Loaders, Load(l) PROVE Moves(l) /\ l \in Requests
  BY <1>1, LoadMoves DEF Requests
<1>2. ASSUME NEW z \in Resetters, Reset(z) PROVE Moves(z) /\ z \in Requests
  BY <1>2, ResetMoves DEF Requests
<1>3. ASSUME NEW a \in Advisors, \E type \in Advice : RecordAdvice(a, type)
      PROVE  Moves(a) /\ a \in Requests
  BY <1>3, UserMoves DEF Requests
<1>4. ASSUME NEW t \in Traders, TradeIntent(t) \/ ActOnPosition(t)
      PROVE  Moves(t) /\ t \in Requests
  BY <1>4, UserMoves DEF Requests
<1>5. ASSUME NEW r \in Requests, CutOff(r) PROVE Moves(r)
  BY <1>5, UserMoves
<1> QED
  BY <1>1, <1>2, <1>3, <1>4, <1>5 DEF Next

\* Only a load moves a load, apart from a failure.
LEMMA WhoMovesLoads ==
  ASSUME TypeOK, Next, NEW l \in Loaders,
         ~Load(l), ~CutOff(l)
  PROVE  pc'[l] = pc[l] /\ mem'[l] = mem[l] /\ \A i \in intents' \ intents : Owner(i) # l
<1>1. \E r \in Requests \ {l} : Moves(r)
  <2>1. ASSUME NEW k \in Loaders, Load(k) PROVE Moves(k) /\ k \in Requests /\ k # l
    BY <2>1, LoadMoves DEF Requests
  <2>2. ASSUME NEW z \in Resetters, Reset(z) PROVE Moves(z) /\ z \in Requests /\ z # l
    BY <2>2, ResetMoves, Apart DEF Requests
  <2>3. ASSUME NEW a \in Advisors, \E type \in Advice : RecordAdvice(a, type)
        PROVE  Moves(a) /\ a \in Requests /\ a # l
    BY <2>3, UserMoves, Apart DEF Requests
  <2>4. ASSUME NEW t \in Traders, TradeIntent(t) \/ ActOnPosition(t)
        PROVE  Moves(t) /\ t \in Requests /\ t # l
    BY <2>4, UserMoves, Apart DEF Requests
  <2>5. ASSUME NEW r \in Requests, CutOff(r) PROVE Moves(r) /\ r # l
    BY <2>5, UserMoves
  <2> QED
    BY <2>1, <2>2, <2>3, <2>4, <2>5 DEF Next
<1> QED
  BY <1>1 DEF Moves, Adds, Requests

\* A load that has ended has nothing in memory.
LEMMA Forgotten == NoMemory.made = {} /\ NoMemory.held = {} /\ NoMemory.events = {}
BY DEF NoMemory

\* Every load keeps its memory of its rows.
LEMMA MemoryPreserved ==
  ASSUME DemoInv, Next PROVE RowsRemembered' /\ MemoryOwn'
<1> SUFFICES ASSUME NEW l \in Loaders
             PROVE  /\ \A i \in intents' :
                         Owner(i) = l =>
                           pc'[l] \notin Before /\ (pc'[l] \in Working => i \in mem'[l].made)
                    /\ \A i \in mem'[l].made \cup mem'[l].held : Owner(i) = l
                    /\ \A e \in mem'[l].events : Owner(e.subject) = l
  BY DEF RowsRemembered, MemoryOwn
<1>0. TypeOK
  BY DEF DemoInv
<1>1. CASE Load(l)
  BY <1>1, LoadRemembers
<1>2. CASE CutOff(l)
  <2>1. pc'[l] = "cut off" /\ mem'[l] = NoMemory
    BY <1>0, <1>2 DEF CutOff, Goto, TypeOK, Requests
  <2>2. mem'[l].made = {} /\ mem'[l].held = {} /\ mem'[l].events = {}
    BY <2>1, Forgotten
  <2>3. pc'[l] \notin Before \cup Working
    BY <2>1 DEF Before, Working
  <2> QED
    BY <2>2, <2>3
<1>3. CASE ~Load(l) /\ ~CutOff(l)
  <2>1. pc'[l] = pc[l] /\ mem'[l] = mem[l] /\ \A i \in intents' \ intents : Owner(i) # l
    BY <1>0, <1>3, WhoMovesLoads
  <2> QED
    BY <2>1 DEF DemoInv, RowsRemembered, MemoryOwn
<1> QED
  BY <1>1, <1>2, <1>3

\* A new marker names all the rows of its run.
LEMMA ManifestSound ==
  ASSUME DemoInv, NEW l \in Loaders, WriteMarker(l)
  PROVE  /\ \A m \in markers' \ markers : m.run = l /\ Sound(m)'
         /\ pc[l] = "finish" /\ markers \subseteq markers'
         /\ \A i \in intents : Owner(i) = l => \E m \in markers' : m.run = l /\ i \in m.intents
<1>1. /\ markers' = markers \cup {Manifest(l)} /\ pc[l] = "finish"
      /\ UNCHANGED intents /\ pc'[l] = "loaded"
  BY DEF WriteMarker, rows, Goto, DemoInv, TypeOK, Requests
<1>2. /\ \A i \in mem[l].made : Owner(i) = l
      /\ \A e \in mem[l].events : Owner(e.subject) = l
      /\ \A i \in intents : Owner(i) = l => i \in mem[l].made
  BY <1>1 DEF DemoInv, MemoryOwn, RowsRemembered, Working
<1>3. PICK made, events, advised, now :
        /\ Manifest(l) = [run |-> l, at |-> now, intents |-> made, events |-> events,
                          advice |-> advised]
        /\ made = mem[l].made /\ events = mem[l].events
  BY DEF Manifest
<1> DEFINE m == [run |-> l, at |-> now, intents |-> made, events |-> events, advice |-> advised]
<1>4. m.run = l /\ m.intents = made /\ m.events = events
  OBVIOUS
<1>5. Sound(m)'
  BY <1>1, <1>2, <1>3, <1>4 DEF Sound
<1> QED
  BY <1>1, <1>2, <1>3, <1>4, <1>5

\* Markers appear with WriteMarker alone, and are deleted with DeleteEvents alone.
LEMMA MarkersChange ==
  ASSUME TypeOK, Next
  PROVE  \/ UNCHANGED markers
         \/ \E l \in Loaders : WriteMarker(l)
         \/ \E z \in Resetters : DeleteEvents(z)
BY DEF Next, Load, CheckMarker, RecordAdvice, FetchAdvice, SubmitIntent, CloseStep, SkipClose,
   ListOpen, MarkStep, LoadThrows, CollectIntentEvents, CollectPositionEvents, Reset,
   FindMarker, DeleteRows, RecordReset, TradeIntent, ActOnPosition, CutOff, Evaluated,
   ClosePosition, MarkPosition, ledger

\* Every marker stays sound.
LEMMA MarkersPreserved ==
  ASSUME DemoInv, Next PROVE MarkersSound'
<1>0. TypeOK /\ MarkersSound /\ markers \subseteq Marker
  BY DEF DemoInv, TypeOK
<1>1. \A m \in markers : Sound(m)'
  <2>1. PICK r \in Requests : Moves(r)
    BY <1>0, SomebodyMoves
  <2> QED
    BY <1>0, <2>1, SoundKept DEF MarkersSound
<1>2. \A m \in markers' \ markers : Sound(m)'
  <2>1. ASSUME NEW l \in Loaders, WriteMarker(l) PROVE \A m \in markers' \ markers : Sound(m)'
    BY <2>1, ManifestSound
  <2>2. ASSUME NEW z \in Resetters, DeleteEvents(z) \/ UNCHANGED markers
        PROVE  markers' \subseteq markers
    BY <2>2 DEF DeleteEvents
  <2> QED
    BY <1>0, <2>1, <2>2, MarkersChange
<1> QED
  BY <1>1, <1>2 DEF MarkersSound

\* Resets are not loads.
LEMMA ResettersApart == \A z \in Resetters : z \in Requests /\ z \notin Loaders
BY DemoAssumption DEF Requests

\* Only a reset's own steps touch its target.
LEMMA TargetsPreserved ==
  ASSUME DemoInv, Next PROVE TargetsSound'
<1>0. /\ TypeOK /\ TargetsSound /\ MarkersSound /\ markers \subseteq Marker
      /\ target \in [Resetters -> Marker \cup {None}] /\ pc \in [Requests -> Stages]
  BY DEF DemoInv, TypeOK
<1>1. PICK r \in Requests : Moves(r)
  BY <1>0, SomebodyMoves
<1> SUFFICES ASSUME NEW z \in Resetters
             PROVE  /\ target'[z] # None => Sound(target[z])'
                    /\ pc'[z] \in {"delete rows", "delete events"} => target'[z] # None
                    /\ pc'[z] = "delete events" =>
                         \/ target'[z].intents \cap intents' = {}
                         \/ target'[z].run \in unreversed'
  BY DEF TargetsSound
<1>z. z \in Requests
  BY DEF Requests
<1>2. PICK m \in Marker \cup {None} : m = target[z]
  BY <1>0
<1>3. m # None => /\ Sound(m)' /\ \A i \in m.intents : Owner(i) = m.run
                  /\ \A i \in intents' \ intents : Owner(i) # m.run
  <2> SUFFICES ASSUME m # None PROVE /\ Sound(m)' /\ \A i \in m.intents : Owner(i) = m.run
                                     /\ \A i \in intents' \ intents : Owner(i) # m.run
    OBVIOUS
  <2>1. m \in Marker /\ Sound(m)
    BY <1>0, <1>2 DEF TargetsSound
  <2> QED
    BY <1>0, <1>1, <2>1, SoundKept DEF Sound
<1>4. CASE FindMarker(z)
  <2>1. PICK found \in Answers(Newest(markers)) :
          \/ found = {} /\ Goto(z, "not loaded") /\ UNCHANGED target
          \/ \E n \in found : target' = [target EXCEPT ![z] = n] /\ Goto(z, "delete rows")
    BY <1>4 DEF FindMarker
  <2>2. found \subseteq markers
    BY <2>1, SomeAnswer DEF Newest
  <2>3. CASE Goto(z, "not loaded") /\ UNCHANGED target
    <3>1. pc'[z] = "not loaded" /\ target'[z] = m
      BY <1>0, <1>z, <1>2, <2>3 DEF Goto
    <3> QED
      BY <1>3, <3>1
  <2>4. ASSUME NEW n \in found, target' = [target EXCEPT ![z] = n], Goto(z, "delete rows")
        PROVE  target'[z] = n /\ n # None /\ Sound(n)' /\ pc'[z] = "delete rows"
    <3>1. n \in Marker /\ n # None /\ Sound(n)
      BY <1>0, <2>2, DemoAssumption DEF MarkersSound
    <3>2. Sound(n)'
      BY <1>0, <1>1, <3>1, SoundKept
    <3> QED
      BY <1>0, <1>z, <2>4, <3>1, <3>2 DEF Goto
  <2>5. CASE \E n \in found : target' = [target EXCEPT ![z] = n] /\ Goto(z, "delete rows")
    <3>1. PICK n : target'[z] = n /\ n # None /\ Sound(n)' /\ pc'[z] = "delete rows"
      BY <2>4, <2>5
    <3> QED
      BY <3>1
  <2> QED
    BY <2>1, <2>3, <2>5
<1>5. CASE DeleteRows(z)
  <2>1. pc[z] = "delete rows" /\ pc'[z] = "delete events" /\ target'[z] = m /\ m # None
    BY <1>0, <1>z, <1>2, <1>5 DEF DeleteRows, Goto, TargetsSound
  <2>2. m.intents \cap intents' = {} \/ m.run \in unreversed'
    BY <1>2, <1>5 DEF DeleteRows, Doomed
  <2> QED
    BY <1>3, <2>1, <2>2
<1>6. CASE DeleteEvents(z) \/ RecordReset(z)
  <2>1. pc'[z] \in {"record", "reset"} /\ target'[z] = m
    BY <1>0, <1>z, <1>2, <1>6 DEF DeleteEvents, RecordReset, Goto
  <2> QED
    BY <1>3, <2>1
<1>7. CASE CutOff(z)
  <2>1. pc'[z] = "cut off" /\ target'[z] = None
    BY <1>0, <1>z, <1>7 DEF CutOff, Goto
  <2> QED
    BY <2>1
<1>8. CASE ~Reset(z) /\ ~CutOff(z)
  <2>1. pc'[z] = pc[z] /\ target'[z] = m /\ unreversed \subseteq unreversed'
    <3>1. \E q \in Requests \ {z} : Moves(q)
      <4>1. ASSUME NEW k \in Loaders, Load(k) PROVE Moves(k) /\ k \in Requests /\ k # z
        BY <1>0, <4>1, LoadMoves, ResettersApart DEF Requests
      <4>2. ASSUME NEW y \in Resetters, Reset(y) PROVE Moves(y) /\ y \in Requests /\ y # z
        BY <1>0, <1>8, <4>2, ResetMoves DEF Requests
      <4>3. ASSUME NEW a \in Advisors, \E type \in Advice : RecordAdvice(a, type)
            PROVE  Moves(a) /\ a \in Requests /\ a # z
        BY <1>0, <4>3, UserMoves, DemoAssumption DEF Requests
      <4>4. ASSUME NEW t \in Traders, TradeIntent(t) \/ ActOnPosition(t)
            PROVE  Moves(t) /\ t \in Requests /\ t # z
        BY <1>0, <4>4, UserMoves, DemoAssumption DEF Requests
      <4>5. ASSUME NEW q \in Requests, CutOff(q) PROVE Moves(q) /\ q # z
        BY <1>0, <1>8, <4>5, UserMoves
      <4> QED
        BY <4>1, <4>2, <4>3, <4>4, <4>5 DEF Next
    <3> QED
      BY <1>2, <1>z, <3>1 DEF Moves
  <2>2. pc[z] = "delete events" =>
          m # None /\ (m.intents \cap intents = {} \/ m.run \in unreversed)
    BY <1>0, <1>2 DEF TargetsSound
  <2>3. pc[z] \in {"delete rows", "delete events"} => m # None
    BY <1>0, <1>2 DEF TargetsSound
  <2>4. pc[z] = "delete events" => m.intents \cap intents' = {} \/ m.run \in unreversed'
    BY <1>3, <2>1, <2>2
  <2> QED
    BY <1>3, <2>1, <2>3, <2>4
<1> QED
  BY <1>4, <1>5, <1>6, <1>7, <1>8 DEF Reset

\* Failed resets are never forgotten.
LEMMA UnreversedGrows == ASSUME TypeOK, Next PROVE unreversed \subseteq unreversed'
BY SomebodyMoves DEF Moves

\* What a reset deletes is its run's, and all of its run's that is left.
LEMMA TargetOwned ==
  ASSUME DemoInv, NEW z \in Resetters, target[z] # None
  PROVE  /\ target[z].run \in Loaders
         /\ \A i \in target[z].intents : Owner(i) = target[z].run
         /\ \A e \in target[z].events : Owner(e.subject) = target[z].run
         /\ \A i \in intents : Owner(i) = target[z].run => i \in target[z].intents
<1>1. target[z] \in Marker
  BY DEF DemoInv, TypeOK
<1> QED
  BY <1>1 DEF DemoInv, TargetsSound, Sound, Marker

\* Once the events go, the run has no rows, or its rows could not be deleted.
LEMMA NothingLeftOfRun ==
  ASSUME DemoInv, NEW z \in Resetters, DeleteEvents(z)
  PROVE  /\ target[z] # None /\ target[z].run \in Loaders
         /\ \A i \in intents : Owner(i) # target[z].run \/ target[z].run \in unreversed
<1>1. target[z] # None /\
        (target[z].intents \cap intents = {} \/ target[z].run \in unreversed)
  BY DEF DeleteEvents, DemoInv, TargetsSound
<1> QED
  BY <1>1, TargetOwned

\* A load has loaded once it has written its marker, and not before.
LEMMA LoadedByMarker ==
  ASSUME TypeOK, Next, NEW l \in Loaders, pc[l] # "loaded", ~WriteMarker(l)
  PROVE  pc'[l] # "loaded"
<1>1. CASE Load(l)
  BY <1>1 DEF Load, CheckMarker, RecordAdvice, FetchAdvice, SubmitIntent, CloseStep, SkipClose,
     ListOpen, MarkStep, LoadThrows, CollectIntentEvents, CollectPositionEvents, Goto, TypeOK,
     Requests
<1>2. CASE CutOff(l)
  BY <1>2 DEF CutOff, Goto, TypeOK
<1>3. CASE ~Load(l) /\ ~CutOff(l)
  BY <1>3, WhoMovesLoads
<1> QED
  BY <1>1, <1>2, <1>3

\* A marker goes only when nothing is left for it to name, or a reset failed.
LEMMA NamesPreserved ==
  ASSUME DemoInv, Next PROVE NamedOrCutOff'
<1>0. TypeOK /\ NamedOrCutOff /\ unreversed \subseteq unreversed' /\ TypeOK'
  BY UnreversedGrows, TypePreserved DEF DemoInv
<1> SUFFICES ASSUME NEW i \in intents', i \notin Real
             PROVE  \/ \E m \in markers' : m.run = Owner(i) /\ i \in m.intents
                    \/ pc'[Owner(i)] # "loaded"
                    \/ Owner(i) \in unreversed'
  BY DEF NamedOrCutOff
<1> DEFINE l == Owner(i)
<1>1. l \in Loaders /\ l \in Requests
  BY <1>0, Apart DEF TypeOK, Requests
<1> HIDE DEF l
<1>2. CASE i \notin intents
  <2>1. PICK r \in Requests : Moves(r)
    BY <1>0, SomebodyMoves
  <2>2. pc[l] # "loaded"
    BY <1>2, <2>1 DEF Moves, Adds, l
  <2>3. ~\E k \in Loaders : WriteMarker(k)
    BY <1>2 DEF WriteMarker, rows
  <2>4. pc'[l] # "loaded"
    BY <1>0, <1>1, <2>2, <2>3, LoadedByMarker
  <2> QED
    BY <2>4 DEF l
<1>3. CASE i \in intents
  <2>1. CASE pc[l] # "loaded"
    <3>1. CASE \E k \in Loaders : WriteMarker(k) /\ k = l
      BY <1>1, <1>3, <3>1, ManifestSound DEF l
    <3>2. CASE ~WriteMarker(l)
      <4>1. pc'[l] # "loaded"
        BY <1>0, <1>1, <2>1, <3>2, LoadedByMarker
      <4> QED
        BY <4>1 DEF l
    <3> QED
      BY <1>1, <3>1, <3>2
  <2>2. CASE l \in unreversed
    BY <1>0, <2>2 DEF l
  <2>3. CASE \E m \in markers : m.run = l /\ i \in m.intents
    <3>1. CASE markers \subseteq markers'
      BY <2>3, <3>1 DEF l
    <3>2. ASSUME NEW z \in Resetters, DeleteEvents(z)
          PROVE  \/ \E m \in markers' : m.run = l /\ i \in m.intents
                 \/ l \in unreversed
      <4>1. CASE target[z].run = l
        BY <1>3, <3>2, <4>1, NothingLeftOfRun DEF l
      <4>2. CASE target[z].run # l
        BY <2>3, <3>2, <4>2 DEF DeleteEvents
      <4> QED
        BY <4>1, <4>2
    <3>3. ASSUME NEW k \in Loaders, WriteMarker(k) PROVE markers \subseteq markers'
      BY <3>3 DEF WriteMarker
    <3>4. CASE \E z \in Resetters : DeleteEvents(z)
      BY <1>0, <3>2, <3>4 DEF l
    <3> QED
      BY <1>0, <3>1, <3>3, <3>4, MarkersChange
  <2> QED
    BY <1>3, <2>1, <2>2, <2>3 DEF DemoInv, NamedOrCutOff, l
<1> QED
  BY <1>2, <1>3

\* Events are deleted with DeleteEvents alone.
LEMMA TrailGrows ==
  ASSUME TypeOK, Next PROVE trail \subseteq trail' \/ \E z \in Resetters : DeleteEvents(z)
<1>1. ASSUME NEW l \in Loaders, Load(l) PROVE trail \subseteq trail'
  BY <1>1, LoadAdds
<1>2. ASSUME NEW t \in Traders, ActOnPosition(t) \/ TradeIntent(t) PROVE trail \subseteq trail'
  BY <1>2 DEF ActOnPosition, TradeIntent, Evaluated, ClosePosition, MarkPosition
<1> QED
  BY <1>1, <1>2 DEF Next, Reset, FindMarker, DeleteRows, RecordReset, RecordAdvice, CutOff, ledger

\* A row's evidence goes only after the row, or after a failure to delete it.
LEMMA EvidencePreserved ==
  ASSUME DemoInv, Next PROVE RowsHaveEvidence'
<1>0. TypeOK /\ RowsHaveEvidence /\ unreversed \subseteq unreversed'
  BY UnreversedGrows DEF DemoInv
<1> SUFFICES ASSUME NEW i \in intents'
             PROVE  \/ \E e \in trail' : e.kind = "decided" /\ e.subject = i
                    \/ Owner(i) \in unreversed'
  BY DEF RowsHaveEvidence
<1>1. CASE i \notin intents
  BY <1>0, <1>1, SomebodyMoves DEF Moves, Adds
<1>2. CASE i \in intents /\ trail \subseteq trail'
  BY <1>0, <1>2 DEF RowsHaveEvidence
<1>3. ASSUME i \in intents, NEW z \in Resetters, DeleteEvents(z)
      PROVE  \/ \E e \in trail' : e.kind = "decided" /\ e.subject = i
             \/ Owner(i) \in unreversed'
  <2>1. /\ target[z] # None
        /\ Owner(i) # target[z].run \/ target[z].run \in unreversed
    BY <1>3, NothingLeftOfRun
  <2>2. \A e \in target[z].events : Owner(e.subject) = target[z].run
    BY <2>1, TargetOwned
  <2>3. trail \ target[z].events \subseteq trail'
    BY <1>3 DEF DeleteEvents
  <2>4. CASE Owner(i) = target[z].run
    BY <1>0, <2>1, <2>4
  <2>5. CASE Owner(i) # target[z].run
    <3>1. \A e \in trail : e.subject = i => e \in trail'
      BY <2>2, <2>3, <2>5
    <3> QED
      BY <1>0, <1>3, <3>1 DEF RowsHaveEvidence
  <2> QED
    BY <2>4, <2>5
<1> QED
  BY <1>0, <1>1, <1>2, <1>3, TrailGrows

\* The invariant is inductive.
THEOREM DemoInvariant == Spec => []DemoInv
<1>1. Init => DemoInv
  <2> SUFFICES ASSUME Init PROVE DemoInv
    OBVIOUS
  <2>1. TypeOK
    <3>1. NoMemory \in Memory
      BY DEF Memory, NoMemory
    <3>2. pc \in [Requests -> Stages]
      BY DEF Init, Stages, Ends, Advice
    <3> QED
      BY <3>1, <3>2 DEF Init, TypeOK
  <2>2. MemoryOwn
    BY Forgotten DEF Init, MemoryOwn
  <2>3. TargetsSound
    <3>1. \A z \in Resetters : target[z] = None /\ pc[z] = "idle"
      BY ResettersApart, DemoAssumption DEF Init
    <3> QED
      BY <3>1 DEF TargetsSound
  <2>4. RowsRemembered /\ MarkersSound /\ NamedOrCutOff /\ RowsHaveEvidence
    BY DEF Init, RowsRemembered, MarkersSound, NamedOrCutOff, RowsHaveEvidence
  <2> QED
    BY <2>1, <2>2, <2>3, <2>4 DEF DemoInv
<1>2. DemoInv /\ [Next]_vars => DemoInv'
  <2>1. ASSUME DemoInv, Next PROVE DemoInv'
    <3>1. TypeOK'
      BY <2>1, TypePreserved DEF DemoInv
    <3> QED
      BY <2>1, <3>1, MemoryPreserved, MarkersPreserved, TargetsPreserved, NamesPreserved,
         EvidencePreserved DEF DemoInv
  <2>2. ASSUME DemoInv, UNCHANGED vars PROVE DemoInv'
    BY <2>2 DEF DemoInv, TypeOK, RowsRemembered, MemoryOwn, MarkersSound, TargetsSound, Sound,
       NamedOrCutOff, RowsHaveEvidence, vars, rows, ledger
  <2> QED
    BY <2>1, <2>2
<1> QED
  BY <1>1, <1>2, PTL DEF Spec

\* The shapes hold of every reachable state.
THEOREM DemoTypes == Spec => []TypeOK
BY DemoInvariant, PTL DEF DemoInv

\* The row of a finished load is named by its marker, or a reset failed on it:
\* no interleaving of loads, resets, failures and users hides a demo row from
\* the reset.
THEOREM RowsAreNamed == Spec => []NamedOrCutOff
BY DemoInvariant, PTL DEF DemoInv

\* Every row that is left has the audit event of its verdict, or a reset failed
\* to delete it.
THEOREM EvidenceKept == Spec => []RowsHaveEvidence
BY DemoInvariant, PTL DEF DemoInv

\* No request of the demo takes a user's row, position or audit event away.
THEOREM RealRowsAreKept == Spec => RealRowsKept
<1> DEFINE A == (\E l \in Loaders : Load(l)) \/ (\E z \in Resetters : Reset(z)) =>
                  /\ intents \cap Real \subseteq intents'
                  /\ open \cap Real \subseteq open' /\ closed \cap Real \subseteq closed'
                  /\ {e \in trail : e.subject \in Real} \subseteq trail'
<1>1. DemoInv /\ [Next]_vars => [A]_vars
  <2> SUFFICES ASSUME DemoInv PROVE A
    OBVIOUS
  <2>1. ASSUME NEW l \in Loaders, Load(l) PROVE A
    <3>1. intents \subseteq intents' /\ trail \subseteq trail'
      BY <2>1, LoadAdds DEF DemoInv
    <3>2. open \cap Real \subseteq open' /\ closed \cap Real \subseteq closed'
      <4>1. CASE CloseStep(l)
        BY <4>1, PlannedStep, Apart DEF CloseStep, ClosePosition, DemoInv
      <4>2. CASE SubmitIntent(l)
        BY <4>2 DEF SubmitIntent, Evaluated
      <4>3. CASE UNCHANGED <<open, closed>>
        BY <4>3
      <4> QED
        BY <2>1, <4>1, <4>2, <4>3 DEF Load, CheckMarker, RecordAdvice, FetchAdvice, SkipClose,
           ListOpen, MarkStep, MarkPosition, LoadThrows, CollectIntentEvents,
           CollectPositionEvents, WriteMarker, rows
    <3> QED
      BY <3>1, <3>2
  <2>2. ASSUME NEW z \in Resetters, Reset(z) PROVE A
    <3>1. CASE DeleteRows(z)
      <4>1. \A i \in Doomed(z) : i \notin Real \/ i \notin Ids
        BY <3>1, TargetOwned, Apart DEF DeleteRows, Doomed, DemoInv, TargetsSound
      <4> QED
        BY <3>1, <4>1 DEF DeleteRows, ledger, rows, Real
    <3>2. CASE DeleteEvents(z)
      <4>1. \A e \in target[z].events : Owner(e.subject) \in Loaders
        BY <3>2, NothingLeftOfRun, TargetOwned
      <4>2. \A e \in target[z].events : e.subject \notin Real
        BY <4>1, Apart DEF Real
      <4> QED
        BY <3>2, <4>2 DEF DeleteEvents, rows
    <3>3. CASE FindMarker(z) \/ RecordReset(z)
      BY <3>3 DEF FindMarker, RecordReset, rows, ledger
    <3> QED
      BY <2>2, <3>1, <3>2, <3>3 DEF Reset
  <2> QED
    BY <2>1, <2>2
<1> QED
  BY <1>1, DemoInvariant, PTL DEF Spec, RealRowsKept

(***************************************************************************)
(* What a reset leaves in the trail. A manifest names events by two        *)
(* queries over the rows a load remembers, so the argument follows the     *)
(* events as the one above follows the rows: into the memory of the load,  *)
(* from there into the marker, and out of the ledger with it. Two resets   *)
(* may work on one marker; the second finds the events gone.               *)
(***************************************************************************)

\* What a load wrote about its own rows.
OwnEvents(l) == {e \in trail : e.by = l /\ Owner(e.subject) = l}

\* A load that is going on has the subjects of its events in memory, where the
\* two queries of the manifest look for them, and then the events.
EventsRemembered ==
  \A l \in Loaders :
    /\ pc[l] \in Before => OwnEvents(l) = {}
    /\ pc[l] \in Working =>
         /\ \A i \in open : Owner(i) = l => i \in mem[l].held
         /\ \A e \in OwnEvents(l) :
              e.subject \in IF e.kind = "decided" THEN mem[l].made ELSE mem[l].held
    /\ pc[l] = "collect" => {e \in OwnEvents(l) : e.kind = "decided"} \subseteq mem[l].events
    /\ pc[l] = "finish" => OwnEvents(l) \subseteq mem[l].events

\* A marker names all that is left of what its run wrote about its own rows.
Complete(m) == OwnEvents(m.run) \subseteq m.events
MarkersComplete == \A m \in markers : Complete(m)

\* So does the marker a reset works on, which is there still unless another
\* reset deleted the events and the marker together.
TargetsComplete ==
  \A z \in Resetters : target[z] # None =>
    /\ Complete(target[z])
    /\ target[z] \in markers \/ OwnEvents(target[z].run) = {}

\* An ignored error may cost a manifest some of its events.
TrailInv ==
  ~Faults => EventsRemembered /\ MarkersComplete /\ TargetsComplete /\ NothingLeftBehind

\* Who writes an event signs it, and the row it is about is there.
LEMMA CallWrites ==
  ASSUME TypeOK, NEW i, NEW r,
         \/ \E approved \in BOOLEAN : Evaluated(i, r, approved)
         \/ ClosePosition(i, r) \/ MarkPosition(i, r)
  PROVE  /\ \A e \in trail' \ trail : e.by = r /\ e.subject = i
         /\ i \in intents' /\ intents \subseteq intents'
         /\ open' \subseteq open \cup {i}
<1>1. open \subseteq intents
  BY DEF TypeOK
<1>2. ASSUME NEW approved \in BOOLEAN, Evaluated(i, r, approved)
      PROVE  /\ \A e \in trail' \ trail : e.by = r /\ e.subject = i
             /\ i \in intents' /\ intents \subseteq intents' /\ open' \subseteq open \cup {i}
  BY <1>2 DEF Evaluated
<1>3. CASE ClosePosition(i, r)
  BY <1>1, <1>3 DEF ClosePosition
<1>4. CASE MarkPosition(i, r)
  BY <1>1, <1>4 DEF MarkPosition, rows
<1> QED
  BY <1>2, <1>3, <1>4

\* A load signs what it writes.
LEMMA LoadWrites ==
  ASSUME TypeOK, NEW l \in Loaders, Load(l)
  PROVE  /\ \A e \in trail' \ trail : e.by = l /\ e.subject \in intents'
         /\ \A i \in open' \ open : Owner(i) = l
<1>1. CASE SubmitIntent(l)
  <2>1. Owner(Subject(l)) = l
    BY <1>1, PlannedStep DEF SubmitIntent
  <2>2. \E approved \in BOOLEAN : Evaluated(Subject(l), l, approved)
    BY <1>1 DEF SubmitIntent
  <2> QED
    BY <2>1, <2>2, CallWrites
<1>2. CASE CloseStep(l)
  <2>1. ClosePosition(Subject(l), l)
    BY <1>2 DEF CloseStep
  <2>2. open' \subseteq open
    BY <2>1 DEF ClosePosition
  <2> QED
    BY <2>1, <2>2, CallWrites
<1>3. CASE MarkStep(l)
  <2>1. PICK i : MarkPosition(i, l)
    BY <1>3 DEF MarkStep
  <2>2. open' = open
    BY <2>1 DEF MarkPosition, rows
  <2> QED
    BY <2>1, <2>2, CallWrites
<1>4. CASE UNCHANGED <<open, trail>>
  BY <1>4
<1> QED
  BY <1>1, <1>2, <1>3, <1>4 DEF Load, CheckMarker, RecordAdvice, FetchAdvice, SkipClose,
     ListOpen, LoadThrows, CollectIntentEvents, CollectPositionEvents, WriteMarker, rows, ledger

\* A user signs as himself.
LEMMA UserWrites ==
  ASSUME TypeOK, NEW t \in Traders, TradeIntent(t) \/ ActOnPosition(t)
  PROVE  /\ \A e \in trail' \ trail : e.by = t /\ e.subject \in intents'
         /\ \A i \in open' \ open : Owner(i) = t
<1>1. CASE TradeIntent(t)
  <2>1. PICK i : i = <<t, 0>>
    OBVIOUS
  <2>2. Owner(i) = t /\ \E approved \in BOOLEAN : Evaluated(i, t, approved)
    BY <1>1, <2>1, Apart DEF TradeIntent
  <2> QED
    BY <2>2, CallWrites
<1>2. CASE ActOnPosition(t)
  <2>1. PICK i : ClosePosition(i, t) \/ MarkPosition(i, t)
    BY <1>2 DEF ActOnPosition
  <2>2. open' \subseteq open
    BY <2>1 DEF ClosePosition, MarkPosition, rows
  <2> QED
    BY <2>1, <2>2, CallWrites
<1> QED
  BY <1>1, <1>2

\* A reset, a confirmation and a failure write no event about a row and open
\* no position.
LEMMA OthersWriteNothing ==
  ASSUME Next, \A l \in Loaders : ~Load(l),
         \A t \in Traders : ~TradeIntent(t) /\ ~ActOnPosition(t)
  PROVE  trail' \subseteq trail /\ open' \subseteq open
BY DEF Next, Reset, FindMarker, DeleteRows, DeleteEvents, RecordReset, RecordAdvice, CutOff,
   rows, ledger

\* New events are about rows that are there.
LEMMA NewEventsAboutRows ==
  ASSUME TypeOK, Next PROVE \A e \in trail' \ trail : e.subject \in intents'
BY LoadWrites, UserWrites, OthersWriteNothing

\* Nobody but a load adds to its events or its open positions.
LEMMA OwnWritesOnly ==
  ASSUME TypeOK, Next, NEW l \in Loaders, ~Load(l)
  PROVE  /\ OwnEvents(l)' \subseteq OwnEvents(l)
         /\ \A i \in open' : Owner(i) = l => i \in open
<1>1. \A e \in trail' \ trail : e.by # l
  <2>1. \A k \in Loaders : Load(k) => k # l
    OBVIOUS
  <2>2. \A t \in Traders : t # l
    BY Apart
  <2> QED
    BY <2>1, <2>2, LoadWrites, UserWrites, OthersWriteNothing
<1>2. \A i \in open' \ open : Owner(i) # l
  <2>1. \A k \in Loaders : Load(k) => k # l
    OBVIOUS
  <2>2. \A t \in Traders : t # l
    BY Apart
  <2> QED
    BY <2>1, <2>2, LoadWrites, UserWrites, OthersWriteNothing
<1> QED
  BY <1>1, <1>2 DEF OwnEvents

\* A load's own step keeps its events in reach of its manifest.
LEMMA LoadRecords ==
  ASSUME DemoInv, EventsRemembered, ~Faults, NEW l \in Loaders, Load(l)
  PROVE  /\ pc'[l] \in Before => OwnEvents(l)' = {}
         /\ pc'[l] \in Working =>
              /\ \A i \in open' : Owner(i) = l => i \in mem'[l].held
              /\ \A e \in OwnEvents(l)' :
                   e.subject \in IF e.kind = "decided" THEN mem'[l].made ELSE mem'[l].held
         /\ pc'[l] = "collect" =>
              {e \in OwnEvents(l)' : e.kind = "decided"} \subseteq mem'[l].events
         /\ pc'[l] = "finish" => OwnEvents(l)' \subseteq mem'[l].events
<1>0. /\ TypeOK /\ mem[l] \in Memory /\ l \in Requests
      /\ mem \in [Loaders -> Memory] /\ pc \in [Requests -> Stages]
      /\ open \subseteq intents
      /\ \A i \in intents : Owner(i) = l => pc[l] \notin Before
      /\ pc[l] \in Before => OwnEvents(l) = {}
      /\ pc[l] \in Working =>
           /\ \A i \in open : Owner(i) = l => i \in mem[l].held
           /\ \A e \in OwnEvents(l) :
                e.subject \in IF e.kind = "decided" THEN mem[l].made ELSE mem[l].held
      /\ pc[l] = "collect" => {e \in OwnEvents(l) : e.kind = "decided"} \subseteq mem[l].events
  BY DEF DemoInv, TypeOK, RowsRemembered, EventsRemembered, Requests
<1> USE DEF Before, Working, Goto
<1>1. CASE \/ CheckMarker(l) \/ (\E type \in Advice : RecordAdvice(l, type) \/ FetchAdvice(l, type))
  <2>1. pc[l] \in Before /\ UNCHANGED <<open, trail>>
    BY <1>1 DEF CheckMarker, RecordAdvice, FetchAdvice, FetchStage, Advice, rows, ledger
  <2>2. OwnEvents(l)' = {} /\ \A i \in open' : Owner(i) # l
    BY <1>0, <2>1 DEF OwnEvents
  <2> QED
    BY <2>2
<1>2. CASE SubmitIntent(l)
  <2> DEFINE i == Subject(l)
  <2>1. pc[l] = "plan" /\ pc'[l] = "plan" /\ Owner(i) = l
    BY <1>0, <1>2, PlannedStep DEF SubmitIntent
  <2>2. PICK approved \in BOOLEAN :
          /\ Evaluated(i, l, approved)
          /\ mem' = [mem EXCEPT ![l].next = @ + 1,
                                ![l].made = @ \cup {i},
                                ![l].held = IF approved THEN @ \cup {i} ELSE @]
    BY <1>2 DEF SubmitIntent
  <2> HIDE DEF i
  <2>3. /\ mem'[l].made = mem[l].made \cup {i}
        /\ mem'[l].held = IF approved THEN mem[l].held \cup {i} ELSE mem[l].held
    BY <1>0, <2>2 DEF Memory
  <2>4. \A j \in open' : Owner(j) = l => j \in mem'[l].held
    BY <1>0, <2>1, <2>2, <2>3 DEF Evaluated
  <2>5. ASSUME NEW e \in OwnEvents(l)'
        PROVE  e.subject \in IF e.kind = "decided" THEN mem'[l].made ELSE mem'[l].held
    <3>1. CASE e \in trail
      <4>1. e \in OwnEvents(l)
        BY <2>5, <3>1 DEF OwnEvents
      <4> QED
        BY <1>0, <2>1, <2>3, <4>1
    <3>2. CASE e \notin trail
      <4>1. e \in trail'
        BY <2>5 DEF OwnEvents
      <4>2. e.subject = i /\ (e.kind = "decided" \/ approved)
        BY <2>2, <3>2, <4>1 DEF Evaluated
      <4> QED
        BY <2>3, <4>2
    <3> QED
      BY <3>1, <3>2
  <2> QED
    BY <2>1, <2>4, <2>5
<1>3. CASE SkipClose(l) \/ ListOpen(l)
  <2>1. UNCHANGED <<open, trail>> /\ pc[l] \in Working /\ pc'[l] \in {"plan", "mark"}
    BY <1>0, <1>3 DEF SkipClose, ListOpen, Acting, rows, ledger
  <2>2. (\E n : mem' = [mem EXCEPT ![l].next = n]) \/ (\E S : mem' = [mem EXCEPT ![l].toMark = S])
    BY <1>3 DEF SkipClose, ListOpen
  <2>3. mem'[l].made = mem[l].made /\ mem'[l].held = mem[l].held
    BY <1>0, <2>2 DEF Memory
  <2>4. OwnEvents(l)' = OwnEvents(l)
    BY <2>1 DEF OwnEvents
  <2> QED
    BY <1>0, <2>1, <2>3, <2>4
<1>4. CASE CloseStep(l) \/ MarkStep(l)
  <2>1. PICK i \in open : ClosePosition(i, l) \/ MarkPosition(i, l)
    BY <1>4 DEF CloseStep, MarkStep, ClosePosition, MarkPosition
  <2>2. /\ open' \subseteq open
        /\ \A e \in trail' \ trail : e.subject = i /\ e.kind # "decided"
    BY <2>1 DEF ClosePosition, MarkPosition, rows
  <2>3. (\E n : mem' = [mem EXCEPT ![l].next = n]) \/ (\E S : mem' = [mem EXCEPT ![l].toMark = S])
    BY <1>4 DEF CloseStep, MarkStep
  <2>4. mem'[l].made = mem[l].made /\ mem'[l].held = mem[l].held
    BY <1>0, <2>3 DEF Memory
  <2>5. pc[l] \in Working /\ pc'[l] = pc[l] /\ pc[l] \in {"plan", "mark"}
    BY <1>4 DEF CloseStep, MarkStep, Acting
  <2>6. ASSUME NEW e \in OwnEvents(l)'
        PROVE  e.subject \in IF e.kind = "decided" THEN mem'[l].made ELSE mem'[l].held
    <3>1. CASE e \in trail
      <4>1. e \in OwnEvents(l)
        BY <2>6, <3>1 DEF OwnEvents
      <4> QED
        BY <1>0, <2>4, <2>5, <4>1
    <3>2. CASE e \notin trail
      <4>1. e \in trail' /\ Owner(e.subject) = l
        BY <2>6 DEF OwnEvents
      <4>2. e.subject = i /\ e.kind # "decided"
        BY <2>2, <3>2, <4>1
      <4> QED
        BY <1>0, <2>1, <2>4, <2>5, <4>1, <4>2
    <3> QED
      BY <3>1, <3>2
  <2> QED
    BY <1>0, <2>2, <2>4, <2>5, <2>6
<1>5. CASE LoadThrows(l) \/ WriteMarker(l)
  <2>1. pc'[l] \in {"cut off", "loaded"}
    BY <1>0, <1>5 DEF LoadThrows, WriteMarker
  <2> QED
    BY <2>1
<1>6. CASE CollectIntentEvents(l)
  <2>1. mem' = [mem EXCEPT ![l].events = {e \in About(mem[l].made) : e.kind = "decided"}]
    BY <1>6 DEF CollectIntentEvents, Answers
  <2>2. /\ mem'[l].made = mem[l].made /\ mem'[l].held = mem[l].held
        /\ mem'[l].events = {e \in About(mem[l].made) : e.kind = "decided"}
    BY <1>0, <2>1 DEF Memory
  <2>3. pc[l] \in Working /\ pc'[l] = "collect" /\ UNCHANGED <<open, trail>>
    BY <1>0, <1>6 DEF CollectIntentEvents, MarkingDone, rows, ledger
  <2>4. OwnEvents(l)' = OwnEvents(l) /\ OwnEvents(l) \subseteq trail
    BY <2>3 DEF OwnEvents
  <2>5. {e \in OwnEvents(l) : e.kind = "decided"} \subseteq mem'[l].events
    BY <1>0, <2>2, <2>3, <2>4 DEF About
  <2> QED
    BY <1>0, <2>2, <2>3, <2>4, <2>5
<1>7. CASE CollectPositionEvents(l)
  <2>1. mem' = [mem EXCEPT ![l].events = @ \cup {e \in About(mem[l].held) : e.kind # "decided"}]
    BY <1>7 DEF CollectPositionEvents, Answers
  <2>2. /\ mem'[l].made = mem[l].made /\ mem'[l].held = mem[l].held
        /\ mem'[l].events =
             mem[l].events \cup {e \in About(mem[l].held) : e.kind # "decided"}
    BY <1>0, <2>1 DEF Memory
  <2>3. pc[l] = "collect" /\ pc'[l] = "finish" /\ UNCHANGED <<open, trail>>
    BY <1>0, <1>7 DEF CollectPositionEvents, rows, ledger
  <2>4. OwnEvents(l)' = OwnEvents(l) /\ OwnEvents(l) \subseteq trail
    BY <2>3 DEF OwnEvents
  <2>5. OwnEvents(l) \subseteq mem'[l].events
    <3> SUFFICES ASSUME NEW e \in OwnEvents(l) PROVE e \in mem'[l].events
      OBVIOUS
    <3>1. CASE e.kind = "decided"
      BY <1>0, <2>2, <2>3, <3>1
    <3>2. CASE e.kind # "decided"
      BY <1>0, <2>2, <2>3, <2>4, <3>2 DEF About
    <3> QED
      BY <3>1, <3>2
  <2> QED
    BY <1>0, <2>2, <2>3, <2>4, <2>5
<1> QED
  BY <1>1, <1>2, <1>3, <1>4, <1>5, <1>6, <1>7 DEF Load

\* So does everybody else's.
LEMMA EventsPreserved ==
  ASSUME DemoInv, EventsRemembered, ~Faults, Next PROVE EventsRemembered'
<1> SUFFICES ASSUME NEW l \in Loaders
      PROVE  /\ pc'[l] \in Before => OwnEvents(l)' = {}
             /\ pc'[l] \in Working =>
                  /\ \A i \in open' : Owner(i) = l => i \in mem'[l].held
                  /\ \A e \in OwnEvents(l)' :
                       e.subject \in IF e.kind = "decided" THEN mem'[l].made ELSE mem'[l].held
             /\ pc'[l] = "collect" =>
                  {e \in OwnEvents(l)' : e.kind = "decided"} \subseteq mem'[l].events
             /\ pc'[l] = "finish" => OwnEvents(l)' \subseteq mem'[l].events
  BY DEF EventsRemembered
<1>0. TypeOK
  BY DEF DemoInv
<1>1. CASE Load(l)
  BY <1>1, LoadRecords
<1>2. CASE CutOff(l)
  <2>1. pc'[l] = "cut off"
    BY <1>0, <1>2 DEF CutOff, Goto, TypeOK, Requests
  <2> QED
    BY <2>1 DEF Before, Working
<1>3. CASE ~Load(l) /\ ~CutOff(l)
  <2>1. pc'[l] = pc[l] /\ mem'[l] = mem[l]
    BY <1>0, <1>3, WhoMovesLoads
  <2>2. /\ OwnEvents(l)' \subseteq OwnEvents(l)
        /\ \A i \in open' : Owner(i) = l => i \in open
    BY <1>0, <1>3, OwnWritesOnly
  <2> QED
    BY <2>1, <2>2 DEF EventsRemembered
<1> QED
  BY <1>1, <1>2, <1>3

\* A finished run writes nothing more.
LEMMA FinishedWriteNothing ==
  ASSUME TypeOK, Next, NEW l \in Loaders, pc[l] = "loaded"
  PROVE  OwnEvents(l)' \subseteq OwnEvents(l)
<1>1. ~Load(l)
  BY LoadMoves DEF Moves
<1> QED
  BY <1>1, OwnWritesOnly

\* What is complete stays so.
LEMMA CompleteKept ==
  ASSUME TypeOK, Next, NEW m \in Marker, Sound(m), Complete(m)
  PROVE  OwnEvents(m.run)' \subseteq OwnEvents(m.run) /\ Complete(m)'
<1>1. OwnEvents(m.run)' \subseteq OwnEvents(m.run)
  BY FinishedWriteNothing DEF Sound, Marker
<1> QED
  BY <1>1 DEF Complete, OwnEvents

\* A manifest names what its load wrote.
LEMMA ManifestComplete ==
  ASSUME DemoInv, EventsRemembered, NEW l \in Loaders, WriteMarker(l),
         NEW m \in markers' \ markers
  PROVE  Complete(m)'
<1>1. pc[l] = "finish" /\ trail' = trail /\ m = Manifest(l)
  BY DEF WriteMarker
<1>2. OwnEvents(l) \subseteq mem[l].events
  BY <1>1 DEF EventsRemembered
<1>3. m.run = l /\ m.events = mem[l].events
  BY <1>1 DEF Manifest
<1> QED
  BY <1>1, <1>2, <1>3 DEF Complete, OwnEvents

\* Every marker names all that is left of what its run wrote.
LEMMA CompletePreserved ==
  ASSUME DemoInv, EventsRemembered, MarkersComplete, Next PROVE MarkersComplete'
<1>0. TypeOK /\ MarkersSound /\ markers \subseteq Marker
  BY DEF DemoInv, TypeOK
<1>1. ASSUME NEW m \in markers' PROVE Complete(m)'
  <2>1. CASE m \in markers
    BY <1>0, <2>1, CompleteKept DEF MarkersSound, MarkersComplete
  <2>2. CASE m \notin markers
    <3>1. PICK l \in Loaders : WriteMarker(l)
      BY <1>0, <1>1, <2>2, MarkersChange DEF DeleteEvents
    <3> QED
      BY <1>1, <2>2, <3>1, ManifestComplete
  <2> QED
    BY <2>1, <2>2
<1> QED
  BY <1>1 DEF MarkersComplete

\* The events of a run whose marker goes are gone with it.
LEMMA DeletedWithMarker ==
  ASSUME DemoInv, TargetsComplete, NEW z \in Resetters, DeleteEvents(z), NEW m \in markers,
         m \notin markers'
  PROVE  OwnEvents(m.run)' = {}
<1>1. /\ target[z] # None
      /\ trail' = trail \ target[z].events /\ m.run = target[z].run
  BY NothingLeftOfRun DEF DeleteEvents
<1>2. OwnEvents(target[z].run) \subseteq target[z].events
  BY <1>1 DEF TargetsComplete, Complete
<1> QED
  BY <1>1, <1>2 DEF OwnEvents

\* A marker stays until its run's events are gone.
LEMMA MarkerOrNothing ==
  ASSUME DemoInv, TargetsComplete, Next, NEW m \in Marker, Sound(m), Complete(m),
         m \in markers \/ OwnEvents(m.run) = {}
  PROVE  Complete(m)' /\ (m \in markers' \/ OwnEvents(m.run)' = {})
<1>0. TypeOK
  BY DEF DemoInv
<1>1. OwnEvents(m.run)' \subseteq OwnEvents(m.run) /\ Complete(m)'
  BY <1>0, CompleteKept
<1>2. CASE OwnEvents(m.run) = {}
  BY <1>1, <1>2
<1>3. CASE m \in markers
  <2>1. ASSUME NEW l \in Loaders, WriteMarker(l) PROVE m \in markers'
    BY <1>3, <2>1 DEF WriteMarker
  <2> QED
    BY <1>0, <1>1, <1>3, <2>1, MarkersChange, DeletedWithMarker
<1> QED
  BY <1>1, <1>2, <1>3

\* A reset works on a marker that is there, or whose events are gone.
LEMMA TargetsStayComplete ==
  ASSUME DemoInv, MarkersComplete, TargetsComplete, Next PROVE TargetsComplete'
<1>0. /\ TypeOK /\ MarkersSound /\ TargetsSound /\ markers \subseteq Marker
      /\ target \in [Resetters -> Marker \cup {None}]
  BY DEF DemoInv, TypeOK
<1> SUFFICES ASSUME NEW z \in Resetters, NEW m, m = target'[z], m # None
             PROVE  Complete(m)' /\ (m \in markers' \/ OwnEvents(m.run)' = {})
  BY DEF TargetsComplete, Complete, OwnEvents
<1>1. m = target[z] \/ m \in markers
  <2>1. ASSUME NEW y \in Resetters, FindMarker(y) PROVE m = target[z] \/ m \in markers
    <3>1. UNCHANGED target \/ \E n \in markers : target' = [target EXCEPT ![y] = n]
      BY <2>1, SomeAnswer DEF FindMarker, Newest
    <3> QED
      BY <1>0, <3>1
  <2>2. ASSUME NEW r \in Requests, CutOff(r) PROVE m = target[z]
    BY <1>0, <2>2 DEF CutOff
  <2>3. CASE UNCHANGED target
    BY <2>3
  <2> QED
    BY <2>1, <2>2, <2>3 DEF Next, Load, CheckMarker, RecordAdvice, FetchAdvice, SubmitIntent,
       CloseStep, SkipClose, ListOpen, MarkStep, LoadThrows, CollectIntentEvents,
       CollectPositionEvents, WriteMarker, Reset, DeleteRows, DeleteEvents, RecordReset,
       TradeIntent, ActOnPosition
<1>2. m \in Marker /\ Sound(m) /\ Complete(m) /\ (m \in markers \/ OwnEvents(m.run) = {})
  <2>1. CASE m \in markers
    BY <1>0, <2>1 DEF MarkersSound, MarkersComplete
  <2>2. CASE m = target[z]
    BY <1>0, <2>2 DEF TargetsSound, TargetsComplete
  <2> QED
    BY <1>1, <2>1, <2>2
<1> QED
  BY <1>2, MarkerOrNothing

\* The events a run leaves are those of rows that are there or of a marker.
Accounted(e) ==
  e.subject \in intents \/ e.by # Owner(e.subject) \/ \E m \in markers : e \in m.events

LEMMA AccountedKept ==
  ASSUME DemoInv, MarkersComplete, TargetsComplete, Next, NEW e \in trail, e \in trail',
         Accounted(e)
  PROVE  Accounted(e)'
<1>0. /\ TypeOK /\ MarkersSound /\ TargetsSound
      /\ markers \subseteq Marker /\ target \in [Resetters -> Marker \cup {None}]
  BY DEF DemoInv, TypeOK
<1>1. CASE e.by # Owner(e.subject)
  BY <1>1 DEF Accounted
<1>2. ASSUME e.by = Owner(e.subject), e.subject \in intents, e.subject \notin intents'
      PROVE  Accounted(e)'
  <2>1. PICK z \in Resetters : DeleteRows(z)
    <3>1. \A t \in Traders : TradeIntent(t) \/ ActOnPosition(t) => intents \subseteq intents'
      BY DEF TradeIntent, ActOnPosition, Evaluated, ClosePosition, MarkPosition, rows
    <3> QED
      BY <1>0, <1>2, <3>1, LoadAdds DEF Next, Reset, FindMarker, DeleteEvents, RecordReset,
         RecordAdvice, CutOff, rows
  <2>2. /\ target[z] # None /\ e.subject \in target[z].intents
        /\ UNCHANGED <<markers, trail>>
    BY <1>0, <1>2, <2>1 DEF DeleteRows, Doomed, TargetsSound, rows, ledger
  <2>3. Owner(e.subject) = target[z].run
    BY <2>2, TargetOwned
  <2>4. e \in OwnEvents(target[z].run)
    BY <1>2, <2>3 DEF OwnEvents
  <2>5. target[z] \in markers /\ e \in target[z].events
    BY <2>2, <2>4 DEF TargetsComplete, Complete
  <2> QED
    BY <2>2, <2>5 DEF Accounted
<1>3. ASSUME e.by = Owner(e.subject), NEW m \in markers, e \in m.events PROVE Accounted(e)'
  <2>1. CASE m \in markers'
    BY <1>3, <2>1 DEF Accounted
  <2>2. CASE m \notin markers'
    <3>1. PICK z \in Resetters : DeleteEvents(z)
      <4>1. \A l \in Loaders : WriteMarker(l) => markers \subseteq markers'
        BY DEF WriteMarker
      <4> QED
        BY <1>0, <1>3, <2>2, <4>1, MarkersChange
    <3>2. OwnEvents(m.run)' = {}
      BY <1>3, <2>2, <3>1, DeletedWithMarker
    <3>3. Owner(e.subject) = m.run
      BY <1>0, <1>3 DEF MarkersSound, Sound
    <3>4. e \in OwnEvents(m.run)'
      BY <1>3, <3>3 DEF OwnEvents
    <3> QED
      BY <3>2, <3>4
  <2> QED
    BY <2>1, <2>2
<1>4. CASE e.subject \in intents'
  BY <1>4 DEF Accounted
<1> QED
  BY <1>1, <1>2, <1>3, <1>4 DEF Accounted

\* Without ignored errors, whatever a reset races with, it leaves no event of a
\* demo run behind that no later reset could find.
THEOREM NothingIsLeftBehind == Spec => []NothingLeftBehind
<1>1. Init => TrailInv
  <2> SUFFICES ASSUME Init PROVE TrailInv
    OBVIOUS
  <2>1. \A l \in Loaders : pc[l] = "idle" /\ OwnEvents(l) = {} /\ open = {}
    BY Apart DEF Init, OwnEvents, Requests
  <2>2. EventsRemembered
    BY <2>1 DEF EventsRemembered, Working
  <2>3. MarkersComplete /\ TargetsComplete /\ NothingLeftBehind
    BY DEF Init, MarkersComplete, TargetsComplete, NothingLeftBehind
  <2> QED
    BY <2>2, <2>3 DEF TrailInv
<1>2. DemoInv /\ TrailInv /\ [Next]_vars => TrailInv'
  <2>1. ASSUME DemoInv, TrailInv, ~Faults, Next PROVE TrailInv'
    <3>1. EventsRemembered' /\ MarkersComplete' /\ TargetsComplete'
      BY <2>1, EventsPreserved, CompletePreserved, TargetsStayComplete DEF TrailInv
    <3>2. ASSUME NEW e \in trail' PROVE Accounted(e)'
      <4>1. CASE e \in trail
        <5>1. Accounted(e)
          BY <2>1, <4>1 DEF TrailInv, NothingLeftBehind, Accounted
        <5> QED
          BY <2>1, <3>2, <4>1, <5>1, AccountedKept DEF TrailInv
      <4>2. CASE e \notin trail
        BY <2>1, <3>2, <4>2, NewEventsAboutRows DEF DemoInv, Accounted
      <4> QED
        BY <4>1, <4>2
    <3>3. NothingLeftBehind'
      BY <3>2 DEF NothingLeftBehind, Accounted
    <3> QED
      BY <3>1, <3>3 DEF TrailInv
  <2>2. ASSUME TrailInv, UNCHANGED vars PROVE TrailInv'
    BY <2>2 DEF TrailInv, EventsRemembered, MarkersComplete, TargetsComplete, Complete,
       OwnEvents, NothingLeftBehind, vars, rows, ledger
  <2> QED
    BY <2>1, <2>2 DEF TrailInv
<1>3. TrailInv => NothingLeftBehind
  BY DEF TrailInv, NothingLeftBehind
<1> QED
  BY <1>1, <1>2, <1>3, DemoInvariant, PTL DEF Spec
=============================================================================
