--------------------------- MODULE DataPathProofs ---------------------------
(***************************************************************************)
(* The safety properties of DataPath and Prometheus, for every set of      *)
(* leaves and of their kinds and types, every buffer size and any number   *)
(* of changes and subscriptions.                                           *)
(***************************************************************************)
EXTENDS DataPath, TLAPS

\* Nothing is on its way to an exporter that has not started.
NotJoined ==
    ~joined => fan = Idle /\ buffer = <<>> /\ told = [p \in Leaf |-> Gone]

\* A leaf that is on its way is in the cache.
LeafIsThere ==
    /\ \A i \in 1 .. Len(buffer) : buffer[i].what = "leaf" => cache[buffer[i].path] # Gone
    /\ fan # Idle /\ fan.entry.what = "leaf" => cache[fan.entry.path] # Gone

\* Agrees, of a leaf that has the value c in the cache.
AgreesWith(e, c) == (e.what = "leaf" /\ c # Gone) \/ (e.what = "reset" /\ c = Gone)

\* After what q tells of p, an exporter that has been told t of it has the value c.
Ends(q, p, c, t) ==
    \/ t = c /\ \A i \in 1 .. Len(q) : ~Affects(q[i], p)
    \/ \E i \in 1 .. Len(q) :
          /\ Affects(q[i], p)
          /\ \A j \in 1 .. Len(q) : Affects(q[j], p) => j <= i
          /\ AgreesWith(q[i], c)

Informed == \A p \in Leaf : ~missed[p] => Ends(InFlight, p, cache[p], told[p])

\* A series without a value has not counted anything.
Counted ==
    /\ \A p \in Leaf : ~history[p].exists => shown[p] = 0 /\ ~fell[p]
    /\ CounterTelescopes

\* A metric is what its type makes it, and has counted up to what was told last.
ToldCounted ==
    \A p \in Leaf : /\ metrics[p] \in {"none", MetricOf(p)}
                    /\ CountedUpTo(p, told[p])

IInv ==
    /\ TypeOK
    /\ NotJoined
    /\ LeafIsThere
    /\ Informed
    /\ Counted
    /\ ToldCounted

-----------------------------------------------------------------------------
(* Values and entries. *)

\* A value has the kind of its leaf, and a number; it is never Gone.
LEMMA ValueFacts ==
  /\ \A p \in Leaf : Value(p) \subseteq Values
  /\ \A v \in Values : v.n \in Nat /\ v # Gone
  /\ Gone.kind = "gone"
<1>1. ASSUME NEW p \in Leaf, NEW v \in Value(p)
      PROVE  v.n \in Nat /\ v # Gone
  <2>1. PICK k \in Nat : v = [kind |-> KindOf[p], n |-> k]
    BY NatAssumption DEF Value
  <2>2. KindOf[p] # "gone" BY KindAssumption
  <2>3. QED BY <2>1, <2>2 DEF Gone
<1>2. QED BY <1>1 DEF Values, Gone

\* What an entry is.
LEMMA EntryFacts ==
  /\ \A e \in Entry : /\ e.what \in {"leaf", "old", "reset"}
                      /\ e.what # "reset" => e.path \in Leaf
                      /\ e.what = "old" => e.value \in Values
  /\ \A p \in Leaf : [what |-> "leaf", path |-> p] \in Entry
  /\ [what |-> "reset"] \in Entry
  /\ \A p \in Leaf, v \in Values : [what |-> "old", path |-> p, value |-> v] \in Entry
BY DEF Entry

\* A fan that is at work is not Idle.
LEMMA FanFacts ==
  ASSUME NEW e \in Entry, NEW s \in {"check", "send"}
  PROVE  /\ [stage |-> s, entry |-> e] # Idle
         /\ [stage |-> s, entry |-> e] \in [stage : {"check", "send"}, entry : Entry]
<1>1. [stage |-> s, entry |-> e].stage # Idle.stage BY DEF Idle
<1>2. QED BY <1>1

-----------------------------------------------------------------------------
(* What is told by a sequence of entries. *)

\* Nothing is told yet.
LEMMA EndsEmpty == ASSUME NEW p, NEW c PROVE Ends(<<>>, p, c, c)
BY DEF Ends

\* An entry about another leaf changes nothing, in either direction.
LEMMA EndsAppendOther ==
  ASSUME NEW q \in Seq(Entry), NEW e \in Entry, NEW p, NEW c, NEW t, ~Affects(e, p)
  PROVE  Ends(Append(q, e), p, c, t) <=> Ends(q, p, c, t)
<1> DEFINE r == Append(q, e)
<1>1. /\ Len(q) \in Nat /\ Len(r) = Len(q) + 1 /\ r[Len(q) + 1] = e
      /\ \A i \in 1 .. Len(q) : r[i] = q[i] /\ i \in 1 .. Len(r)
      /\ \A i \in 1 .. Len(r) : i \in 1 .. Len(q) \/ r[i] = e
  OBVIOUS
<1> HIDE DEF r
<1>2. ASSUME Ends(r, p, c, t) PROVE Ends(q, p, c, t)
  BY <1>1, <1>2 DEF Ends
<1>3. ASSUME Ends(q, p, c, t) PROVE Ends(r, p, c, t)
  BY <1>1, <1>3 DEF Ends
<1>4. QED BY <1>2, <1>3 DEF r

\* An entry that agrees with the cache is the last word.
LEMMA EndsAppendLast ==
  ASSUME NEW q \in Seq(Entry), NEW e \in Entry, NEW p, NEW c, NEW t,
         Affects(e, p), AgreesWith(e, c)
  PROVE  Ends(Append(q, e), p, c, t)
<1>1. /\ Len(q) \in Nat /\ Len(Append(q, e)) = Len(q) + 1
      /\ Append(q, e)[Len(q) + 1] = e
  OBVIOUS
<1>2. /\ Len(q) + 1 \in 1 .. Len(Append(q, e))
      /\ \A j \in 1 .. Len(Append(q, e)) : j <= Len(q) + 1
  BY <1>1
<1>3. QED BY <1>1, <1>2 DEF Ends

\* The first entry is read: what it tells is what the exporter has been told, unless
\* more follows.
LEMMA EndsTail ==
  ASSUME NEW q \in Seq(Entry), q # <<>>, NEW p, NEW c, NEW t, NEW t2,
         Ends(q, p, c, t),
         ~Affects(Head(q), p) => t2 = t,
         Affects(Head(q), p) /\ AgreesWith(Head(q), c) => t2 = c
  PROVE  Ends(Tail(q), p, c, t2)
<1> DEFINE r == Tail(q)
<1>1. /\ Len(q) \in Nat /\ Len(q) >= 1 /\ Len(r) = Len(q) - 1
      /\ Head(q) = q[1] /\ 1 \in 1 .. Len(q)
      /\ \A i \in 1 .. Len(r) : r[i] = q[i + 1] /\ i + 1 \in 1 .. Len(q)
      /\ \A k \in 1 .. Len(q) : k # 1 => k - 1 \in 1 .. Len(r) /\ q[k] = r[k - 1]
  OBVIOUS
<1> HIDE DEF r
<1>2. CASE t = c /\ \A i \in 1 .. Len(q) : ~Affects(q[i], p)
  <2>1. t2 = c BY <1>1, <1>2
  <2>2. \A i \in 1 .. Len(r) : ~Affects(r[i], p) BY <1>1, <1>2
  <2>3. QED BY <2>1, <2>2 DEF Ends, r
<1>3. CASE \E i \in 1 .. Len(q) :
              /\ Affects(q[i], p)
              /\ \A j \in 1 .. Len(q) : Affects(q[j], p) => j <= i
              /\ AgreesWith(q[i], c)
  <2>1. PICK k \in 1 .. Len(q) :
              /\ Affects(q[k], p)
              /\ \A j \in 1 .. Len(q) : Affects(q[j], p) => j <= k
              /\ AgreesWith(q[k], c)
    BY <1>3
  <2>2. ASSUME NEW i \in 1 .. Len(r), Affects(r[i], p) PROVE i + 1 <= k
    <3>1. r[i] = q[i + 1] /\ i + 1 \in 1 .. Len(q) BY <1>1
    <3>2. QED BY <2>1, <2>2, <3>1
  <2>3. CASE k = 1
    <3>1. t2 = c BY <1>1, <2>1, <2>3
    <3>2. \A i \in 1 .. Len(r) : ~Affects(r[i], p)
      <4>1. \A i \in 1 .. Len(r) : ~(i + 1 <= k) BY <2>3
      <4>2. QED BY <2>2, <4>1
    <3>3. QED BY <3>1, <3>2 DEF Ends, r
  <2>4. CASE k # 1
    <3>1. k - 1 \in 1 .. Len(r) /\ q[k] = r[k - 1] BY <1>1, <2>4
    <3>2. \A i \in 1 .. Len(r) : Affects(r[i], p) => i <= k - 1 BY <2>2
    <3>3. QED BY <2>1, <3>1, <3>2 DEF Ends, r
  <2>5. QED BY <2>3, <2>4
<1>4. QED BY <1>2, <1>3 DEF Ends

-----------------------------------------------------------------------------
(* The types. *)

\* The end of a subscription: a leaf in the buffer keeps the value it had.
LEMMA DisconnectedType ==
  ASSUME TypeOK, LeafIsThere, Disconnected
  PROVE  TypeOK'
<1>1. buffer' \in Seq(Entry) /\ Len(buffer') = Len(buffer)
  <2>1. ASSUME NEW i \in 1 .. Len(buffer) PROVE Old(buffer[i]) \in Entry
    <3>1. buffer[i] \in Entry BY DEF TypeOK
    <3>2. CASE buffer[i].what = "leaf"
      <4>1. cache[buffer[i].path] \in Values
        BY <3>1, <3>2, EntryFacts DEF TypeOK, LeafIsThere
      <4>2. QED BY <3>1, <3>2, <4>1, EntryFacts DEF Old
    <3>3. CASE buffer[i].what # "leaf"
      BY <3>1, <3>3 DEF Old
    <3>4. QED BY <3>2, <3>3
  <2>2. /\ Len(buffer) \in Nat /\ DOMAIN buffer = 1 .. Len(buffer)
        /\ buffer' = [i \in 1 .. Len(buffer) |-> Old(buffer[i])]
    BY DEF Disconnected, TypeOK
  <2>3. QED BY <2>1, <2>2
<1>2. fan' = Idle \/ fan' \in [stage : {"check", "send"}, entry : Entry]
  BY EntryFacts, FanFacts DEF Disconnected, Forward
<1>3. cache' \in [Leaf -> Values \cup {Gone}] /\ \A p \in Leaf : cache'[p] = Gone
  BY DEF Disconnected
<1>4. missed' \in [Leaf -> BOOLEAN] BY DEF Disconnected, TypeOK
<1>5. QED BY <1>1, <1>2, <1>3, <1>4 DEF Disconnected, TypeOK, promVars, PromTypeOK

\* What Export exports is the value of a leaf, if it is anything.
LEMMA ExportCases ==
  ASSUME TypeOK, Export
  PROVE  \/ UNCHANGED promVars
         \/ \E p \in Leaf, v \in Values : ExportValue(p, v)
<1>1. Head(buffer) \in Entry BY DEF Export, TypeOK
<1> DEFINE e == Head(buffer)
           v == IF e.what = "leaf" THEN cache[e.path] ELSE e.value
<1>2. CASE e.what = "reset"
  BY <1>2 DEF Export
<1>3. CASE e.what # "reset"
  <2>1. ExportValue(e.path, v) BY <1>3 DEF Export
  <2>2. e.path \in Leaf BY <1>1, <1>3, EntryFacts
  <2>3. v \in Values \/ v = Gone BY <1>1, <1>3, EntryFacts DEF TypeOK
  <2>4. CASE v = Gone
    <3>1. ~IsNumber(v) BY <2>4 DEF IsNumber, Gone
    <3>2. QED BY <2>1, <3>1 DEF ExportValue
  <2>5. CASE v \in Values
    BY <2>1, <2>2, <2>5
  <2>6. QED BY <2>3, <2>4, <2>5
<1>4. QED BY <1>2, <1>3

\* A value that is exported leaves the metrics and their history well typed.
LEMMA ExportType ==
  ASSUME TypeOK, Export
  PROVE  PromTypeOK'
<1>1. CASE UNCHANGED promVars
  BY <1>1 DEF promVars, TypeOK, PromTypeOK
<1>2. ASSUME NEW p \in Leaf, NEW v \in Values, ExportValue(p, v), ~UNCHANGED promVars
      PROVE  PromTypeOK'
  <2>1. v.n \in Nat BY ValueFacts
  <2>2. MetricOf(p) \in {"nil", "counter", "gauge"} BY TypeAssumption DEF MetricOf
  <2>3. metrics' \in [Leaf -> {"none", "nil", "counter", "gauge"}]
    <3>1. \/ metrics' = metrics
          \/ metrics' = [metrics EXCEPT ![p] = IF @ = "none" THEN MetricOf(p) ELSE @]
      BY <1>2 DEF ExportValue, promVars
    <3>2. QED BY <2>2, <3>1 DEF TypeOK, PromTypeOK
  <2>4. CASE UNCHANGED <<history, shown, first, fell>>
    BY <2>3, <2>4 DEF TypeOK, PromTypeOK
  <2>5. CASE /\ history' = Calc(p, v.n)
             /\ shown' = [shown EXCEPT ![p] = AddDelta(p, v.n)]
             /\ first' = [first EXCEPT ![p] = IF history[p].exists THEN @ ELSE v.n]
             /\ fell' = [fell EXCEPT ![p] =
                            @ \/ (history[p].exists /\ v.n < history[p].value)]
    <3>1. history[p].value \in Nat /\ shown[p] \in Nat /\ first[p] \in Nat
      BY DEF TypeOK, PromTypeOK
    <3>2. AddDelta(p, v.n) \in Nat BY <2>1, <3>1 DEF AddDelta
    <3>3. history' \in [Leaf -> [exists : BOOLEAN, value : Nat]]
      BY <2>1, <2>5 DEF Calc, TypeOK, PromTypeOK
    <3>4. shown' \in [Leaf -> Nat] /\ first' \in [Leaf -> Nat]
      BY <2>1, <2>5, <3>1, <3>2 DEF TypeOK, PromTypeOK
    <3>5. fell' \in [Leaf -> BOOLEAN]
      BY <2>5 DEF TypeOK, PromTypeOK
    <3>6. QED BY <2>3, <3>3, <3>4, <3>5 DEF PromTypeOK
  <2>6. QED BY <1>2, <2>4, <2>5 DEF ExportValue
<1>3. QED BY <1>1, <1>2, ExportCases

\* The types, with the size of the buffer.
LEMMA TypeStep == TypeOK /\ LeafIsThere /\ [Next]_vars => TypeOK'
<1> SUFFICES ASSUME TypeOK /\ LeafIsThere, [Next]_vars PROVE TypeOK'
  OBVIOUS
<1>1. ASSUME NEW p \in Leaf, Change(p) PROVE TypeOK'
  <2>1. PICK v \in Value(p) : device' = [device EXCEPT ![p] = v] BY <1>1 DEF Change
  <2>2. device' \in [Leaf -> Values] /\ \A x \in Leaf : device'[x] \in Value(x)
    BY <2>1, ValueFacts DEF TypeOK
  <2>3. changes' \in 0 .. MaxChanges BY <1>1, NatAssumption DEF Change, TypeOK
  <2>4. tosend' \subseteq Leaf BY <1>1 DEF Change, TypeOK
  <2>5. QED
    BY <1>1, <2>2, <2>3, <2>4
    DEF Change, TypeOK, connVars, dataVars, promVars, PromTypeOK
<1>2. ASSUME NEW p \in Leaf, UpdateRejected(p) PROVE TypeOK'
 BY <1>2, NatAssumption DEF UpdateRejected, Received, Receives, TypeOK, PromTypeOK,
    devVars, connVars, dataVars, promVars
<1>3. ASSUME NEW p \in Leaf, UpdateCached(p) PROVE TypeOK'
  <2>1. /\ cache' \in [Leaf -> Values \cup {Gone}]
        /\ \A x \in Leaf : cache'[x] = Gone \/ cache'[x] \in Value(x)
    BY <1>3 DEF UpdateCached, TypeOK
  <2>2. fan' = Idle \/ fan' \in [stage : {"check", "send"}, entry : Entry]
    BY <1>3, EntryFacts, FanFacts DEF UpdateCached, Forward
  <2>3. missed' \in [Leaf -> BOOLEAN] BY <1>3 DEF UpdateCached, TypeOK
  <2>4. tosend' \subseteq Leaf BY <1>3 DEF UpdateCached, TypeOK
  <2>5. QED
    BY <1>3, <2>1, <2>2, <2>3, <2>4 DEF UpdateCached, TypeOK, promVars, PromTypeOK
<1>4. ASSUME NEW p \in Leaf, UpdateStale(p) PROVE TypeOK'
 BY <1>4, NatAssumption DEF UpdateStale, Received, Receives, TypeOK, PromTypeOK,
    devVars, connVars, dataVars, promVars
<1>5. ASSUME NEW p \in Leaf, UpdateDuplicate(p) PROVE TypeOK'
  <2>1. Disconnected BY <1>5 DEF UpdateDuplicate
  <2>2. QED BY <2>1, DisconnectedType
<1>6. CASE TakeLock
 BY <1>6, NatAssumption DEF TakeLock, TypeOK, PromTypeOK, devVars, connVars, dataVars,
    promVars
<1>7. CASE Subscribe
  <2>1. subs' \in 0 .. MaxSubs BY <1>7, NatAssumption DEF Subscribe, TypeOK
  <2>2. QED
    BY <1>7, <2>1 DEF Subscribe, TypeOK, dataVars, promVars, PromTypeOK
<1>8. CASE Unlock
 BY <1>8, NatAssumption DEF Unlock, TypeOK, PromTypeOK, devVars, connVars, dataVars,
    promVars
<1>9. CASE RemoveTarget
 BY <1>9, NatAssumption DEF RemoveTarget, TypeOK, PromTypeOK, devVars, connVars,
    dataVars, promVars
<1>10. CASE SubscriptionEnds
  <2>1. Disconnected BY <1>10 DEF SubscriptionEnds
  <2>2. QED BY <2>1, DisconnectedType
<1>11. CASE SyncResponse
  <2>1. pollers' \in 0 .. MaxPollers
    BY <1>11, NatAssumption DEF SyncResponse, Receives, TypeOK
  <2>2. QED
    BY <1>11, <2>1 DEF SyncResponse, TypeOK, devVars, dataVars, promVars, PromTypeOK
<1>12. CASE PollerEnds
 BY <1>12, NatAssumption DEF PollerEnds, TypeOK, PromTypeOK, devVars, connVars,
    dataVars, promVars
<1>13. CASE AddClient
 BY <1>13, NatAssumption DEF AddClient, TypeOK, PromTypeOK, devVars, connVars, dataVars,
    promVars
<1>14. CASE CheckForwardable
  <2>1. fan' = Idle \/ fan' \in [stage : {"check", "send"}, entry : Entry]
    BY <1>14 DEF CheckForwardable, TypeOK
  <2>2. missed' \in [Leaf -> BOOLEAN]
    <3>1. \A p \in Leaf : (missed[p] \/ Affects(fan.entry, p)) \in BOOLEAN OBVIOUS
    <3>2. QED BY <1>14, <3>1 DEF CheckForwardable, TypeOK
  <2>3. QED
    BY <1>14, <2>1, <2>2
    DEF CheckForwardable, TypeOK, devVars, connVars, promVars, PromTypeOK
<1>15. CASE Send
  <2>1. fan.entry \in Entry BY <1>15 DEF Send, TypeOK
  <2>2. buffer' \in Seq(Entry) /\ Len(buffer') <= BufferSize
    BY <1>15, <2>1, NatAssumption DEF Send, TypeOK
  <2>3. QED
    BY <1>15, <2>2 DEF Send, TypeOK, devVars, connVars, promVars, PromTypeOK
<1>16. CASE Export
  <2>1. buffer' \in Seq(Entry) /\ Len(buffer') <= BufferSize
    BY <1>16, NatAssumption DEF Export, TypeOK
  <2>2. Head(buffer) \in Entry BY <1>16 DEF Export, TypeOK
  <2>3. told' \in [Leaf -> Values \cup {Gone}]
    BY <1>16, <2>2, EntryFacts DEF Export, TypeOK
  <2>4. PromTypeOK' BY <1>16, ExportType DEF TypeOK
  <2>5. QED
    BY <1>16, <2>1, <2>3, <2>4 DEF Export, TypeOK, devVars, connVars
<1>17. CASE UNCHANGED vars
 BY <1>17 DEF vars, devVars, connVars, dataVars, promVars, TypeOK, PromTypeOK
<1>18. QED
 BY <1>1, <1>2, <1>3, <1>4, <1>5, <1>6, <1>7, <1>8, <1>9, <1>10, <1>11, <1>12, <1>13,
    <1>14, <1>15, <1>16, <1>17 DEF Next

\* Before the exporter has started there is nobody to forward to.
LEMMA NotJoinedStep == TypeOK /\ NotJoined /\ [Next]_vars => NotJoined'
<1> SUFFICES ASSUME TypeOK /\ NotJoined, [Next]_vars PROVE NotJoined'
  OBVIOUS
<1>1. ASSUME NEW p \in Leaf, Change(p) PROVE NotJoined'
 BY <1>1, NatAssumption DEF Change, TypeOK, NotJoined, devVars, connVars, dataVars,
    promVars
<1>2. ASSUME NEW p \in Leaf, UpdateRejected(p) PROVE NotJoined'
 BY <1>2, NatAssumption DEF UpdateRejected, Received, Receives, TypeOK, NotJoined,
    devVars, connVars, dataVars, promVars
<1>3. ASSUME NEW p \in Leaf, UpdateCached(p) PROVE NotJoined'
 BY <1>3, NatAssumption DEF UpdateCached, Received, Receives, Forward, TypeOK,
    NotJoined, devVars, connVars, dataVars, promVars
<1>4. ASSUME NEW p \in Leaf, UpdateStale(p) PROVE NotJoined'
 BY <1>4, NatAssumption DEF UpdateStale, Received, Receives, TypeOK, NotJoined, devVars,
    connVars, dataVars, promVars
<1>5. ASSUME NEW p \in Leaf, UpdateDuplicate(p) PROVE NotJoined'
  <2>1. Disconnected BY <1>5 DEF UpdateDuplicate
  <2>2. ~joined => buffer' = <<>> BY <2>1 DEF Disconnected, NotJoined
  <2>3. QED BY <2>1, <2>2 DEF Disconnected, Forward, NotJoined
<1>6. CASE TakeLock
 BY <1>6, NatAssumption DEF TakeLock, TypeOK, NotJoined, devVars, connVars, dataVars,
    promVars
<1>7. CASE Subscribe
 BY <1>7, NatAssumption DEF Subscribe, TypeOK, NotJoined, devVars, connVars, dataVars,
    promVars
<1>8. CASE Unlock
 BY <1>8, NatAssumption DEF Unlock, TypeOK, NotJoined, devVars, connVars, dataVars,
    promVars
<1>9. CASE RemoveTarget
 BY <1>9, NatAssumption DEF RemoveTarget, TypeOK, NotJoined, devVars, connVars,
    dataVars, promVars
<1>10. CASE SubscriptionEnds
  <2>1. Disconnected BY <1>10 DEF SubscriptionEnds
  <2>2. ~joined => buffer' = <<>> BY <2>1 DEF Disconnected, NotJoined
  <2>3. QED BY <2>1, <2>2 DEF Disconnected, Forward, NotJoined
<1>11. CASE SyncResponse
 BY <1>11, NatAssumption DEF SyncResponse, Receives, TypeOK, NotJoined, devVars,
    connVars, dataVars, promVars
<1>12. CASE PollerEnds
 BY <1>12, NatAssumption DEF PollerEnds, TypeOK, NotJoined, devVars, connVars, dataVars,
    promVars
<1>13. CASE AddClient
 BY <1>13, NatAssumption DEF AddClient, TypeOK, NotJoined, devVars, connVars, dataVars,
    promVars
<1>14. CASE CheckForwardable
 BY <1>14, NatAssumption DEF CheckForwardable, TypeOK, NotJoined, devVars, connVars,
    dataVars, promVars
<1>15. CASE Send
 BY <1>15, NatAssumption DEF Send, TypeOK, NotJoined, devVars, connVars, dataVars,
    promVars
<1>16. CASE Export
 BY <1>16, NatAssumption DEF Export, TypeOK, NotJoined, devVars, connVars, dataVars,
    promVars
<1>17. CASE UNCHANGED vars
 BY <1>17 DEF vars, devVars, connVars, dataVars, promVars, TypeOK, NotJoined
<1>18. QED
 BY <1>1, <1>2, <1>3, <1>4, <1>5, <1>6, <1>7, <1>8, <1>9, <1>10, <1>11, <1>12, <1>13,
    <1>14, <1>15, <1>16, <1>17 DEF Next

\* The end of a subscription leaves no leaf in the buffer.
LEMMA DisconnectedLeaves ==
  ASSUME TypeOK, Disconnected
  PROVE  LeafIsThere'
<1>1. /\ Len(buffer) \in Nat /\ DOMAIN buffer = 1 .. Len(buffer)
      /\ buffer' = [i \in 1 .. Len(buffer) |-> Old(buffer[i])]
  BY DEF Disconnected, TypeOK
<1>2. Len(buffer') = Len(buffer) BY <1>1
<1>3. \A i \in 1 .. Len(buffer) : buffer'[i].what # "leaf"
  <2> SUFFICES ASSUME NEW i \in 1 .. Len(buffer) PROVE buffer'[i].what # "leaf"
    OBVIOUS
  <2>1. buffer'[i] = Old(buffer[i]) BY <1>1
  <2>2. QED BY <2>1 DEF Old
<1>4. fan' = Idle \/ fan'.entry = [what |-> "reset"] BY DEF Disconnected, Forward
<1>5. QED BY <1>2, <1>3, <1>4 DEF LeafIsThere

\* A leaf leaves the cache when the subscription ends, and only then.
LEMMA LeafIsThereStep == TypeOK /\ LeafIsThere /\ [Next]_vars => LeafIsThere'
<1> SUFFICES ASSUME TypeOK /\ LeafIsThere, [Next]_vars PROVE LeafIsThere'
  OBVIOUS
<1>1. ASSUME NEW p \in Leaf, Change(p) PROVE LeafIsThere'
  <2>1. UNCHANGED <<cache, fan, buffer>> BY <1>1 DEF Change, dataVars
  <2>2. QED BY <2>1 DEF LeafIsThere
<1>2. ASSUME NEW p \in Leaf, UpdateRejected(p) PROVE LeafIsThere'
  <2>1. UNCHANGED <<cache, fan, buffer>> BY <1>2 DEF UpdateRejected, dataVars
  <2>2. QED BY <2>1 DEF LeafIsThere
<1>3. ASSUME NEW p \in Leaf, UpdateCached(p) PROVE LeafIsThere'
  <2>1. /\ cache' = [cache EXCEPT ![p] = device[p]]
        /\ buffer' = buffer
        /\ fan' = IF joined
                  THEN [stage |-> "check", entry |-> [what |-> "leaf", path |-> p]]
                  ELSE Idle
    BY <1>3 DEF UpdateCached, Forward
  <2>2. cache'[p] # Gone /\ \A x \in Leaf : cache[x] # Gone => cache'[x] # Gone
    BY <2>1, ValueFacts DEF TypeOK
  <2>3. \A i \in 1 .. Len(buffer) : buffer[i] \in Entry BY DEF TypeOK
  <2>4. \A i \in 1 .. Len(buffer) :
           buffer[i].what = "leaf" => cache'[buffer[i].path] # Gone
    BY <2>2, <2>3, EntryFacts DEF LeafIsThere
  <2>5. QED BY <2>1, <2>2, <2>4 DEF LeafIsThere
<1>4. ASSUME NEW p \in Leaf, UpdateStale(p) PROVE LeafIsThere'
  <2>1. UNCHANGED <<cache, fan, buffer>> BY <1>4 DEF UpdateStale, dataVars
  <2>2. QED BY <2>1 DEF LeafIsThere
<1>5. ASSUME NEW p \in Leaf, UpdateDuplicate(p) PROVE LeafIsThere'
  <2>1. Disconnected BY <1>5 DEF UpdateDuplicate
  <2>2. QED BY <2>1, DisconnectedLeaves
<1>6. CASE TakeLock
  <2>1. UNCHANGED <<cache, fan, buffer>> BY <1>6 DEF TakeLock, dataVars
  <2>2. QED BY <2>1 DEF LeafIsThere
<1>7. CASE Subscribe
  <2>1. UNCHANGED <<cache, fan, buffer>> BY <1>7 DEF Subscribe, dataVars
  <2>2. QED BY <2>1 DEF LeafIsThere
<1>8. CASE Unlock
  <2>1. UNCHANGED <<cache, fan, buffer>> BY <1>8 DEF Unlock, dataVars
  <2>2. QED BY <2>1 DEF LeafIsThere
<1>9. CASE RemoveTarget
  <2>1. UNCHANGED <<cache, fan, buffer>> BY <1>9 DEF RemoveTarget, dataVars
  <2>2. QED BY <2>1 DEF LeafIsThere
<1>10. CASE SubscriptionEnds
  <2>1. Disconnected BY <1>10 DEF SubscriptionEnds
  <2>2. QED BY <2>1, DisconnectedLeaves
<1>11. CASE SyncResponse
  <2>1. UNCHANGED <<cache, fan, buffer>> BY <1>11 DEF SyncResponse, dataVars
  <2>2. QED BY <2>1 DEF LeafIsThere
<1>12. CASE PollerEnds
  <2>1. UNCHANGED <<cache, fan, buffer>> BY <1>12 DEF PollerEnds, dataVars
  <2>2. QED BY <2>1 DEF LeafIsThere
<1>13. CASE AddClient
  <2>1. UNCHANGED <<cache, fan, buffer>> BY <1>13 DEF AddClient, dataVars
  <2>2. QED BY <2>1 DEF LeafIsThere
<1>14. CASE CheckForwardable
  <2>1. UNCHANGED <<cache, buffer>> BY <1>14 DEF CheckForwardable
  <2>2. fan' = Idle \/ (fan'.entry = fan.entry /\ fan # Idle)
    BY <1>14 DEF CheckForwardable, TypeOK
  <2>3. QED BY <2>1, <2>2 DEF LeafIsThere
<1>15. CASE Send
  <2>1. cache' = cache /\ fan' = Idle /\ fan # Idle /\ buffer' = Append(buffer, fan.entry)
    BY <1>15 DEF Send
  <2>2. buffer \in Seq(Entry) BY DEF TypeOK
  <2>3. /\ Len(buffer') = Len(buffer) + 1 /\ Len(buffer) \in Nat
        /\ \A i \in 1 .. Len(buffer') :
              \/ (i \in 1 .. Len(buffer) /\ buffer'[i] = buffer[i])
              \/ buffer'[i] = fan.entry
    BY <2>1, <2>2
  <2>4. QED BY <2>1, <2>3 DEF LeafIsThere
<1>16. CASE Export
  <2>1. cache' = cache /\ fan' = fan /\ buffer # <<>> /\ buffer' = Tail(buffer)
    BY <1>16 DEF Export
  <2>2. buffer \in Seq(Entry) BY DEF TypeOK
  <2>3. \A i \in 1 .. Len(buffer') :
           buffer'[i] = buffer[i + 1] /\ i + 1 \in 1 .. Len(buffer)
    BY <2>1, <2>2
  <2>4. QED BY <2>1, <2>3 DEF LeafIsThere
<1>17. CASE UNCHANGED vars
 BY <1>17 DEF vars, devVars, connVars, dataVars, promVars, LeafIsThere
<1>18. QED
 BY <1>1, <1>2, <1>3, <1>4, <1>5, <1>6, <1>7, <1>8, <1>9, <1>10, <1>11, <1>12, <1>13,
    <1>14, <1>15, <1>16, <1>17 DEF Next

-----------------------------------------------------------------------------
(* What the exporter has been told, or is about to be. *)

\* Taking from the front and adding at the end do not disturb each other.
LEMMA HeadTailAppend ==
  ASSUME NEW q \in Seq(Entry), q # <<>>, NEW e \in Entry
  PROVE  /\ Append(q, e) \in Seq(Entry) /\ Append(q, e) # <<>>
         /\ Head(Append(q, e)) = Head(q)
         /\ Tail(Append(q, e)) = Append(Tail(q), e)
OBVIOUS

\* The end of a subscription is itself the last word on every leaf.
LEMMA DisconnectedInforms ==
  ASSUME TypeOK, TypeOK', NotJoined, Disconnected
  PROVE  Informed'
<1>1. /\ cache' = [p \in Leaf |-> Gone] /\ missed' = [p \in Leaf |-> ~joined]
      /\ fan' = IF joined THEN [stage |-> "check", entry |-> [what |-> "reset"]] ELSE Idle
  BY DEF Disconnected, Forward
<1>2. CASE ~joined
  BY <1>1, <1>2 DEF Informed
<1>3. CASE joined
  <2>1. buffer' \in Seq(Entry) /\ [what |-> "reset"] \in Entry BY EntryFacts DEF TypeOK
  <2>2. InFlight' = Append(buffer', [what |-> "reset"])
    BY <1>1, <1>3, <2>1, FanFacts DEF InFlight
  <2>3. ASSUME NEW p \in Leaf
        PROVE  Ends(Append(buffer', [what |-> "reset"]), p, cache'[p], told'[p])
    <3>1. Affects([what |-> "reset"], p) /\ AgreesWith([what |-> "reset"], cache'[p])
      BY <1>1 DEF Affects, AgreesWith
    <3>2. QED BY <2>1, <3>1, EndsAppendLast
  <2>4. QED BY <2>2, <2>3 DEF Informed
<1>4. QED BY <1>2, <1>3

\* Every change of the cache is the last word on its leaf, and stays it until it is
\* read or followed by another.
LEMMA InformedStep == IInv /\ [Next]_vars => Informed'
<1> SUFFICES ASSUME IInv, [Next]_vars PROVE Informed'
  OBVIOUS
<1> TypeOK /\ NotJoined /\ LeafIsThere /\ Informed
  BY DEF IInv
<1>1. ASSUME NEW p \in Leaf, Change(p) PROVE Informed'
  <2>1. UNCHANGED dataVars BY <1>1 DEF Change
  <2>2. QED BY <2>1 DEF dataVars, Informed, InFlight
<1>2. ASSUME NEW p \in Leaf, UpdateRejected(p) PROVE Informed'
  <2>1. UNCHANGED dataVars BY <1>2 DEF UpdateRejected
  <2>2. QED BY <2>1 DEF dataVars, Informed, InFlight
<1>3. ASSUME NEW p \in Leaf, UpdateCached(p) PROVE Informed'
  <2>1. /\ cache' = [cache EXCEPT ![p] = device[p]] /\ buffer' = buffer /\ fan = Idle
        /\ missed' = [missed EXCEPT ![p] = ~joined] /\ told' = told
        /\ fan' = IF joined
                  THEN [stage |-> "check", entry |-> [what |-> "leaf", path |-> p]]
                  ELSE Idle
    BY <1>3 DEF UpdateCached, Received, Receives, Forward
  <2> DEFINE e == [what |-> "leaf", path |-> p]
  <2>2. e \in Entry /\ buffer \in Seq(Entry) /\ InFlight = buffer
    BY <2>1, EntryFacts DEF TypeOK, InFlight
  <2>3. CASE ~joined
    <3>1. missed'[p] /\ InFlight' = buffer BY <2>1, <2>3 DEF InFlight, TypeOK
    <3>2. QED BY <2>1, <2>2, <3>1 DEF Informed, TypeOK
  <2>4. CASE joined
    <3>1. InFlight' = Append(buffer, e)
      BY <2>1, <2>2, <2>4, FanFacts DEF InFlight
    <3>2. ASSUME NEW x \in Leaf, ~missed'[x]
          PROVE  Ends(Append(buffer, e), x, cache'[x], told'[x])
      <4>1. CASE x = p
        <5>1. cache'[p] # Gone BY <2>1, ValueFacts DEF TypeOK
        <5>2. Affects(e, x) /\ AgreesWith(e, cache'[x])
          BY <4>1, <5>1 DEF Affects, AgreesWith
        <5>3. QED BY <2>2, <5>2, EndsAppendLast
      <4>2. CASE x # p
        <5>1. ~Affects(e, x) BY <4>2 DEF Affects
        <5>2. cache'[x] = cache[x] /\ told'[x] = told[x] /\ ~missed[x]
          BY <2>1, <3>2, <4>2 DEF TypeOK
        <5>3. Ends(buffer, x, cache[x], told[x]) BY <2>2, <5>2 DEF Informed
        <5>4. QED BY <2>2, <5>1, <5>2, <5>3, EndsAppendOther
      <4>3. QED BY <4>1, <4>2
    <3>3. QED BY <3>1, <3>2 DEF Informed
  <2>5. QED BY <2>3, <2>4 DEF TypeOK
<1>4. ASSUME NEW p \in Leaf, UpdateStale(p) PROVE Informed'
  <2>1. UNCHANGED dataVars BY <1>4 DEF UpdateStale
  <2>2. QED BY <2>1 DEF dataVars, Informed, InFlight
<1>5. ASSUME NEW p \in Leaf, UpdateDuplicate(p) PROVE Informed'
  <2>1. Disconnected BY <1>5 DEF UpdateDuplicate
  <2>2. TypeOK' BY <2>1, DisconnectedType DEF IInv
  <2>3. QED BY <2>1, <2>2, DisconnectedInforms
<1>6. CASE TakeLock
  <2>1. UNCHANGED dataVars BY <1>6 DEF TakeLock
  <2>2. QED BY <2>1 DEF dataVars, Informed, InFlight
<1>7. CASE Subscribe
  <2>1. UNCHANGED dataVars BY <1>7 DEF Subscribe
  <2>2. QED BY <2>1 DEF dataVars, Informed, InFlight
<1>8. CASE Unlock
  <2>1. UNCHANGED dataVars BY <1>8 DEF Unlock
  <2>2. QED BY <2>1 DEF dataVars, Informed, InFlight
<1>9. CASE RemoveTarget
  <2>1. UNCHANGED dataVars BY <1>9 DEF RemoveTarget
  <2>2. QED BY <2>1 DEF dataVars, Informed, InFlight
<1>10. CASE SubscriptionEnds
  <2>1. Disconnected BY <1>10 DEF SubscriptionEnds
  <2>2. TypeOK' BY <2>1, DisconnectedType DEF IInv
  <2>3. QED BY <2>1, <2>2, DisconnectedInforms
<1>11. CASE SyncResponse
  <2>1. UNCHANGED dataVars BY <1>11 DEF SyncResponse
  <2>2. QED BY <2>1 DEF dataVars, Informed, InFlight
<1>12. CASE PollerEnds
  <2>1. UNCHANGED dataVars BY <1>12 DEF PollerEnds
  <2>2. QED BY <2>1 DEF dataVars, Informed, InFlight
<1>13. CASE AddClient
  <2>1. /\ ~joined /\ missed' = [p \in Leaf |-> cache[p] # Gone]
        /\ UNCHANGED <<cache, fan, buffer, told>>
    BY <1>13 DEF AddClient
  <2>2. fan = Idle /\ buffer = <<>> /\ told = [p \in Leaf |-> Gone]
    BY <2>1 DEF NotJoined
  <2>3. ASSUME NEW p \in Leaf, ~missed'[p] PROVE Ends(<<>>, p, cache'[p], told'[p])
    <3>1. cache'[p] = Gone /\ told'[p] = Gone BY <2>1, <2>2, <2>3
    <3>2. QED BY <3>1, EndsEmpty
  <2>4. InFlight' = <<>> BY <2>1, <2>2 DEF InFlight
  <2>5. QED BY <2>3, <2>4 DEF Informed
<1>14. CASE CheckForwardable
  <2>1. /\ fan # Idle /\ fan.entry \in Entry /\ buffer \in Seq(Entry)
        /\ UNCHANGED <<cache, buffer, told>>
    BY <1>14 DEF CheckForwardable, TypeOK
  <2>2. CASE Forwardable
    <3>1. fan' = [stage |-> "send", entry |-> fan.entry] /\ missed' = missed
      BY <1>14, <2>2 DEF CheckForwardable, TypeOK
    <3>2. InFlight' = InFlight BY <2>1, <3>1, FanFacts DEF InFlight
    <3>3. QED BY <2>1, <3>1, <3>2 DEF Informed
  <2>3. CASE ~Forwardable
    <3>1. /\ fan' = Idle
          /\ missed' = [p \in Leaf |-> missed[p] \/ Affects(fan.entry, p)]
      BY <1>14, <2>3 DEF CheckForwardable
    <3>2. InFlight' = buffer /\ InFlight = Append(buffer, fan.entry)
      BY <2>1, <3>1 DEF InFlight
    <3>3. ASSUME NEW p \in Leaf, ~missed'[p]
          PROVE  Ends(buffer, p, cache'[p], told'[p])
      <4>1. ~missed[p] /\ ~Affects(fan.entry, p) BY <3>1, <3>3
      <4>2. Ends(Append(buffer, fan.entry), p, cache[p], told[p])
        BY <3>2, <4>1 DEF Informed
      <4>3. QED BY <2>1, <4>1, <4>2, EndsAppendOther
    <3>4. QED BY <3>2, <3>3 DEF Informed
  <2>4. QED BY <2>2, <2>3
<1>15. CASE Send
  <2>1. /\ fan # Idle /\ fan' = Idle /\ buffer' = Append(buffer, fan.entry)
        /\ UNCHANGED <<cache, told, missed>>
    BY <1>15 DEF Send
  <2>2. InFlight' = InFlight BY <2>1 DEF InFlight
  <2>3. QED BY <2>1, <2>2 DEF Informed
<1>16. CASE Export
  <2> DEFINE e == Head(buffer)
  <2>1. /\ buffer # <<>> /\ buffer' = Tail(buffer) /\ buffer \in Seq(Entry)
        /\ UNCHANGED <<cache, fan, missed>> /\ e \in Entry
    BY <1>16 DEF Export, TypeOK
  <2>2. /\ InFlight \in Seq(Entry) /\ InFlight # <<>> /\ Head(InFlight) = e
        /\ InFlight' = Tail(InFlight)
    <3>1. CASE fan = Idle BY <2>1, <3>1 DEF InFlight
    <3>2. CASE fan # Idle
      <4>1. fan.entry \in Entry BY <3>2 DEF TypeOK
      <4>2. /\ InFlight = Append(buffer, fan.entry)
            /\ InFlight' = Append(Tail(buffer), fan.entry)
        BY <2>1, <3>2 DEF InFlight
      <4>3. QED BY <2>1, <4>1, <4>2, HeadTailAppend
    <3>3. QED BY <3>1, <3>2
  <2>3. ASSUME NEW p \in Leaf
        PROVE  /\ ~Affects(e, p) => told'[p] = told[p]
               /\ Affects(e, p) /\ AgreesWith(e, cache[p]) => told'[p] = cache[p]
    <3>1. CASE e.what = "reset"
      BY <1>16, <3>1 DEF Export, Affects, AgreesWith
    <3>2. CASE e.what # "reset"
      <4>1. told' = [told EXCEPT ![e.path] = IF e.what = "leaf" THEN cache[e.path]
                                             ELSE e.value]
        BY <1>16, <3>2 DEF Export
      <4>2. QED BY <3>2, <4>1 DEF TypeOK, Affects, AgreesWith
    <3>3. QED BY <3>1, <3>2
  <2>4. ASSUME NEW p \in Leaf, ~missed'[p]
        PROVE  Ends(InFlight', p, cache'[p], told'[p])
    <3>1. Ends(InFlight, p, cache[p], told[p]) BY <2>1, <2>4 DEF Informed
    <3>2. QED BY <2>1, <2>2, <2>3, <3>1, EndsTail
  <2>5. QED BY <2>4 DEF Informed
<1>17. CASE UNCHANGED vars
 BY <1>17 DEF vars, devVars, connVars, dataVars, promVars, Informed, InFlight
<1>18. QED
 BY <1>1, <1>2, <1>3, <1>4, <1>5, <1>6, <1>7, <1>8, <1>9, <1>10, <1>11, <1>12, <1>13,
    <1>14, <1>15, <1>16, <1>17 DEF Next

-----------------------------------------------------------------------------
(* The calculator of differences. *)

\* A value adds its difference to the one before it, or nothing if it has fallen.
LEMMA ExportCounts ==
  ASSUME TypeOK, Counted, NEW p \in Leaf, NEW v \in Values, ExportValue(p, v)
  PROVE  Counted'
<1>1. CASE UNCHANGED <<history, shown, first, fell>>
  BY <1>1 DEF Counted, CounterTelescopes
<1>2. CASE /\ history' = Calc(p, v.n)
           /\ shown' = [shown EXCEPT ![p] = AddDelta(p, v.n)]
           /\ first' = [first EXCEPT ![p] = IF history[p].exists THEN @ ELSE v.n]
           /\ fell' = [fell EXCEPT ![p] =
                          @ \/ (history[p].exists /\ v.n < history[p].value)]
  <2>1. v.n \in Nat BY ValueFacts
  <2>2. /\ \A x \in Leaf : /\ history[x].value \in Nat /\ shown[x] \in Nat
                           /\ first[x] \in Nat
        /\ history'[p].exists /\ history'[p].value = v.n
        /\ shown'[p] = AddDelta(p, v.n)
        /\ first'[p] = IF history[p].exists THEN first[p] ELSE v.n
        /\ fell'[p] <=> fell[p] \/ (history[p].exists /\ v.n < history[p].value)
    BY <1>2 DEF Calc, TypeOK, PromTypeOK
  <2>3. \A x \in Leaf \ {p} : /\ history'[x] = history[x] /\ shown'[x] = shown[x]
                              /\ first'[x] = first[x] /\ fell'[x] = fell[x]
    BY <1>2 DEF Calc, TypeOK, PromTypeOK
  <2>4. /\ shown'[p] >= history'[p].value - first'[p]
        /\ ~fell'[p] => shown'[p] = history'[p].value - first'[p]
    <3>1. CASE ~history[p].exists
      BY <2>1, <2>2, <3>1 DEF AddDelta, Counted
    <3>2. CASE history[p].exists /\ v.n < history[p].value
      BY <2>1, <2>2, <3>2 DEF AddDelta, Counted, CounterTelescopes
    <3>3. CASE history[p].exists /\ v.n >= history[p].value
      BY <2>1, <2>2, <3>3 DEF AddDelta, Counted, CounterTelescopes
    <3>4. QED BY <2>1, <2>2, <3>1, <3>2, <3>3
  <2>5. QED BY <2>2, <2>3, <2>4 DEF Counted, CounterTelescopes
<1>3. QED BY <1>1, <1>2 DEF ExportValue, promVars

\* Only Export tells the exporter anything or changes a metric.
LEMMA OnlyExportTells ==
  ASSUME [Next]_vars, ~Export
  PROVE  UNCHANGED told /\ UNCHANGED promVars
<1>1. ASSUME NEW p \in Leaf, Change(p) \/ UpdateRejected(p) \/ UpdateStale(p)
      PROVE  UNCHANGED told /\ UNCHANGED promVars
  BY <1>1 DEF Change, UpdateRejected, UpdateStale, dataVars
<1>2. ASSUME NEW p \in Leaf, UpdateCached(p) \/ UpdateDuplicate(p)
      PROVE  UNCHANGED told /\ UNCHANGED promVars
  BY <1>2 DEF UpdateCached, UpdateDuplicate, Disconnected
<1>3. CASE TakeLock \/ Subscribe \/ Unlock \/ RemoveTarget
  BY <1>3 DEF TakeLock, Subscribe, Unlock, RemoveTarget, dataVars
<1>4. CASE SubscriptionEnds \/ SyncResponse \/ PollerEnds
  BY <1>4 DEF SubscriptionEnds, Disconnected, SyncResponse, PollerEnds, dataVars
<1>5. CASE AddClient \/ CheckForwardable \/ Send
  BY <1>5 DEF AddClient, CheckForwardable, Send
<1>6. CASE UNCHANGED vars
  BY <1>6 DEF vars, dataVars
<1>7. QED BY <1>1, <1>2, <1>3, <1>4, <1>5, <1>6 DEF Next

\* What a metric has counted follows what was exported.
LEMMA CountedStep == TypeOK /\ Counted /\ [Next]_vars => Counted'
<1> SUFFICES ASSUME TypeOK /\ Counted, [Next]_vars PROVE Counted'
  OBVIOUS
<1>1. CASE UNCHANGED promVars
  BY <1>1 DEF promVars, Counted, CounterTelescopes
<1>2. ASSUME NEW p \in Leaf, NEW v \in Values, ExportValue(p, v)
      PROVE  Counted'
  BY <1>2, ExportCounts
<1>3. QED BY <1>1, <1>2, OnlyExportTells, ExportCases

\* A number that is exported makes the metric of its leaf and is what it counts up to;
\* nothing else changes what has been counted.
LEMMA ExportCountsUp ==
  ASSUME TypeOK, ToldCounted, NEW p \in Leaf, NEW v, ExportValue(p, v),
         told' = [told EXCEPT ![p] = v]
  PROVE  ToldCounted'
<1>1. \A x \in Leaf : MetricOf(x)' = MetricOf(x) BY DEF MetricOf
<1>2. \A x \in Leaf \ {p} : metrics'[x] = metrics[x] /\ history'[x] = history[x]
                            /\ told'[x] = told[x]
  BY DEF ExportValue, promVars, Calc, TypeOK, PromTypeOK
<1>3. metrics'[p] \in {"none", MetricOf(p)}
  BY DEF ExportValue, promVars, ToldCounted, TypeOK, PromTypeOK
<1>4. told'[p] = v BY DEF TypeOK
<1>5. ASSUME IsNumber(v), YangType[p] # "gauge32"
      PROVE  history'[p].exists /\ history'[p].value = v.n
  <2>1. MetricOf(p) # "nil" /\ MetricOf(p) # "none"
    BY <1>5 DEF MetricOf
  <2>2. metrics'[p] = MetricOf(p)
    BY <1>5, <2>1 DEF ExportValue, ToldCounted, TypeOK, PromTypeOK
  <2>3. history' = Calc(p, v.n) BY <1>5, <2>1, <2>2 DEF ExportValue
  <2>4. QED BY <2>3 DEF Calc, TypeOK, PromTypeOK
<1>6. CountedUpTo(p, told[p])' BY <1>4, <1>5 DEF CountedUpTo
<1>7. \A x \in Leaf \ {p} : /\ metrics'[x] \in {"none", MetricOf(x)}
                            /\ CountedUpTo(x, told[x])'
  BY <1>2 DEF ToldCounted, CountedUpTo
<1>8. QED BY <1>1, <1>3, <1>6, <1>7 DEF ToldCounted

\* Only a number that is told is counted, and it is counted when it is told.
LEMMA ToldCountedStep == TypeOK /\ ToldCounted /\ [Next]_vars => ToldCounted'
<1> SUFFICES ASSUME TypeOK /\ ToldCounted, [Next]_vars PROVE ToldCounted'
  OBVIOUS
<1>1. CASE ~Export
  <2>1. UNCHANGED told /\ UNCHANGED promVars BY <1>1, OnlyExportTells
  <2>2. QED BY <2>1 DEF promVars, ToldCounted, CountedUpTo, MetricOf
<1>2. CASE Export
  <2> DEFINE e == Head(buffer)
             v == IF e.what = "leaf" THEN cache[e.path] ELSE e.value
  <2>1. e \in Entry BY <1>2 DEF Export, TypeOK
  <2>2. CASE e.what = "reset"
    <3>1. UNCHANGED promVars /\ \A p \in Leaf : told'[p] = Gone
      BY <1>2, <2>2 DEF Export
    <3>2. ~IsNumber(Gone) BY DEF IsNumber, Gone
    <3>3. QED BY <3>1, <3>2 DEF promVars, ToldCounted, CountedUpTo, MetricOf
  <2>3. CASE e.what # "reset"
    <3>1. told' = [told EXCEPT ![e.path] = v] /\ ExportValue(e.path, v)
      BY <1>2, <2>3 DEF Export
    <3>2. e.path \in Leaf BY <2>1, <2>3, EntryFacts
    <3> HIDE DEF e, v
    <3>3. QED BY <3>1, <3>2, ExportCountsUp
  <2>4. QED BY <2>2, <2>3
<1>3. QED BY <1>1, <1>2

-----------------------------------------------------------------------------
\* Initially nothing is cached, on its way or exported.
LEMMA InitIInv == Init => IInv
<1> SUFFICES ASSUME Init PROVE IInv
  OBVIOUS
<1>1. TypeOK
  <2>1. PromTypeOK BY DEF Init, PromInit, PromTypeOK
  <2>2. buffer \in Seq(Entry) /\ Len(buffer) <= BufferSize BY NatAssumption DEF Init
  <2>3. changes \in 0 .. MaxChanges /\ subs \in 0 .. MaxSubs /\ pollers \in 0 .. MaxPollers
    BY NatAssumption DEF Init
  <2>4. missed \in [Leaf -> BOOLEAN] /\ tosend \subseteq Leaf BY DEF Init
  <2>5. cache \in [Leaf -> Values \cup {Gone}] /\ told \in [Leaf -> Values \cup {Gone}]
    BY DEF Init
  <2>6. \A p \in Leaf : cache[p] = Gone BY DEF Init
  <2>7. QED BY <2>1, <2>2, <2>3, <2>4, <2>5, <2>6 DEF Init, TypeOK
<1>2. NotJoined /\ LeafIsThere
  BY DEF Init, NotJoined, LeafIsThere
<1>3. Informed
  <2>1. InFlight = <<>> BY DEF Init, InFlight
  <2>2. \A p \in Leaf : cache[p] = Gone /\ told[p] = Gone BY DEF Init
  <2>3. QED BY <2>1, <2>2, EndsEmpty DEF Informed
<1>4. Counted BY DEF Init, PromInit, Counted, CounterTelescopes
<1>5. ToldCounted
  <2>1. \A p \in Leaf : metrics[p] = "none" /\ told[p] = Gone BY DEF Init, PromInit
  <2>2. ~IsNumber(Gone) BY DEF IsNumber, Gone
  <2>3. QED BY <2>1, <2>2 DEF ToldCounted, CountedUpTo
<1>6. QED BY <1>1, <1>2, <1>3, <1>4, <1>5 DEF IInv

\* The strengthening is inductive: it holds in every reachable state.
THEOREM Invariant == Spec => []IInv
<1>1. IInv /\ [Next]_vars => IInv'
  BY TypeStep, NotJoinedStep, LeafIsThereStep, InformedStep, CountedStep,
     ToldCountedStep
  DEF IInv
<1>2. QED BY InitIInv, <1>1, PTL DEF Spec

\* The variables keep their types, and the buffer its size.
THEOREM TypeCorrect == Spec => []TypeOK
<1>1. IInv => TypeOK BY DEF IInv
<1>2. QED BY Invariant, <1>1, PTL

\* What a metric shows is the rise of its leaf since its first value, and after a
\* fall never less (delta.go:37-44, prometheus.go:101-105).
THEOREM CounterSafe == Spec => []CounterTelescopes
<1>1. IInv => CounterTelescopes BY DEF IInv, Counted
<1>2. QED BY Invariant, <1>1, PTL

\* The metric that nothing is on its way to has counted up to the cache.
LEMMA UpToDate == IInv => ExporterUpToDate
<1> SUFFICES ASSUME IInv, NEW p \in Leaf, ~missed[p]
             PROVE  IF About(p) = {} THEN told[p] = cache[p] /\ CountedUpTo(p, cache[p])
                    ELSE \E i \in About(p) : /\ \A j \in About(p) : j <= i
                                             /\ Agrees(InFlight[i], p)
  BY DEF ExporterUpToDate
<1>1. Ends(InFlight, p, cache[p], told[p]) BY DEF IInv, Informed
<1>2. InFlight \in Seq(Entry)
  BY DEF IInv, TypeOK, InFlight
<1>3. DOMAIN InFlight = 1 .. Len(InFlight) BY <1>2
<1>4. \A i \in 1 .. Len(InFlight) :
         AgreesWith(InFlight[i], cache[p]) => Agrees(InFlight[i], p)
  BY DEF AgreesWith, Agrees
<1>5. CountedUpTo(p, told[p]) BY DEF IInv, ToldCounted
<1>6. QED BY <1>1, <1>3, <1>4, <1>5 DEF Ends, About

\* The exporter has been told what the cache has and has counted up to it, or is about
\* to be told, however fast the target changes and however often it is subscribed to
\* anew (gateway.go:145-151, 329-342, state.go:287-299, 324-372).
THEOREM ExporterSafe == Spec => []ExporterUpToDate
BY Invariant, UpToDate, PTL

\* From the target's stream to the metric: once nothing is on its way, what the metric
\* shows is how far the cached value has risen since the first one exported, unless the
\* leaf fell (gateway.go:145-151, delta.go:37-44, prometheus.go:86-108).
THEOREM MetricSafe == Spec => []MetricShowsRise
<1>1. IInv => MetricShowsRise
  <2> SUFFICES ASSUME IInv, NEW p \in Leaf, ~missed[p], About(p) = {},
                      IsNumber(cache[p]), YangType[p] # "gauge32", ~fell[p]
               PROVE  shown[p] = cache[p].n - first[p]
    BY DEF MetricShowsRise
  <2>1. history[p].exists /\ history[p].value = cache[p].n
    BY UpToDate DEF ExporterUpToDate, CountedUpTo
  <2>2. QED BY <2>1 DEF IInv, Counted, CounterTelescopes
<1>2. QED BY Invariant, <1>1, PTL
=============================================================================
