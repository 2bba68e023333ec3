--------------------------- MODULE LoadersProofs ---------------------------
(***************************************************************************)
(* The safety properties of Loaders, for every set of loaders and names,   *)
(* every capacity of the channel and any number of edits.                  *)
(***************************************************************************)
EXTENDS Loaders, TLAPS

\* A message is about the names of its loader only.
OwnNames ==
    \A l \in Loader : \A i \in Pending(l) :
        /\ PendingMsg(l, i) \in Message
        /\ PendingMsg(l, i).insert \in Configuration(l)
        /\ PendingMsg(l, i).remove \subseteq NamesOf[l]

\* The parts of RemovalsMatchMap, for the messages M[i], i in P, of one loader, the map C,
\* the names E and the configuration t.
Settled(P, C, E, t) == P = {} => \A n \in E : C[n] # None <=> n \in Names(t)

FirstFits(P, M, C, E) ==
    \A i \in P : (\A j \in P : i <= j) =>
        \A n \in E : C[n] # None => n \in M[i].remove \cup Names(M[i].insert)

Linked(P, M) ==
    \A i, j \in P :
        j < i /\ (\A k \in P : k <= j \/ i <= k) =>
            M[i].remove = Names(M[j].insert) \ Names(M[i].insert)

EndsWith(P, M, t) == \A i \in P : (\A j \in P : j <= i) => M[i].insert = t

Chain(P, M, C, E, t) ==
    Settled(P, C, E, t) /\ FirstFits(P, M, C, E) /\ Linked(P, M) /\ EndsWith(P, M, t)

Msgs(l) == [i \in Pending(l) |-> PendingMsg(l, i)]

ChainOf(l, E) == Chain(Pending(l), Msgs(l), connections, E, last[l])

Chained == \A l \in Loader : ChainOf(l, Exclusive(l))

\* A name of several loaders is not in the chain of each, but in that of one.
LookedAfter ==
    \A n \in Name : connections[n] # None => \E l \in Loader : ChainOf(l, {n})

\* With nothing under way, the addresses and credentials are those read last.
DialSettled ==
    \A l \in Loader : \A n \in Exclusive(l) \cap Names(last[l]) :
        Pending(l) = {} => Equal(connections[n], last[l][n])

IInv == TypeOK /\ OwnNames /\ Chained /\ LookedAfter /\ DialSettled

\* What is proved of each step that leaves the map alone: whatever names a chain is
\* about, it stays one.
KeepsChain(l) == \A E \in SUBSET Name : ChainOf(l, E) => ChainOf(l, E)'

LEMMA ExclusiveNames == \A l \in Loader : Exclusive(l) \in SUBSET Name
BY NamesAssumption DEF Exclusive

-----------------------------------------------------------------------------
\* The chain is what RemovalsMatchMap says.
LEMMA ChainedSuffices == Chained /\ DialSettled => RemovalsMatchMap
<1> SUFFICES ASSUME Chained, DialSettled, NEW l \in Loader
             PROVE
        /\ \A n \in Exclusive(l) :
              Pending(l) = {} => (connections[n] # None <=> n \in Names(last[l]))
        /\ \A n \in Exclusive(l) \cap Names(last[l]) :
              Pending(l) = {} => Equal(connections[n], last[l][n])
        /\ \A i \in Pending(l), n \in Exclusive(l) :
              IsFirst(l, i) /\ connections[n] # None =>
                  n \in PendingMsg(l, i).remove \cup Names(PendingMsg(l, i).insert)
        /\ \A i, j \in Pending(l) :
              Follows(l, j, i) =>
                  PendingMsg(l, i).remove =
                      Names(PendingMsg(l, j).insert) \ Names(PendingMsg(l, i).insert)
        /\ \A i \in Pending(l) : IsNewest(l, i) => PendingMsg(l, i).insert = last[l]
  BY DEF RemovalsMatchMap
<1>1. Chain(Pending(l), Msgs(l), connections, Exclusive(l), last[l])
  BY DEF Chained, ChainOf
<1>2. \A i \in Pending(l) : Msgs(l)[i] = PendingMsg(l, i)
  BY DEF Msgs
<1>3. \A n \in Exclusive(l) :
         Pending(l) = {} => (connections[n] # None <=> n \in Names(last[l]))
  BY <1>1 DEF Chain, Settled
<1>4. \A i \in Pending(l), n \in Exclusive(l) :
         IsFirst(l, i) /\ connections[n] # None =>
             n \in PendingMsg(l, i).remove \cup Names(PendingMsg(l, i).insert)
  BY <1>1, <1>2 DEF Chain, FirstFits, IsFirst
<1>5. \A i, j \in Pending(l) :
         Follows(l, j, i) =>
             PendingMsg(l, i).remove =
                 Names(PendingMsg(l, j).insert) \ Names(PendingMsg(l, i).insert)
  BY <1>1, <1>2 DEF Chain, Linked, Follows
<1>6. \A i \in Pending(l) : IsNewest(l, i) => PendingMsg(l, i).insert = last[l]
  BY <1>1, <1>2 DEF Chain, EndsWith, IsNewest
<1>7. QED BY <1>3, <1>4, <1>5, <1>6 DEF DialSettled

\* The indices of the messages may change, if their order does not.
LEMMA ChainShift ==
  ASSUME NEW P \in SUBSET Nat, NEW P2 \in SUBSET Nat, NEW M, NEW M2, NEW C, NEW E, NEW t,
         NEW f \in [P2 -> P],
         \A i, j \in P2 : i < j <=> f[i] < f[j],
         \A k \in P : \E i \in P2 : f[i] = k,
         \A i \in P2 : M2[i] = M[f[i]],
         Chain(P, M, C, E, t)
  PROVE  Chain(P2, M2, C, E, t)
<1>1. \A i, j \in P2 : i <= j <=> f[i] <= f[j]
  <2> SUFFICES ASSUME NEW i \in P2, NEW j \in P2 PROVE i <= j <=> f[i] <= f[j]
    OBVIOUS
  <2>1. f[i] \in Nat /\ f[j] \in Nat /\ i \in Nat /\ j \in Nat OBVIOUS
  <2>2. j < i <=> f[j] < f[i] OBVIOUS
  <2>3. QED BY <2>1, <2>2
<1>2. Settled(P2, C, E, t)
  <2>1. P2 = {} => P = {} OBVIOUS
  <2>2. QED BY <2>1 DEF Chain, Settled
<1>3. FirstFits(P2, M2, C, E)
  <2> SUFFICES ASSUME NEW i \in P2, \A j \in P2 : i <= j, NEW n \in E, C[n] # None
               PROVE  n \in M2[i].remove \cup Names(M2[i].insert)
    BY DEF FirstFits
  <2>1. \A k \in P : f[i] <= k BY <1>1
  <2>2. QED BY <2>1 DEF Chain, FirstFits
<1>4. Linked(P2, M2)
  <2> SUFFICES ASSUME NEW i \in P2, NEW j \in P2, j < i,
                      \A k \in P2 : k <= j \/ i <= k
               PROVE  M2[i].remove = Names(M2[j].insert) \ Names(M2[i].insert)
    BY DEF Linked
  <2>0. \A k \in P : k <= f[j] \/ f[i] <= k
    <3> SUFFICES ASSUME NEW k \in P PROVE k <= f[j] \/ f[i] <= k
      OBVIOUS
    <3>1. PICK x \in P2 : f[x] = k OBVIOUS
    <3>2. x <= j \/ i <= x OBVIOUS
    <3>3. QED BY <1>1, <3>1, <3>2
  <2>1. /\ f[i] \in P /\ f[j] \in P /\ f[j] < f[i]
        /\ \A k \in P : k <= f[j] \/ f[i] <= k
    BY <2>0
  <2>2. M[f[i]].remove = Names(M[f[j]].insert) \ Names(M[f[i]].insert)
    BY <2>1 DEF Chain, Linked
  <2>3. M2[i] = M[f[i]] /\ M2[j] = M[f[j]] OBVIOUS
  <2>4. QED BY <2>2, <2>3
<1>5. EndsWith(P2, M2, t)
  <2> SUFFICES ASSUME NEW i \in P2, \A j \in P2 : j <= i
               PROVE  M2[i].insert = t
    BY DEF EndsWith
  <2>1. f[i] \in P /\ \A k \in P : k <= f[i]
    <3>1. f[i] \in P OBVIOUS
    <3>2. ASSUME NEW k \in P PROVE k <= f[i]
      <4>1. PICK x \in P2 : f[x] = k OBVIOUS
      <4>2. QED BY <1>1, <4>1
    <3>3. QED BY <3>1, <3>2
  <2>2. M[f[i]].insert = t BY <2>1 DEF Chain, EndsWith
  <2>3. QED BY <2>2
<1>6. QED BY <1>2, <1>3, <1>4, <1>5 DEF Chain

\* A new last message starts where the one before it ends.
LEMMA ChainAdd ==
  ASSUME NEW P \in SUBSET Nat, NEW i0 \in Nat, \A i \in P : i < i0, NEW M, NEW M2,
         NEW C, NEW E, NEW t, NEW t2,
         \A i \in P : M2[i] = M[i],
         M2[i0].remove = Names(t) \ Names(t2), M2[i0].insert = t2,
         Chain(P, M, C, E, t)
  PROVE  Chain(P \cup {i0}, M2, C, E, t2)
<1> DEFINE Q == P \cup {i0}
<1>1. Settled(Q, C, E, t2) BY DEF Settled
<1>2. FirstFits(Q, M2, C, E)
  <2> SUFFICES ASSUME NEW i \in Q, \A j \in Q : i <= j, NEW n \in E, C[n] # None
               PROVE  n \in M2[i].remove \cup Names(M2[i].insert)
    BY DEF FirstFits
  <2>1. CASE i \in P BY <2>1 DEF Chain, FirstFits
  <2>2. CASE i = i0
    <3>1. P = {} BY <2>2
    <3>2. QED BY <2>2, <3>1 DEF Chain, Settled
  <2>3. QED BY <2>1, <2>2
<1>3. Linked(Q, M2)
  <2> SUFFICES ASSUME NEW i \in Q, NEW j \in Q, j < i,
                      \A k \in Q : k <= j \/ i <= k
               PROVE  M2[i].remove = Names(M2[j].insert) \ Names(M2[i].insert)
    BY DEF Linked
  <2>1. j \in P BY DEF Q
  <2>2. CASE i \in P BY <2>1, <2>2 DEF Chain, Linked
  <2>3. CASE i = i0
    <3>1. \A k \in P : k <= j BY <2>3
    <3>2. M[j].insert = t BY <2>1, <3>1 DEF Chain, EndsWith
    <3>3. QED BY <2>1, <2>3, <3>2
  <2>4. QED BY <2>2, <2>3
<1>4. EndsWith(Q, M2, t2)
  <2> SUFFICES ASSUME NEW i \in Q, \A j \in Q : j <= i PROVE M2[i].insert = t2
    BY DEF EndsWith
  <2>1. i = i0 OBVIOUS
  <2>2. QED BY <2>1
<1>5. QED BY <1>1, <1>2, <1>3, <1>4 DEF Chain

\* The first message has been handled: the map has what it says, and so the next one
\* fits.
LEMMA ChainTake ==
  ASSUME NEW P \in SUBSET Nat, NEW i0 \in P, \A i \in P : i0 <= i, NEW M,
         NEW C, NEW C2, NEW E, NEW t,
         \A n \in E : C2[n] # None <=>
            n \in Names(M[i0].insert) \/ (C[n] # None /\ n \notin M[i0].remove),
         Chain(P, M, C, E, t)
  PROVE  Chain(P \ {i0}, M, C2, E, t)
<1> DEFINE Q == P \ {i0}
<1>1. \A n \in E : C2[n] # None <=> n \in Names(M[i0].insert)
  BY DEF Chain, FirstFits
<1>2. Settled(Q, C2, E, t)
  <2> SUFFICES ASSUME Q = {} PROVE \A n \in E : C2[n] # None <=> n \in Names(t)
    BY DEF Settled
  <2>1. \A j \in P : j <= i0 OBVIOUS
  <2>2. M[i0].insert = t BY <2>1 DEF Chain, EndsWith
  <2>3. QED BY <1>1, <2>2
<1>3. FirstFits(Q, M, C2, E)
  <2> SUFFICES ASSUME NEW i \in Q, \A j \in Q : i <= j, NEW n \in E, C2[n] # None
               PROVE  n \in M[i].remove \cup Names(M[i].insert)
    BY DEF FirstFits
  <2>1. i0 < i /\ \A k \in P : k <= i0 \/ i <= k OBVIOUS
  <2>2. M[i].remove = Names(M[i0].insert) \ Names(M[i].insert)
    BY <2>1 DEF Chain, Linked
  <2>3. QED BY <1>1, <2>2
<1>4. Linked(Q, M)
  <2> SUFFICES ASSUME NEW i \in Q, NEW j \in Q, j < i,
                      \A k \in Q : k <= j \/ i <= k
               PROVE  M[i].remove = Names(M[j].insert) \ Names(M[i].insert)
    BY DEF Linked
  <2>1. \A k \in P : k <= j \/ i <= k OBVIOUS
  <2>2. QED BY <2>1 DEF Chain, Linked
<1>5. EndsWith(Q, M, t)
  <2> SUFFICES ASSUME NEW i \in Q, \A j \in Q : j <= i PROVE M[i].insert = t
    BY DEF EndsWith
  <2>1. \A j \in P : j <= i OBVIOUS
  <2>2. QED BY <2>1 DEF Chain, EndsWith
<1>6. QED BY <1>2, <1>3, <1>4, <1>5 DEF Chain

\* Only the messages of the chain matter.
LEMMA ChainSame ==
  ASSUME NEW P \in SUBSET Nat, NEW M, NEW M2, NEW C, NEW C2, NEW E, NEW t,
         \A i \in P : M2[i] = M[i],
         \A n \in E : C2[n] # None <=> C[n] # None,
         Chain(P, M, C, E, t)
  PROVE  Chain(P, M2, C2, E, t)
<1>1. Settled(P, C2, E, t) BY DEF Chain, Settled
<1>2. FirstFits(P, M2, C2, E) BY DEF Chain, FirstFits
<1>3. Linked(P, M2) BY DEF Chain, Linked
<1>4. EndsWith(P, M2, t) BY DEF Chain, EndsWith
<1>5. QED BY <1>1, <1>2, <1>3, <1>4 DEF Chain

-----------------------------------------------------------------------------
(* Messages and configurations. *)

\* The names of a configuration are those of its loader.
LEMMA ConfigurationNames ==
  ASSUME NEW l \in Loader, NEW c \in Configuration(l)
  PROVE  /\ c \in [Name -> Target \cup {None}]
         /\ Names(c) = {n \in Name : c[n] # None}
         /\ Names(c) \subseteq NamesOf[l]
<1>1. c \in [Name -> Target \cup {None}] /\ \A n \in Name \ NamesOf[l] : c[n] = None
  BY DEF Configuration
<1>2. c \notin {Never, Broken} BY ValueAssumption
<1>3. QED BY <1>1, <1>2 DEF Names

\* The indices of what is under way are numbers, and what a loader holds is the last.
LEMMA PendingFacts ==
  ASSUME TypeOK, NEW l \in Loader
  PROVE  /\ Pending(l) \in SUBSET Nat
         /\ DOMAIN chan = 1 .. Len(chan) /\ Len(chan) \in Nat
         /\ \A i \in Pending(l) : i >= 1 /\ i <= Len(chan) + 1
         /\ \A i \in Pending(l) : i \in 1 .. Len(chan) => chan[i].from = l
         /\ \A i \in 1 .. Len(chan) : i \in Pending(l) <=> chan[i].from = l
         /\ Len(chan) + 1 \in Pending(l) <=> pc[l] = "send"
<1>1. DOMAIN chan = 1 .. Len(chan) /\ Len(chan) \in Nat BY DEF TypeOK
<1>2. QED BY <1>1 DEF Pending

\* What a step leaves alone.
LEMMA PendingKept ==
  ASSUME NEW l \in Loader, chan' = chan, held'[l] = held[l],
         pc'[l] = "send" <=> pc[l] = "send"
  PROVE  /\ Pending(l)' = Pending(l)
         /\ \A i \in Pending(l) : PendingMsg(l, i)' = PendingMsg(l, i)
BY DEF Pending, PendingMsg

LEMMA LoaderKept ==
  ASSUME TypeOK, OwnNames, Chained, NEW l \in Loader, chan' = chan, held'[l] = held[l],
         pc'[l] = "send" <=> pc[l] = "send", last'[l] = last[l],
         connections' = connections
  PROVE  /\ \A i \in Pending(l)' : /\ PendingMsg(l, i)' \in Message
                                   /\ PendingMsg(l, i)'.insert \in Configuration(l)
                                   /\ PendingMsg(l, i)'.remove \subseteq NamesOf[l]
         /\ KeepsChain(l)
<1>1. Pending(l)' = Pending(l) /\ \A i \in Pending(l) : PendingMsg(l, i)' = PendingMsg(l, i)
  BY PendingKept
<1>2. Msgs(l)' = Msgs(l) BY <1>1 DEF Msgs
<1>3. QED BY <1>1, <1>2 DEF OwnNames, KeepsChain, ChainOf

\* A loader that makes a message adds it at the end.
LEMMA GetStep ==
  ASSUME TypeOK, OwnNames, Chained, NEW l \in Loader, GetConfiguration(l)
  PROVE  OwnNames' /\ \A k \in Loader : KeepsChain(k)
<1> DEFINE m == [from |-> l, remove |-> Names(last[l]) \ Names(source[l]),
                 insert |-> source[l]]
           i0 == Len(chan) + 1
<1>1. /\ pc[l] = "read" /\ source[l] \in Configuration(l) /\ chan' = chan
      /\ held' = [held EXCEPT ![l] = m] /\ last' = [last EXCEPT ![l] = source[l]]
      /\ pc' = [pc EXCEPT ![l] = "send"] /\ connections' = connections
  BY DEF GetConfiguration, TypeOK, Sources
<1>2. Names(last[l]) \subseteq NamesOf[l] /\ Names(last[l]) \subseteq Name
  <2>1. CASE last[l] = Never BY <2>1 DEF Names
  <2>2. CASE last[l] \in Configuration(l) BY <2>2, ConfigurationNames
  <2>3. QED BY <2>1, <2>2 DEF TypeOK
<1>3. m \in Message BY <1>1, <1>2, ConfigurationNames DEF Message
<1>4. ASSUME NEW k \in Loader \ {l}
      PROVE  /\ \A i \in Pending(k)' : /\ PendingMsg(k, i)' \in Message
                                       /\ PendingMsg(k, i)'.insert \in Configuration(k)
                                       /\ PendingMsg(k, i)'.remove \subseteq NamesOf[k]
             /\ KeepsChain(k)
  BY <1>1, LoaderKept DEF TypeOK
<1>5. /\ Pending(l)' = Pending(l) \cup {i0}
      /\ PendingMsg(l, i0)' = m
      /\ \A i \in Pending(l) : i < i0 /\ PendingMsg(l, i)' = PendingMsg(l, i)
  <2>1. /\ DOMAIN chan = 1 .. Len(chan) /\ Len(chan) \in Nat
        /\ held'[l] = m /\ pc'[l] = "send"
    BY <1>1 DEF TypeOK
  <2>2. QED BY <1>1, <2>1 DEF Pending, PendingMsg
<1>6. \A i \in Pending(l)' : /\ PendingMsg(l, i)' \in Message
                             /\ PendingMsg(l, i)'.insert \in Configuration(l)
                             /\ PendingMsg(l, i)'.remove \subseteq NamesOf[l]
  BY <1>1, <1>2, <1>3, <1>5 DEF OwnNames
<1>7. KeepsChain(l)
  <2> SUFFICES ASSUME NEW E \in SUBSET Name, ChainOf(l, E) PROVE ChainOf(l, E)'
    BY DEF KeepsChain
  <2>1. /\ \A i \in Pending(l) : Msgs(l)'[i] = Msgs(l)[i]
        /\ Msgs(l)'[i0] = m
    <3>1. Msgs(l)' = [i \in Pending(l)' |-> PendingMsg(l, i)'] BY DEF Msgs
    <3>2. Msgs(l) = [i \in Pending(l) |-> PendingMsg(l, i)] BY DEF Msgs
    <3>3. i0 \in Pending(l)' /\ \A i \in Pending(l) : i \in Pending(l)' BY <1>5
    <3>4. /\ PendingMsg(l, i0)' = m
          /\ \A i \in Pending(l) : PendingMsg(l, i)' = PendingMsg(l, i)
      BY <1>5
    <3>5. Msgs(l)'[i0] = m
      <4>1. i0' = i0 BY <1>1
      <4> HIDE DEF i0, m
      <4>2. QED BY <3>1, <3>3, <3>4, <4>1
    <3> HIDE DEF i0, m
    <3>6. ASSUME NEW i \in Pending(l) PROVE Msgs(l)'[i] = Msgs(l)[i]
      BY <3>1, <3>2, <3>3, <3>4
    <3>7. QED BY <3>5, <3>6
  <2>2. Pending(l) \in SUBSET Nat /\ i0 \in Nat
    <3>1. Pending(l) \in SUBSET Nat BY PendingFacts
    <3>2. Len(chan) \in Nat BY DEF TypeOK
    <3>3. QED BY <3>1, <3>2
  <2>3. Chain(Pending(l), Msgs(l), connections, E, last[l])
    BY DEF ChainOf
  <2>4. m.remove = Names(last[l]) \ Names(source[l]) /\ m.insert = source[l]
    OBVIOUS
  <2> HIDE DEF i0, m
  <2>5. Chain(Pending(l) \cup {i0}, Msgs(l)', connections, E, source[l])
    BY <1>5, <2>1, <2>2, <2>3, <2>4, ChainAdd
  <2>6. last'[l] = source[l] BY <1>1 DEF TypeOK
  <2>7. QED BY <1>1, <1>5, <2>5, <2>6 DEF ChainOf
<1>8. QED BY <1>4, <1>6, <1>7 DEF OwnNames

\* A loader that sends its message keeps its place; the others that wait move up by one.
LEMMA SendStep ==
  ASSUME TypeOK, OwnNames, Chained, NEW l \in Loader, SendConfiguration(l)
  PROVE  OwnNames' /\ \A k \in Loader : KeepsChain(k)
<1>1. /\ pc[l] = "send" /\ chan' = Append(chan, held[l]) /\ last' = last
      /\ held' = [held EXCEPT ![l] = Never] /\ pc' = [pc EXCEPT ![l] = "read"]
      /\ connections' = connections /\ held[l] \in Message /\ held[l].from = l
  BY DEF SendConfiguration, TypeOK
<1>2. /\ Len(chan) \in Nat /\ DOMAIN chan = 1 .. Len(chan)
      /\ DOMAIN chan' = 1 .. Len(chan) + 1 /\ Len(chan') = Len(chan) + 1
      /\ chan'[Len(chan) + 1] = held[l]
      /\ \A i \in 1 .. Len(chan) : chan'[i] = chan[i]
  BY <1>1 DEF TypeOK
<1>3. ASSUME NEW k \in Loader, NEW E \in SUBSET Name, ChainOf(k, E)
      PROVE  /\ \A i \in Pending(k)' : /\ PendingMsg(k, i)' \in Message
                                       /\ PendingMsg(k, i)'.insert \in Configuration(k)
                                       /\ PendingMsg(k, i)'.remove \subseteq NamesOf[k]
             /\ ChainOf(k, E)'
  <2>1. Chain(Pending(k), Msgs(k), connections, E, last[k]) BY <1>3 DEF ChainOf
  <2>3. CASE k = l
    <3>1. pc'[l] = "read" BY <1>1 DEF TypeOK
    <3>2. Pending(l)' = Pending(l)
      BY <1>1, <1>2, <3>1 DEF Pending
    <3>3. \A i \in Pending(l) : PendingMsg(l, i)' = PendingMsg(l, i)
      BY <1>1, <1>2 DEF Pending, PendingMsg
    <3>4. Msgs(l)' = Msgs(l) BY <3>2, <3>3 DEF Msgs
    <3>5. QED BY <1>1, <2>1, <2>3, <3>2, <3>3, <3>4 DEF OwnNames, ChainOf
  <2>4. CASE k # l
    <3> DEFINE f == [i \in Pending(k)' |-> IF i = Len(chan) + 2 THEN Len(chan) + 1 ELSE i]
    <3>1. pc'[k] = pc[k] /\ held'[k] = held[k] /\ last'[k] = last[k]
      BY <1>1, <2>4 DEF TypeOK
    <3>2. /\ Pending(k) \in SUBSET Nat
          /\ \A i \in Pending(k) : i >= 1 /\ i <= Len(chan) + 1
          /\ \A i \in 1 .. Len(chan) : i \in Pending(k) <=> chan[i].from = k
          /\ Len(chan) + 1 \in Pending(k) <=> pc[k] = "send"
      BY PendingFacts
    <3>3. Pending(k)' = {i \in 1 .. Len(chan) : chan[i].from = k}
                           \cup (IF pc[k] = "send" THEN {Len(chan) + 2} ELSE {})
      <4>1. {i \in 1 .. Len(chan) + 1 : chan'[i].from = k}
               = {i \in 1 .. Len(chan) : chan[i].from = k}
        BY <1>1, <1>2, <2>4
      <4>2. Len(chan') + 1 = Len(chan) + 2 BY <1>2
      <4>3. QED BY <1>2, <3>1, <4>1, <4>2 DEF Pending
    <3>4. \A i \in Pending(k)' :
             \/ i \in 1 .. Len(chan) /\ i \in Pending(k) /\ f[i] = i
             \/ i = Len(chan) + 2 /\ f[i] = Len(chan) + 1 /\ Len(chan) + 1 \in Pending(k)
      BY <1>2, <3>2, <3>3
    <3>5. f \in [Pending(k)' -> Pending(k)] BY <3>4
    <3>6. \A j \in Pending(k) : \E i \in Pending(k)' : f[i] = j
      <4> SUFFICES ASSUME NEW j \in Pending(k) PROVE \E i \in Pending(k)' : f[i] = j
        OBVIOUS
      <4>1. CASE j \in 1 .. Len(chan)
        <5>1. j \in Pending(k)' BY <3>2, <3>3, <4>1
        <5>2. f[j] = j BY <1>2, <4>1, <5>1
        <5>3. QED BY <5>1, <5>2
      <4>2. CASE j = Len(chan) + 1
        <5>1. Len(chan) + 2 \in Pending(k)' BY <3>2, <3>3, <4>2
        <5>2. f[Len(chan) + 2] = Len(chan) + 1 BY <5>1
        <5>3. QED BY <4>2, <5>1, <5>2
      <4>3. QED BY <1>2, <3>2, <4>1, <4>2
    <3>7. \A i, j \in Pending(k)' : i < j <=> f[i] < f[j] BY <1>2, <3>4
    <3>8. \A i \in Pending(k)' : PendingMsg(k, i)' = PendingMsg(k, f[i])
      BY <1>2, <3>1, <3>4 DEF PendingMsg
    <3>9. Pending(k)' \in SUBSET Nat BY <1>2, <3>3
    <3> HIDE DEF f
    <3>10. \A i \in Pending(k)' : Msgs(k)'[i] = Msgs(k)[f[i]]
      BY <3>5, <3>8 DEF Msgs
    <3>2a. Pending(k) \in SUBSET Nat BY <3>2
    <3>11. Chain(Pending(k)', Msgs(k)', connections, E, last[k])
      BY <2>1, <3>2a, <3>5, <3>6, <3>7, <3>9, <3>10, ChainShift
    <3>12. \A i \in Pending(k)' : /\ PendingMsg(k, i)' \in Message
                                  /\ PendingMsg(k, i)'.insert \in Configuration(k)
                                  /\ PendingMsg(k, i)'.remove \subseteq NamesOf[k]
      <4> SUFFICES ASSUME NEW i \in Pending(k)'
                   PROVE  /\ PendingMsg(k, i)' \in Message
                          /\ PendingMsg(k, i)'.insert \in Configuration(k)
                          /\ PendingMsg(k, i)'.remove \subseteq NamesOf[k]
        OBVIOUS
      <4>1. f[i] \in Pending(k) BY <3>5
      <4>2. PendingMsg(k, i)' = PendingMsg(k, f[i]) BY <3>8
      <4>3. QED BY <4>1, <4>2 DEF OwnNames
    <3>13. ChainOf(k, E)'
      BY <1>1, <3>1, <3>11 DEF ChainOf
    <3>14. QED BY <3>12, <3>13
  <2>5. QED BY <2>3, <2>4
<1>4. OwnNames' BY <1>3, ExclusiveNames DEF OwnNames, Chained
<1>5. QED BY <1>3, <1>4 DEF KeepsChain

\* What the map has of a name, once a message has been handled.
LEMMA HandledNames ==
  ASSUME NEW msg \in Message, NEW n \in Name
  PROVE  Handled(msg)[n] # None <=>
            msg.insert[n] # None \/ (connections[n] # None /\ n \notin msg.remove)
<1>1. Handled(msg)[n] =
        IF \/ msg.insert[n] = None
           \/ /\ (IF n \in msg.remove THEN None ELSE connections[n]) # None
              /\ Equal(IF n \in msg.remove THEN None ELSE connections[n], msg.insert[n])
        THEN IF n \in msg.remove THEN None ELSE connections[n]
        ELSE msg.insert[n]
  BY DEF Handled
<1>2. QED BY <1>1

\* What is inserted has its address; what the message is not about stays as it is.
LEMMA HandledDial ==
  ASSUME NEW msg \in Message, NEW n \in Name
  PROVE  /\ msg.insert[n] # None => Equal(Handled(msg)[n], msg.insert[n])
         /\ msg.insert[n] = None /\ n \notin msg.remove => Handled(msg)[n] = connections[n]
BY DEF Handled, Equal

\* A message says nothing of what another loader alone has.
LEMMA OthersUntouched ==
  ASSUME TypeOK, OwnNames, ReloadTargets, NEW k \in Loader, k # chan[1].from,
         NEW n \in Exclusive(k)
  PROVE  connections'[n] = connections[n]
<1> DEFINE h == chan[1]
<1>1. /\ chan # <<>> /\ 1 \in 1 .. Len(chan) /\ h \in Message /\ connections' = Handled(h)
  BY DEF ReloadTargets, TypeOK
<1>2. n \in Name BY ExclusiveNames
<1>3. 1 \in Pending(h.from) /\ h.from \in Loader /\ PendingMsg(h.from, 1) = h
  BY <1>1, PendingFacts DEF Message, PendingMsg
<1>4. h.insert \in Configuration(h.from) /\ h.remove \subseteq NamesOf[h.from]
  BY <1>3 DEF OwnNames
<1>5. n \notin NamesOf[h.from] BY <1>3 DEF Exclusive
<1>6. h.insert[n] = None /\ n \notin h.remove BY <1>2, <1>4, <1>5 DEF Configuration
<1>7. QED BY <1>1, <1>2, <1>6, HandledDial

\* The manager takes the first message: all indices go down by one.  The chain of its
\* loader loses its first message; the other chains do not notice it, as far as they
\* are about other names.
LEMMA ReloadStep ==
  ASSUME TypeOK, OwnNames, Chained, ReloadTargets
  PROVE  /\ OwnNames'
         /\ \A k \in Loader, E \in SUBSET Name :
               /\ ChainOf(k, E)
               /\ k = chan[1].from
                  \/ \A n \in E : connections'[n] # None <=> connections[n] # None
               => ChainOf(k, E)'
<1> DEFINE h == chan[1]
<1>1. /\ chan # <<>> /\ chan' = Tail(chan) /\ connections' = Handled(h)
      /\ UNCHANGED <<pc, last, held>>
  BY DEF ReloadTargets, TypeOK
<1>2. /\ Len(chan) \in Nat /\ Len(chan) >= 1 /\ DOMAIN chan = 1 .. Len(chan)
      /\ DOMAIN chan' = 1 .. Len(chan) - 1 /\ Len(chan') = Len(chan) - 1
      /\ \A i \in 1 .. Len(chan) - 1 : chan'[i] = chan[i + 1]
      /\ h \in Message
  BY <1>1 DEF TypeOK
<1>3. ASSUME NEW k \in Loader, NEW E \in SUBSET Name, ChainOf(k, E),
             k = h.from \/ \A n \in E : connections'[n] # None <=> connections[n] # None
      PROVE  /\ \A i \in Pending(k)' : /\ PendingMsg(k, i)' \in Message
                                       /\ PendingMsg(k, i)'.insert \in Configuration(k)
                                       /\ PendingMsg(k, i)'.remove \subseteq NamesOf[k]
             /\ ChainOf(k, E)'
  <2> DEFINE P == Pending(k) \ {1}
             f == [i \in Pending(k)' |-> i + 1]
  <2>1. Chain(Pending(k), Msgs(k), connections, E, last[k]) BY <1>3 DEF ChainOf
  <2>3. /\ Pending(k) \in SUBSET Nat
        /\ \A i \in Pending(k) : i >= 1 /\ i <= Len(chan) + 1
        /\ \A i \in 1 .. Len(chan) : i \in Pending(k) <=> chan[i].from = k
        /\ Len(chan) + 1 \in Pending(k) <=> pc[k] = "send"
    BY PendingFacts
  <2>4. /\ \A i \in 1 .. Len(chan) - 1 : i \in Pending(k)' <=> chan[i + 1].from = k
        /\ \A i \in Pending(k)' : i \in 1 .. Len(chan)
        /\ Len(chan) \in Pending(k)' <=> pc[k] = "send"
    <3>1. pc'[k] = pc[k] /\ Len(chan') + 1 = Len(chan) BY <1>1, <1>2
    <3>2. Pending(k)' = {i \in 1 .. Len(chan) - 1 : chan'[i].from = k}
                           \cup (IF pc[k] = "send" THEN {Len(chan)} ELSE {})
      BY <1>2, <3>1 DEF Pending
    <3>3. Len(chan) \in Nat /\ Len(chan) >= 1 BY <1>2
    <3>4. ASSUME NEW i \in 1 .. Len(chan) - 1
          PROVE  i \in Pending(k)' <=> chan[i + 1].from = k
      <4>1. chan'[i] = chan[i + 1] BY <1>2
      <4>2. i # Len(chan) BY <3>3
      <4>3. QED BY <3>2, <4>1, <4>2
    <3>5. \A i \in Pending(k)' : i \in 1 .. Len(chan) BY <3>2, <3>3
    <3>6. Len(chan) \in Pending(k)' <=> pc[k] = "send" BY <3>2, <3>3
    <3>7. QED BY <3>4, <3>5, <3>6
  <2>5. \A i \in Pending(k)' : i \in Nat /\ f[i] = i + 1 /\ i + 1 \in P
    <3> SUFFICES ASSUME NEW i \in Pending(k)'
                 PROVE  i \in Nat /\ f[i] = i + 1 /\ i + 1 \in P
      OBVIOUS
    <3>0. f[i] = i + 1 OBVIOUS
    <3> HIDE DEF f
    <3>1. i \in 1 .. Len(chan) BY <2>4
    <3>2. CASE i = Len(chan) BY <1>2, <2>3, <2>4, <3>0, <3>2
    <3>3. CASE i # Len(chan)
      <4>1. i \in 1 .. Len(chan) - 1 /\ i + 1 \in 1 .. Len(chan) /\ i \in Nat /\ i + 1 # 1
        <5>1. Len(chan) \in Nat BY <1>2
        <5>2. QED BY <3>1, <3>3, <5>1
      <4>2. chan[i + 1].from = k BY <2>4, <4>1
      <4>3. i + 1 \in Pending(k) BY <2>3, <4>1, <4>2
      <4>4. QED BY <3>0, <4>1, <4>3
    <3>4. QED BY <3>2, <3>3
  <2>6. f \in [Pending(k)' -> P] BY <2>5
  <2>7. \A j \in P : \E i \in Pending(k)' : f[i] = j
    <3> SUFFICES ASSUME NEW j \in P PROVE j - 1 \in Pending(k)' /\ f[j - 1] = j
      OBVIOUS
    <3>1. j \in Nat /\ j >= 2 /\ j <= Len(chan) + 1 BY <1>2, <2>3
    <3>2. CASE j = Len(chan) + 1
      <4>1. pc[k] = "send" BY <2>3, <3>2
      <4>2. j - 1 = Len(chan) BY <1>2, <3>2
      <4>3. j - 1 \in Pending(k)' BY <2>4, <4>1, <4>2
      <4>4. QED BY <3>1, <4>3
    <3>3. CASE j # Len(chan) + 1
      <4>1. j \in 1 .. Len(chan) /\ j - 1 \in 1 .. Len(chan) - 1 /\ (j - 1) + 1 = j
        BY <1>2, <3>1, <3>3
      <4>2. chan[j].from = k BY <2>3, <4>1
      <4>3. j - 1 \in Pending(k)' BY <2>4, <4>1, <4>2
      <4>4. QED BY <3>1, <4>3
    <3>4. QED BY <3>2, <3>3
  <2>8. \A i, j \in Pending(k)' : i < j <=> f[i] < f[j] BY <2>5
  <2>9. \A i \in Pending(k)' : PendingMsg(k, i)' = PendingMsg(k, f[i])
    <3> SUFFICES ASSUME NEW i \in Pending(k)' PROVE PendingMsg(k, i)' = PendingMsg(k, i + 1)
      BY <2>5
    <3>1. i \in 1 .. Len(chan) BY <2>4
    <3>2. i \in 1 .. Len(chan) - 1 <=> i + 1 \in 1 .. Len(chan) BY <1>2, <3>1
    <3>3. i \in 1 .. Len(chan) - 1 => chan'[i] = chan[i + 1] BY <1>2
    <3>4. QED BY <1>1, <1>2, <3>2, <3>3 DEF PendingMsg
  <2>10. Chain(P, Msgs(k), connections', E, last[k])
    <3>1. CASE h.from = k
      <4>1. 1 \in Pending(k) /\ \A i \in Pending(k) : 1 <= i
        BY <1>2, <2>3, <3>1
      <4>2. Msgs(k)[1] = h BY <1>2, <4>1 DEF Msgs, PendingMsg
      <4>3. h.insert \in Configuration(k)
        BY <4>1, <1>2 DEF OwnNames, PendingMsg
      <4>4. \A n \in E : connections'[n] # None <=>
               n \in Names(h.insert) \/ (connections[n] # None /\ n \notin h.remove)
        BY <1>1, <1>2, <4>3, HandledNames, ConfigurationNames
      <4> HIDE DEF h
      <4>5. QED BY <2>1, <2>3, <4>1, <4>2, <4>4, ChainTake
    <3>2. CASE h.from # k
      <4>1. P = Pending(k) BY <1>2, <2>3, <3>2
      <4>2. QED BY <1>3, <2>1, <2>3, <3>2, <4>1, ChainSame
    <3>3. QED BY <3>1, <3>2
  <2>11. Pending(k)' \in SUBSET Nat /\ P \in SUBSET Nat BY <2>3, <2>5
  <2> HIDE DEF f
  <2>12. \A i \in Pending(k)' : Msgs(k)'[i] = Msgs(k)[f[i]]
    BY <2>6, <2>9 DEF Msgs
  <2> HIDE DEF P
  <2>13. Chain(Pending(k)', Msgs(k)', connections', E, last[k])
    BY <2>6, <2>7, <2>8, <2>10, <2>11, <2>12, ChainShift
  <2>14. \A i \in Pending(k)' :
            PendingMsg(k, i)' = PendingMsg(k, f[i]) /\ f[i] \in Pending(k)
    BY <2>6, <2>9 DEF P
  <2>15. QED BY <1>1, <2>13, <2>14 DEF OwnNames, ChainOf
<1>4. ASSUME NEW k \in Loader, k # h.from, NEW n \in Exclusive(k)
      PROVE  connections'[n] # None <=> connections[n] # None
  <2>1. connections'[n] = connections[n] BY <1>1, <1>4, OthersUntouched
  <2>2. QED BY <2>1
<1>5. OwnNames'
  <2>1. \A k \in Loader : ChainOf(k, Exclusive(k)) BY DEF Chained
  <2>2. QED BY <1>3, <1>4, <2>1, ExclusiveNames DEF OwnNames
<1>6. QED BY <1>3, <1>5

-----------------------------------------------------------------------------
\* Each action keeps the types.
LEMMA TypeStep ==
  TypeOK /\ OwnNames /\ [Next]_vars => TypeOK'
<1> SUFFICES ASSUME TypeOK, OwnNames, [Next]_vars PROVE TypeOK'
  OBVIOUS
<1>1. ASSUME NEW l \in Loader, Edit(l) PROVE TypeOK'
  <2>1. PICK c \in Sources(l) : source' = [source EXCEPT ![l] = c] BY <1>1 DEF Edit
  <2>2. c \in AnySource BY DEF AnySource
  <2>3. source' \in [Loader -> AnySource] /\ \A k \in Loader : source'[k] \in Sources(k)
    BY <2>1, <2>2 DEF TypeOK
  <2>4. edits' \in 0 .. MaxEdits BY <1>1, SizeAssumption DEF Edit, TypeOK
  <2>5. QED BY <1>1, <2>3, <2>4 DEF Edit, TypeOK
<1>2. ASSUME NEW l \in Loader, StartLoader(l) PROVE TypeOK'
  BY <1>2 DEF StartLoader, TypeOK
<1>3. ASSUME NEW l \in Loader, GetConfiguration(l) PROVE TypeOK'
  <2>1. source[l] \in Configuration(l) /\ source[l] \in AnySource
    BY <1>3 DEF GetConfiguration, TypeOK, Sources
  <2>2. last' \in [Loader -> AnySource \cup {Never}]
        /\ \A k \in Loader : last'[k] \in Configuration(k) \cup {Never}
    BY <1>3, <2>1 DEF GetConfiguration, TypeOK
  <2>3. Names(last[l]) \subseteq Name BY DEF Names
  <2>4. [from |-> l, remove |-> Names(last[l]) \ Names(source[l]), insert |-> source[l]]
           \in Message
    BY <2>1, <2>3, ConfigurationNames DEF Message
  <2>5. held' \in [Loader -> Message \cup {Never}]
        /\ held'[l] \in Message /\ held'[l].from = l
        /\ \A k \in Loader \ {l} : held'[k] = held[k] /\ pc'[k] = pc[k]
    BY <1>3, <2>4 DEF GetConfiguration, TypeOK
  <2>6. pc' \in [Loader -> {"start", "read", "send"}]
    BY <1>3 DEF GetConfiguration, TypeOK
  <2>7. QED BY <1>3, <2>2, <2>5, <2>6 DEF GetConfiguration, TypeOK
<1>4. ASSUME NEW l \in Loader, SendConfiguration(l) PROVE TypeOK'
  <2>1. held[l] \in Message BY <1>4 DEF SendConfiguration, TypeOK
  <2>2. chan' \in Seq(Message) /\ Len(chan') <= ChanSize
    BY <1>4, <2>1, SizeAssumption DEF SendConfiguration, TypeOK
  <2>3. pc' \in [Loader -> {"start", "read", "send"}]
        /\ held' \in [Loader -> Message \cup {Never}]
    BY <1>4 DEF SendConfiguration, TypeOK
  <2>4. \A k \in Loader : pc'[k] = "send" => held'[k] = held[k] /\ pc[k] = "send"
    BY <1>4 DEF SendConfiguration, TypeOK
  <2>5. QED BY <1>4, <2>2, <2>3, <2>4 DEF SendConfiguration, TypeOK
<1>5. CASE ReloadTargets
  <2>1. chan' \in Seq(Message) /\ Len(chan') <= ChanSize /\ Head(chan) \in Message
    BY <1>5, SizeAssumption DEF ReloadTargets, TypeOK
  <2>2. Handled(Head(chan)) \in [Name -> Target \cup {None}]
    BY <2>1 DEF Handled, Message, TypeOK
  <2>3. QED BY <1>5, <2>1, <2>2 DEF ReloadTargets, TypeOK
<1>6. CASE UNCHANGED vars BY <1>6 DEF vars, TypeOK
<1>7. QED BY <1>1, <1>2, <1>3, <1>4, <1>5, <1>6 DEF Next, WatchConfiguration

\* Each action that leaves the map alone keeps every chain.
LEMMA MapKept ==
  ASSUME TypeOK, OwnNames, Chained, [Next]_vars, ~ReloadTargets
  PROVE  OwnNames' /\ connections' = connections /\ \A k \in Loader : KeepsChain(k)
<1>1. CASE \/ \E l \in Loader : Edit(l) \/ StartLoader(l)
           \/ UNCHANGED vars
  <2>1. /\ UNCHANGED <<chan, held, last, connections>>
        /\ \A l \in Loader : pc'[l] = "send" <=> pc[l] = "send"
    BY <1>1 DEF Edit, StartLoader, vars, TypeOK
  <2>2. QED BY <2>1, LoaderKept DEF OwnNames
<1>2. ASSUME NEW l \in Loader, WatchConfiguration(l) PROVE connections' = connections
  BY <1>2 DEF WatchConfiguration, GetConfiguration, SendConfiguration
<1>3. ASSUME NEW l \in Loader, WatchConfiguration(l)
      PROVE  OwnNames' /\ \A k \in Loader : KeepsChain(k)
  BY <1>3, GetStep, SendStep DEF WatchConfiguration
<1>4. QED BY <1>1, <1>2, <1>3 DEF Next

\* The chains of the loaders.
LEMMA ChainStep ==
  ASSUME TypeOK, OwnNames, Chained, [Next]_vars
  PROVE  OwnNames' /\ Chained'
<1>1. \A k \in Loader : Exclusive(k)' = Exclusive(k) /\ ChainOf(k, Exclusive(k))
  BY DEF Exclusive, Chained
<1>2. CASE ReloadTargets
  <2>1. ASSUME NEW k \in Loader PROVE ChainOf(k, Exclusive(k))'
    <3>1. \/ k = chan[1].from
          \/ \A n \in Exclusive(k) : connections'[n] # None <=> connections[n] # None
      BY <1>2, OthersUntouched
    <3>2. QED BY <1>1, <1>2, <3>1, ReloadStep, ExclusiveNames
  <2>2. QED BY <1>2, <2>1, ReloadStep DEF Chained
<1>3. CASE ~ReloadTargets
  <2>1. ASSUME NEW k \in Loader PROVE ChainOf(k, Exclusive(k))'
    BY <1>1, <1>3, MapKept, ExclusiveNames DEF KeepsChain
  <2>2. QED BY <1>3, <2>1, MapKept DEF Chained
<1>4. QED BY <1>2, <1>3

\* The loader that looks after a target does so until its removal has been handled;
\* whoever inserts it looks after it then.
LEMMA LookedAfterStep ==
  ASSUME TypeOK, OwnNames, Chained, LookedAfter, [Next]_vars
  PROVE  LookedAfter'
<1> SUFFICES ASSUME NEW n \in Name, connections'[n] # None
             PROVE  \E l \in Loader : ChainOf(l, {n})'
  BY DEF LookedAfter
<1>1. CASE ~ReloadTargets
  <2>1. PICK l \in Loader : ChainOf(l, {n}) BY <1>1, MapKept DEF LookedAfter
  <2>2. QED BY <1>1, <2>1, MapKept DEF KeepsChain
<1>2. CASE ReloadTargets
  <2> DEFINE h == chan[1]
  <2>0. 1 \in 1 .. Len(chan) /\ h \in Message /\ connections' = Handled(h)
    BY <1>2 DEF ReloadTargets, TypeOK
  <2>1. /\ 1 \in 1 .. Len(chan) /\ h \in Message /\ h.from \in Loader
        /\ connections' = Handled(h)
    <3> HIDE DEF h
    <3>1. QED BY <2>0 DEF Message
  <2>2. \/ h.insert[n] # None
        \/ connections[n] # None
    BY <2>1, HandledNames
  <2>3. CASE h.insert[n] # None
    <3>1. /\ 1 \in Pending(h.from) /\ \A i \in Pending(h.from) : 1 <= i
          /\ Pending(h.from) \subseteq Nat
      BY <2>1, PendingFacts
    <3>2. Msgs(h.from)[1] = h BY <2>1, <3>1 DEF Msgs, PendingMsg, TypeOK
    <3>3. h.insert \in Configuration(h.from) BY <2>1, <3>1 DEF OwnNames, PendingMsg, TypeOK
    <3>4. n \in Names(h.insert) BY <2>1, <2>3, <3>3, ConfigurationNames
    <3> HIDE DEF h
    <3>5. Settled(Pending(h.from), connections, {n}, last[h.from]) BY <3>1 DEF Settled
    <3>6. FirstFits(Pending(h.from), Msgs(h.from), connections, {n})
      <4> SUFFICES ASSUME NEW i \in Pending(h.from), \A j \in Pending(h.from) : i <= j
                   PROVE  n \in Names(Msgs(h.from)[i].insert)
        BY DEF FirstFits
      <4>1. i = 1 BY <3>1
      <4>2. QED BY <3>2, <3>4, <4>1
    <3>7. ChainOf(h.from, {n}) BY <2>1, <3>5, <3>6 DEF Chained, ChainOf, Chain
    <3>8. QED BY <1>2, <2>1, <3>7, ReloadStep DEF h
  <2>4. CASE connections[n] # None
    <3>1. PICK l \in Loader : ChainOf(l, {n}) BY <2>4 DEF LookedAfter
    <3>2. QED BY <1>2, <2>4, <3>1, ReloadStep
  <2>5. QED BY <2>2, <2>3, <2>4
<1>3. QED BY <1>1, <1>2

\* The last message about a target was made of what the loader remembers.
LEMMA DialStep ==
  ASSUME TypeOK, OwnNames, Chained, DialSettled, [Next]_vars
  PROVE  DialSettled'
<1> SUFFICES ASSUME NEW k \in Loader, NEW n \in Exclusive(k), n \in Names(last[k])',
                    Pending(k)' = {}
             PROVE  Equal(connections'[n], last'[k][n])
  <2>1. \A k \in Loader : Exclusive(k)' = Exclusive(k) BY DEF Exclusive
  <2>2. QED BY <2>1 DEF DialSettled, Equal
<1>1. n \in Name BY ExclusiveNames
<1>2. Len(chan) \in Nat /\ DOMAIN chan = 1 .. Len(chan) BY DEF TypeOK
<1>3. ASSUME Pending(k) = {}, last'[k] = last[k], connections'[n] = connections[n]
      PROVE  Equal(connections'[n], last'[k][n])
  BY <1>3 DEF DialSettled, Names
<1>4. pc'[k] # "send" BY DEF Pending
<1>5. CASE \/ \E l \in Loader : Edit(l) \/ StartLoader(l)
           \/ UNCHANGED vars
  <2>1. UNCHANGED <<chan, held, last, connections>> /\ (pc'[k] = "send" <=> pc[k] = "send")
    BY <1>5 DEF Edit, StartLoader, vars, TypeOK
  <2>2. QED BY <1>3, <2>1, PendingKept
<1>6. ASSUME NEW l \in Loader, GetConfiguration(l)
      PROVE  Equal(connections'[n], last'[k][n])
  <2>1. k # l BY <1>4, <1>6 DEF GetConfiguration, TypeOK
  <2>2. /\ UNCHANGED <<chan, connections>> /\ last'[k] = last[k] /\ held'[k] = held[k]
        /\ pc'[k] = pc[k]
    BY <1>6, <2>1 DEF GetConfiguration, TypeOK
  <2>3. QED BY <1>3, <2>2, PendingKept
<1>7. ASSUME NEW l \in Loader, SendConfiguration(l)
      PROVE  Equal(connections'[n], last'[k][n])
  <2>1. /\ chan' = Append(chan, held[l]) /\ held[l] \in Message /\ held[l].from = l
        /\ UNCHANGED <<last, connections>>
    BY <1>7 DEF SendConfiguration, TypeOK
  <2>2. /\ DOMAIN chan' = 1 .. Len(chan) + 1 /\ chan'[Len(chan) + 1] = held[l]
        /\ \A i \in 1 .. Len(chan) : chan'[i] = chan[i]
    BY <1>2, <2>1 DEF TypeOK
  <2>3. \A i \in 1 .. Len(chan) + 1 : chan'[i].from # k BY <2>2 DEF Pending
  <2>4. k # l BY <1>2, <2>1, <2>2, <2>3
  <2>5. pc'[k] = pc[k] BY <1>7, <2>4 DEF SendConfiguration, TypeOK
  <2>6. Pending(k) = {} BY <1>2, <1>4, <2>2, <2>3, <2>5 DEF Pending
  <2>7. QED BY <1>3, <2>1, <2>6
<1>8. CASE ReloadTargets
  <2> DEFINE h == chan[1]
  <2>1. /\ 1 \in 1 .. Len(chan) /\ h \in Message /\ connections' = Handled(h)
        /\ UNCHANGED <<pc, last>> /\ chan' = Tail(chan)
    BY <1>8 DEF ReloadTargets, TypeOK
  <2>2. /\ DOMAIN chan' = 1 .. Len(chan) - 1
        /\ \A i \in 1 .. Len(chan) - 1 : chan'[i] = chan[i + 1]
    BY <1>2, <2>1 DEF TypeOK
  <2>3. \A i \in 1 .. Len(chan) : i # 1 => chan[i].from # k
    <3> SUFFICES ASSUME NEW i \in 1 .. Len(chan), i # 1 PROVE chan[i].from # k
      OBVIOUS
    <3>1. i - 1 \in 1 .. Len(chan) - 1 /\ (i - 1) + 1 = i BY <1>2
    <3>2. chan'[i - 1] = chan[i] BY <2>2, <3>1
    <3>3. i - 1 \in DOMAIN chan' /\ i - 1 \notin Pending(k)' BY <2>2, <3>1
    <3>4. QED BY <3>2, <3>3 DEF Pending
  <2>4. CASE h.from = k
    <3>1. 1 \in Pending(k) /\ \A i \in Pending(k) : i <= 1
      BY <1>2, <1>4, <2>1, <2>3, <2>4 DEF Pending
    <3>2. Msgs(k)[1] = h BY <1>2, <2>1, <3>1 DEF Msgs, PendingMsg
    <3>3. h.insert = last[k] BY <3>1, <3>2 DEF Chained, ChainOf, Chain, EndsWith
    <3>4. h.insert[n] # None BY <2>1, <3>3 DEF Names
    <3>5. QED BY <1>1, <2>1, <3>3, <3>4, HandledDial
  <2>5. CASE h.from # k
    <3>1. Pending(k) = {} BY <1>2, <1>4, <2>1, <2>3, <2>5 DEF Pending
    <3>2. QED BY <1>3, <1>8, <2>1, <2>5, <3>1, OthersUntouched
  <2>6. QED BY <2>4, <2>5
<1>9. QED BY <1>5, <1>6, <1>7, <1>8 DEF Next, WatchConfiguration

\* Initially nothing has been read, and the map is empty.
LEMMA InitIInv == Init => IInv
<1> SUFFICES ASSUME Init PROVE IInv
  OBVIOUS
<1>1. TypeOK
  <2>1. chan \in Seq(Message) /\ Len(chan) <= ChanSize BY SizeAssumption DEF Init
  <2>2. edits \in 0 .. MaxEdits BY SizeAssumption DEF Init
  <2>3. QED BY <2>1, <2>2 DEF Init, TypeOK
<1>2. \A l \in Loader : Pending(l) = {} BY DEF Init, Pending
<1>3. OwnNames BY <1>2 DEF OwnNames
<1>4. \A l \in Loader : Settled({}, connections, Exclusive(l), last[l])
  BY NamesAssumption DEF Init, Settled, Names, Exclusive
<1>5. Chained
  BY <1>2, <1>4 DEF Chained, ChainOf, Chain, FirstFits, Linked, EndsWith
<1>6. LookedAfter BY DEF Init, LookedAfter
<1>7. DialSettled BY DEF Init, DialSettled, Names
<1>8. QED BY <1>1, <1>3, <1>5, <1>6, <1>7 DEF IInv

\* The strengthening is inductive: it holds in every reachable state.
THEOREM Invariant == Spec => []IInv
<1>1. IInv /\ [Next]_vars => IInv'
  BY TypeStep, ChainStep, LookedAfterStep, DialStep DEF IInv
<1>2. QED BY InitIInv, <1>1, PTL DEF Spec

\* The variables keep their types, and the channel its capacity.
THEOREM TypeCorrect == Spec => []TypeOK
<1>1. IInv => TypeOK BY DEF IInv
<1>2. QED BY Invariant, <1>1, PTL

\* The messages under way lead from what the map has to what the loader remembers
\* (json.go:77-101, simple.go:174-198, netbox.go:143-175, zookeeper.go:126-181).
THEOREM RemovalsSafe == Spec => []RemovalsMatchMap
<1>1. IInv => RemovalsMatchMap BY ChainedSuffices DEF IInv
<1>2. QED BY Invariant, <1>1, PTL

\* The map has no target that no loader looks after, although its loaders add and
\* remove names that they share (json.go:77-101, zookeeper.go:126-181).
THEOREM NoTargetAlone == Spec => []EveryTargetHasALoader
<1>1. IInv => EveryTargetHasALoader
  <2> SUFFICES ASSUME IInv, NEW n \in Name, connections[n] # None
               PROVE  \E l \in Loader : LooksAfter(l, n)
    BY DEF EveryTargetHasALoader
  <2>1. PICK l \in Loader : ChainOf(l, {n}) BY DEF IInv, LookedAfter
  <2>2. \A i \in Pending(l) : Msgs(l)[i] = PendingMsg(l, i) BY DEF Msgs
  <2>3. LooksAfter(l, n)
    BY <2>1, <2>2 DEF ChainOf, Chain, Settled, FirstFits, LooksAfter, IsFirst
  <2>4. QED BY <2>3
<1>2. QED BY Invariant, <1>1, PTL
=============================================================================
