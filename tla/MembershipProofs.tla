-------------------------- MODULE MembershipProofs --------------------------
(***************************************************************************)
(* The safety properties of Membership, for every number of gateways,      *)
(* every capacity of the channel and every number of faults.               *)
(***************************************************************************)
EXTENDS Membership, TLAPS

\* The bounds are numbers.
LEMMA Bounds ==
  /\ ChanSize \in Nat /\ ChanSize > 0 /\ MaxErrors \in Nat
  /\ MaxDisconnects \in Nat /\ MaxStarts \in Nat /\ MaxFaults \in Nat
BY BoundsAssumption

\* Nobody is connected, and nobody has registered, without a session.
SessionFirst ==
    \A g \in Gateway : conn[g] \/ reg[g] = "done" => sess[g] # "none"

\* Only a goroutine with errors left gets to make the path.
ErrorsLeft == \A g \in Gateway : loop[g] = "path" => errs[g] <= MaxErrors

\* The messages of q turn the members T of the map into the members S that the
\* callbacks know: about one member they alternate, the first of them changes what
\* is in T, and the last of them leaves what is in S.
Chain(q, T, S) ==
    /\ \A i \in 1 .. Len(q) :
          (\A j \in 1 .. Len(q) : j < i => q[j].member # q[i].member)
             => (q[i].op = "insert" <=> q[i].member \notin T)
    /\ \A i, j \in 1 .. Len(q) :
          /\ i < j /\ q[i].member = q[j].member
          /\ \A k \in 1 .. Len(q) : i < k /\ k < j => q[k].member # q[i].member
          => q[i].op # q[j].op
    /\ \A i \in 1 .. Len(q) :
          (\A j \in 1 .. Len(q) : i < j => q[j].member # q[i].member)
             => (q[i].op = "insert" <=> q[i].member \in S)
    /\ \A m \in Gateway :
          (\A i \in 1 .. Len(q) : q[i].member # m) => (m \in T <=> m \in S)

Chained == \A g \in Gateway : Chain(chan[g], targets[g], told[g])

IInv ==
    /\ TypeOK
    /\ WatchCoversList
    /\ WaitsForWatch
    /\ SessionFirst
    /\ RegisteredInSession
    /\ ErrorsLeft
    /\ Chained

-----------------------------------------------------------------------------
\* The empty channel.
LEMMA ChainEmpty == Chain(<<>>, {}, {})
BY DEF Chain

\* A message that changes what the callbacks know keeps the chain.
LEMMA ChainAppend ==
  ASSUME NEW q \in Seq(Message), NEW T, NEW S, Chain(q, T, S), NEW msg \in Message,
         NEW S2,
         msg.op = "insert" <=> msg.member \notin S,
         \A m \in Gateway : m # msg.member => (m \in S2 <=> m \in S),
         msg.op = "insert" <=> msg.member \in S2
  PROVE  Chain(Append(q, msg), T, S2)
<1> DEFINE r == Append(q, msg)
           n == Len(q) + 1
<1>1. /\ Len(q) \in Nat /\ Len(r) = n /\ r[n] = msg
      /\ \A i \in 1 .. Len(q) : r[i] = q[i] /\ q[i] \in Message
      /\ 1 .. Len(r) = (1 .. Len(q)) \cup {n}
      /\ \A i \in 1 .. Len(q) : i < n
  OBVIOUS
<1>2. /\ msg.member \in Gateway /\ msg.op \in {"insert", "remove"}
      /\ \A i \in 1 .. Len(q) :
            q[i].member \in Gateway /\ q[i].op \in {"insert", "remove"}
  BY <1>1 DEF Message
<1> HIDE DEF r, n
<1>3. ASSUME NEW i \in 1 .. Len(r),
             \A j \in 1 .. Len(r) : j < i => r[j].member # r[i].member
      PROVE  r[i].op = "insert" <=> r[i].member \notin T
  BY <1>1, <1>2, <1>3 DEF Chain
<1>4. ASSUME NEW i \in 1 .. Len(r), NEW j \in 1 .. Len(r), i < j,
             r[i].member = r[j].member,
             \A k \in 1 .. Len(r) : i < k /\ k < j => r[k].member # r[i].member
      PROVE  r[i].op # r[j].op
  BY <1>1, <1>2, <1>4 DEF Chain
<1>5. ASSUME NEW i \in 1 .. Len(r),
             \A j \in 1 .. Len(r) : i < j => r[j].member # r[i].member
      PROVE  r[i].op = "insert" <=> r[i].member \in S2
  BY <1>1, <1>2, <1>5 DEF Chain
<1>6. ASSUME NEW m \in Gateway, \A i \in 1 .. Len(r) : r[i].member # m
      PROVE  m \in T <=> m \in S2
  BY <1>1, <1>2, <1>6 DEF Chain
<1>7. QED BY <1>3, <1>4, <1>5, <1>6 DEF Chain, r

\* Taking the first message keeps the chain.
LEMMA ChainTail ==
  ASSUME NEW q \in Seq(Message), q # <<>>, NEW T, NEW S, Chain(q, T, S), NEW T2,
         \A m \in Gateway : m # Head(q).member => (m \in T2 <=> m \in T),
         Head(q).op = "insert" <=> Head(q).member \in T2
  PROVE  Chain(Tail(q), T2, S)
<1> DEFINE r == Tail(q)
<1>1. /\ Len(q) \in Nat /\ Len(q) >= 1 /\ Len(r) = Len(q) - 1
      /\ \A i \in 1 .. Len(r) : r[i] = q[i + 1] /\ i + 1 \in 1 .. Len(q)
      /\ Head(q) = q[1] /\ 1 \in 1 .. Len(q)
      /\ \A k \in 1 .. Len(q) : k # 1 => k - 1 \in 1 .. Len(r) /\ q[k] = r[k - 1]
      /\ \A i \in 1 .. Len(q) : q[i] \in Message
  OBVIOUS
<1>2. \A i \in 1 .. Len(q) : q[i].member \in Gateway /\ q[i].op \in {"insert", "remove"}
  BY <1>1 DEF Message
<1>3. Head(q).op = "insert" <=> Head(q).member \notin T
  BY <1>1 DEF Chain
<1> HIDE DEF r
<1>4. ASSUME NEW i \in 1 .. Len(r),
             \A j \in 1 .. Len(r) : j < i => r[j].member # r[i].member
      PROVE  r[i].op = "insert" <=> r[i].member \notin T2
  <2>1. ASSUME NEW k \in 1 .. Len(q), k < i + 1, k # 1
        PROVE  q[k].member # q[i + 1].member
    <3>1. k - 1 \in 1 .. Len(r) /\ q[k] = r[k - 1] /\ q[i + 1] = r[i] BY <1>1, <2>1
    <3>2. k - 1 < i BY <2>1
    <3>3. QED BY <1>4, <3>1, <3>2
  <2>2. i + 1 \in 1 .. Len(q) /\ 1 < i + 1 /\ r[i] = q[i + 1] BY <1>1
  <2>3. CASE q[1].member = q[i + 1].member
    <3>1. q[1].op # q[i + 1].op
      <4>1. \A k \in 1 .. Len(q) : 1 < k /\ k < i + 1 => q[k].member # q[1].member
        BY <2>1, <2>3
      <4>2. 1 \in 1 .. Len(q) BY <1>1
      <4>3. QED BY <2>2, <2>3, <4>1, <4>2 DEF Chain
    <3>2. q[1].op \in {"insert", "remove"} /\ q[i + 1].op \in {"insert", "remove"}
      BY <1>1, <1>2
    <3>3. QED BY <1>1, <2>2, <2>3, <3>1, <3>2
  <2>4. CASE q[1].member # q[i + 1].member
    <3>1. q[i + 1].op = "insert" <=> q[i + 1].member \notin T
      <4>1. \A k \in 1 .. Len(q) : k < i + 1 => q[k].member # q[i + 1].member
        BY <2>1, <2>4
      <4>2. QED BY <2>2, <4>1 DEF Chain
    <3>2. q[i + 1].member \in Gateway BY <1>2, <2>2
    <3>3. QED BY <1>1, <2>2, <2>4, <3>1, <3>2
  <2>5. QED BY <2>3, <2>4
<1>5. ASSUME NEW i \in 1 .. Len(r), NEW j \in 1 .. Len(r), i < j,
             r[i].member = r[j].member,
             \A k \in 1 .. Len(r) : i < k /\ k < j => r[k].member # r[i].member
      PROVE  r[i].op # r[j].op
  <2>1. ASSUME NEW k \in 1 .. Len(q), i + 1 < k, k < j + 1
        PROVE  q[k].member # q[i + 1].member
    <3>1. k # 1 /\ i < k - 1 /\ k - 1 < j BY <2>1
    <3>2. k - 1 \in 1 .. Len(r) /\ q[k] = r[k - 1] BY <1>1, <3>1
    <3>3. q[i + 1] = r[i] BY <1>1
    <3>4. r[k - 1].member # r[i].member BY <1>5, <3>1, <3>2
    <3>5. QED BY <3>2, <3>3, <3>4
  <2>2. /\ i + 1 \in 1 .. Len(q) /\ j + 1 \in 1 .. Len(q) /\ i + 1 < j + 1
        /\ r[i] = q[i + 1] /\ r[j] = q[j + 1]
    BY <1>1, <1>5
  <2>3. q[i + 1].member = q[j + 1].member BY <1>5, <2>2
  <2>4. QED BY <2>1, <2>2, <2>3 DEF Chain
<1>6. ASSUME NEW i \in 1 .. Len(r),
             \A j \in 1 .. Len(r) : i < j => r[j].member # r[i].member
      PROVE  r[i].op = "insert" <=> r[i].member \in S
  <2>1. \A k \in 1 .. Len(q) : i + 1 < k => q[k].member # q[i + 1].member
    BY <1>1, <1>6
  <2>2. i + 1 \in 1 .. Len(q) /\ r[i] = q[i + 1] BY <1>1
  <2>3. QED BY <2>1, <2>2 DEF Chain
<1>7. ASSUME NEW m \in Gateway, \A i \in 1 .. Len(r) : r[i].member # m
      PROVE  m \in T2 <=> m \in S
  <2>1. \A k \in 1 .. Len(q) : k # 1 => q[k].member # m BY <1>1, <1>7
  <2>2. CASE q[1].member = m
    <3>1. \A k \in 1 .. Len(q) : 1 < k => q[k].member # q[1].member BY <2>1, <2>2
    <3>2. 1 \in 1 .. Len(q) BY <1>1
    <3>3. q[1].op = "insert" <=> m \in S BY <2>2, <3>1, <3>2 DEF Chain
    <3>4. QED BY <1>1, <2>2, <3>3
  <2>3. CASE q[1].member # m
    <3>1. m \in T <=> m \in S BY <2>1, <2>3 DEF Chain
    <3>2. QED BY <1>1, <2>3, <3>1
  <2>4. QED BY <2>2, <2>3
<1>8. QED BY <1>4, <1>5, <1>6, <1>7 DEF Chain, r

-----------------------------------------------------------------------------
\* The types, with the bounds of the counters and the capacity of the channel.
LEMMA TypeStep ==
  TypeOK /\ ErrorsLeft /\ [Next]_vars => TypeOK'
<1> SUFFICES ASSUME TypeOK /\ ErrorsLeft, [Next]_vars
             PROVE  TypeOK'
  OBVIOUS
<1>1. ASSUME NEW g \in Gateway, Start(g) PROVE TypeOK'
 BY <1>1, Bounds DEF Start, TypeOK, ErrorsLeft, Members, zkVars, connVars, loopVars,
    mgrVars
<1>2. ASSUME NEW g \in Gateway, Killed(g) PROVE TypeOK'
 BY <1>2, Bounds DEF Killed, Forget, Leave, TypeOK, ErrorsLeft, Members, zkVars,
    connVars, loopVars, mgrVars
<1>3. ASSUME NEW g \in Gateway, Drop(g) PROVE TypeOK'
  <2>1. faults' \in 0 .. MaxFaults BY <1>3, Bounds DEF Drop, TypeOK
  <2>2. CASE /\ discs[g] < MaxDisconnects
             /\ discs' = [discs EXCEPT ![g] = @ + 1]
             /\ conn' = [conn EXCEPT ![g] = FALSE]
             /\ UNCHANGED <<zkVars, sess, loopVars, mgrVars, up, starts, reg>>
    <3>1. discs' \in [Gateway -> 0 .. MaxDisconnects] BY <2>2, Bounds DEF TypeOK
    <3>2. conn' \in [Gateway -> BOOLEAN] BY <2>2 DEF TypeOK
    <3>3. QED BY <2>1, <2>2, <3>1, <3>2 DEF TypeOK, zkVars, loopVars, mgrVars
  <2>3. CASE Forget(g) /\ Leave(g)
    BY <2>1, <2>3, Bounds DEF Forget, Leave, TypeOK
  <2>4. QED BY <1>3, <2>2, <2>3 DEF Drop, Disconnected
<1>4. ASSUME NEW g \in Gateway, CreateReplyLost(g) PROVE TypeOK'
 BY <1>4, Bounds DEF CreateReplyLost, Forget, TypeOK, ErrorsLeft, Members, zkVars,
    connVars, loopVars, mgrVars
<1>5. ASSUME NEW g \in Gateway, Connect(g) PROVE TypeOK'
 BY <1>5, Bounds DEF Connect, TypeOK, ErrorsLeft, Members, zkVars, connVars, loopVars,
    mgrVars
<1>6. ASSUME NEW g \in Gateway, Refused(g) PROVE TypeOK'
  <2>1. faults' \in 0 .. MaxFaults BY <1>6, Bounds DEF Refused, TypeOK
  <2>2. CASE /\ discs[g] < MaxDisconnects
             /\ discs' = [discs EXCEPT ![g] = @ + 1]
             /\ conn' = [conn EXCEPT ![g] = FALSE]
             /\ UNCHANGED <<zkVars, sess, loopVars, mgrVars, up, starts, reg>>
    <3>1. discs' \in [Gateway -> 0 .. MaxDisconnects] BY <2>2, Bounds DEF TypeOK
    <3>2. conn' \in [Gateway -> BOOLEAN] BY <2>2 DEF TypeOK
    <3>3. QED BY <2>1, <2>2, <3>1, <3>2 DEF TypeOK, zkVars, loopVars, mgrVars
  <2>3. CASE Forget(g) /\ Leave(g)
    BY <2>1, <2>3, Bounds DEF Forget, Leave, TypeOK
  <2>4. QED BY <1>6, <2>2, <2>3 DEF Refused, Disconnected
<1>7. ASSUME NEW g \in Gateway, Expire(g) PROVE TypeOK'
 BY <1>7, Bounds DEF Expire, SetNode, TypeOK, ErrorsLeft, Members, zkVars, connVars,
    loopVars, mgrVars
<1>8. ASSUME NEW g \in Gateway, ExpireOld(g) PROVE TypeOK'
 BY <1>8, Bounds DEF ExpireOld, SetNode, TypeOK, ErrorsLeft, Members, zkVars, connVars,
    loopVars, mgrVars
<1>9. ASSUME NEW g \in Gateway, Create(g) PROVE TypeOK'
 BY <1>9, Bounds DEF Create, SetNode, RegisterAt, TypeOK, ErrorsLeft, Members, zkVars,
    connVars, loopVars, mgrVars
<1>10. ASSUME NEW g \in Gateway, CreateNoNode(g) PROVE TypeOK'
 BY <1>10, Bounds DEF CreateNoNode, RegisterAt, TypeOK, ErrorsLeft, Members, zkVars,
    connVars, loopVars, mgrVars
<1>11. ASSUME NEW g \in Gateway, CreateParentPath(g) PROVE TypeOK'
 BY <1>11, Bounds DEF CreateParentPath, RegisterAt, TypeOK, ErrorsLeft, Members, zkVars,
    connVars, loopVars, mgrVars
<1>12. ASSUME NEW g \in Gateway, RegisterFails(g) PROVE TypeOK'
 BY <1>12, Bounds DEF RegisterFails, Forget, Leave, TypeOK, ErrorsLeft, Members, zkVars,
    connVars, loopVars, mgrVars
<1>13. ASSUME NEW g \in Gateway, ChildrenW(g) PROVE TypeOK'
 BY <1>13, Bounds DEF ChildrenW, TypeOK, ErrorsLeft, Members, zkVars, connVars,
    loopVars, mgrVars
<1>14. ASSUME NEW g \in Gateway, ChildrenNoNode(g) PROVE TypeOK'
 BY <1>14, Bounds DEF ChildrenNoNode, TypeOK, ErrorsLeft, Members, zkVars, connVars,
    loopVars, mgrVars
<1>15. ASSUME NEW g \in Gateway, CreatePath(g) PROVE TypeOK'
  <2>1. errs' \in [Gateway -> 0 .. MaxErrors + 1]
    BY <1>15, Bounds DEF CreatePath, TypeOK, ErrorsLeft
  <2>2. tree' \in BOOLEAN BY <1>15 DEF CreatePath, TypeOK
  <2>3. loop' \in [Gateway -> {"off", "list", "path", "sleep", "diff", "wait"}]
    <3>1. loop' = [loop EXCEPT ![g] = "sleep"] \/ loop' = [loop EXCEPT ![g] = "list"]
      BY <1>15 DEF CreatePath
    <3>2. QED BY <3>1 DEF TypeOK
  <2>4. QED BY <1>15, <2>1, <2>2, <2>3 DEF CreatePath, TypeOK, connVars, mgrVars
<1>16. ASSUME NEW g \in Gateway, ChildrenFails(g) PROVE TypeOK'
 BY <1>16, Bounds DEF ChildrenFails, TypeOK, ErrorsLeft, Members, zkVars, connVars,
    loopVars, mgrVars
<1>17. ASSUME NEW g \in Gateway, TooManyErrors(g) PROVE TypeOK'
 BY <1>17, Bounds DEF TooManyErrors, Forget, Leave, TypeOK, ErrorsLeft, Members, zkVars,
    connVars, loopVars, mgrVars
<1>18. ASSUME NEW g \in Gateway, Sleep(g) PROVE TypeOK'
 BY <1>18, Bounds DEF Sleep, TypeOK, ErrorsLeft, Members, zkVars, connVars, loopVars,
    mgrVars
<1>19. ASSUME NEW g \in Gateway, Add(g) PROVE TypeOK'
  <2>1. PICK m \in Gateway :
           Send(g, "insert", m) /\ told' = [told EXCEPT ![g] = @ \cup {m}]
    BY <1>19 DEF Add, TypeOK
  <2>2. [op |-> "insert", member |-> m] \in Message BY DEF Message
  <2>3. chan' \in [Gateway -> Seq(Message)] /\ Len(chan'[g]) <= ChanSize
    BY <2>1, <2>2, Bounds DEF Send, TypeOK
  <2>4. QED BY <2>1, <2>3 DEF Send, TypeOK, zkVars, connVars
<1>20. ASSUME NEW g \in Gateway, Remove(g) PROVE TypeOK'
  <2>1. PICK m \in Gateway :
           Send(g, "remove", m) /\ told' = [told EXCEPT ![g] = @ \ {m}]
    BY <1>20 DEF Remove, TypeOK
  <2>2. [op |-> "remove", member |-> m] \in Message BY DEF Message
  <2>3. chan' \in [Gateway -> Seq(Message)] /\ Len(chan'[g]) <= ChanSize
    BY <2>1, <2>2, Bounds DEF Send, TypeOK
  <2>4. QED BY <2>1, <2>3 DEF Send, TypeOK, zkVars, connVars
<1>21. ASSUME NEW g \in Gateway, AllTold(g) PROVE TypeOK'
 BY <1>21, Bounds DEF AllTold, TypeOK, ErrorsLeft, Members, zkVars, connVars, loopVars,
    mgrVars
<1>22. ASSUME NEW g \in Gateway, Wake(g) PROVE TypeOK'
 BY <1>22, Bounds DEF Wake, TypeOK, ErrorsLeft, Members, zkVars, connVars, loopVars,
    mgrVars
<1>23. ASSUME NEW g \in Gateway, ReloadTargets(g) PROVE TypeOK'
  <2>1. Head(chan[g]) \in Message /\ chan' \in [Gateway -> Seq(Message)]
        /\ Len(chan'[g]) <= ChanSize
    BY <1>23, Bounds DEF ReloadTargets, TypeOK
  <2>2. targets' \in [Gateway -> SUBSET Gateway]
    BY <1>23, <2>1 DEF ReloadTargets, TypeOK, Message
  <2>3. QED BY <1>23, <2>1, <2>2 DEF ReloadTargets, TypeOK, zkVars, connVars, loopVars
<1>24. CASE UNCHANGED vars
 BY <1>24 DEF vars, zkVars, connVars, loopVars, mgrVars, TypeOK, ErrorsLeft, Members
<1>25. QED
 BY <1>1, <1>2, <1>3, <1>4, <1>5, <1>6, <1>7, <1>8, <1>9, <1>10, <1>11, <1>12, <1>13,
    <1>14, <1>15, <1>16, <1>17, <1>18, <1>19, <1>20, <1>21, <1>22, <1>23, <1>24 DEF
    Next, Fault, Register, MemberListCallback

\* The list and the watch are read at once, and every change lets the watches fire.
LEMMA WatchStep ==
  TypeOK /\ WatchCoversList /\ [Next]_vars => WatchCoversList'
<1> SUFFICES ASSUME TypeOK /\ WatchCoversList, [Next]_vars
             PROVE  WatchCoversList'
  OBVIOUS
<1>1. ASSUME NEW g \in Gateway, Start(g) PROVE WatchCoversList'
 BY <1>1 DEF Start, TypeOK, WatchCoversList, Live, Members, zkVars, connVars, loopVars,
    mgrVars
<1>2. ASSUME NEW g \in Gateway, Killed(g) PROVE WatchCoversList'
 BY <1>2 DEF Killed, Forget, Leave, TypeOK, WatchCoversList, Live, Members, zkVars,
    connVars, loopVars, mgrVars
<1>3. ASSUME NEW g \in Gateway, Drop(g) PROVE WatchCoversList'
 BY <1>3 DEF Drop, Disconnected, Forget, Leave, TypeOK, WatchCoversList, Live, Members,
    zkVars, connVars, loopVars, mgrVars
<1>4. ASSUME NEW g \in Gateway, CreateReplyLost(g) PROVE WatchCoversList'
 BY <1>4 DEF CreateReplyLost, Forget, TypeOK, WatchCoversList, Live, Members, zkVars,
    connVars, loopVars, mgrVars
<1>5. ASSUME NEW g \in Gateway, Connect(g) PROVE WatchCoversList'
 BY <1>5 DEF Connect, TypeOK, WatchCoversList, Live, Members, zkVars, connVars,
    loopVars, mgrVars
<1>6. ASSUME NEW g \in Gateway, Refused(g) PROVE WatchCoversList'
 BY <1>6 DEF Refused, Disconnected, Forget, Leave, TypeOK, WatchCoversList, Live,
    Members, zkVars, connVars, loopVars, mgrVars
<1>7. ASSUME NEW g \in Gateway, Expire(g) PROVE WatchCoversList'
 BY <1>7 DEF Expire, SetNode, TypeOK, WatchCoversList, Live, Members, zkVars, connVars,
    loopVars, mgrVars
<1>8. ASSUME NEW g \in Gateway, ExpireOld(g) PROVE WatchCoversList'
 BY <1>8 DEF ExpireOld, SetNode, TypeOK, WatchCoversList, Live, Members, zkVars,
    connVars, loopVars, mgrVars
<1>9. ASSUME NEW g \in Gateway, Create(g) PROVE WatchCoversList'
 BY <1>9 DEF Create, SetNode, RegisterAt, TypeOK, WatchCoversList, Live, Members,
    zkVars, connVars, loopVars, mgrVars
<1>10. ASSUME NEW g \in Gateway, CreateNoNode(g) PROVE WatchCoversList'
 BY <1>10 DEF CreateNoNode, RegisterAt, TypeOK, WatchCoversList, Live, Members, zkVars,
    connVars, loopVars, mgrVars
<1>11. ASSUME NEW g \in Gateway, CreateParentPath(g) PROVE WatchCoversList'
 BY <1>11 DEF CreateParentPath, RegisterAt, TypeOK, WatchCoversList, Live, Members,
    zkVars, connVars, loopVars, mgrVars
<1>12. ASSUME NEW g \in Gateway, RegisterFails(g) PROVE WatchCoversList'
 BY <1>12 DEF RegisterFails, Forget, Leave, TypeOK, WatchCoversList, Live, Members,
    zkVars, connVars, loopVars, mgrVars
<1>13. ASSUME NEW g \in Gateway, ChildrenW(g) PROVE WatchCoversList'
 BY <1>13 DEF ChildrenW, TypeOK, WatchCoversList, Live, Members, zkVars, connVars,
    loopVars, mgrVars
<1>14. ASSUME NEW g \in Gateway, ChildrenNoNode(g) PROVE WatchCoversList'
 BY <1>14 DEF ChildrenNoNode, TypeOK, WatchCoversList, Live, Members, zkVars, connVars,
    loopVars, mgrVars
<1>15. ASSUME NEW g \in Gateway, CreatePath(g) PROVE WatchCoversList'
 BY <1>15 DEF CreatePath, TypeOK, WatchCoversList, Live, Members, zkVars, connVars,
    loopVars, mgrVars
<1>16. ASSUME NEW g \in Gateway, ChildrenFails(g) PROVE WatchCoversList'
 BY <1>16 DEF ChildrenFails, TypeOK, WatchCoversList, Live, Members, zkVars, connVars,
    loopVars, mgrVars
<1>17. ASSUME NEW g \in Gateway, TooManyErrors(g) PROVE WatchCoversList'
 BY <1>17 DEF TooManyErrors, Forget, Leave, TypeOK, WatchCoversList, Live, Members,
    zkVars, connVars, loopVars, mgrVars
<1>18. ASSUME NEW g \in Gateway, Sleep(g) PROVE WatchCoversList'
 BY <1>18 DEF Sleep, TypeOK, WatchCoversList, Live, Members, zkVars, connVars, loopVars,
    mgrVars
<1>19. ASSUME NEW g \in Gateway, Add(g) PROVE WatchCoversList'
  <2>1. UNCHANGED <<node, watch, sess, curr>> BY <1>19 DEF Add, Send, zkVars, connVars
  <2>2. QED BY <2>1 DEF WatchCoversList, Live, Members
<1>20. ASSUME NEW g \in Gateway, Remove(g) PROVE WatchCoversList'
  <2>1. UNCHANGED <<node, watch, sess, curr>> BY <1>20 DEF Remove, Send, zkVars, connVars
  <2>2. QED BY <2>1 DEF WatchCoversList, Live, Members
<1>21. ASSUME NEW g \in Gateway, AllTold(g) PROVE WatchCoversList'
 BY <1>21 DEF AllTold, TypeOK, WatchCoversList, Live, Members, zkVars, connVars,
    loopVars, mgrVars
<1>22. ASSUME NEW g \in Gateway, Wake(g) PROVE WatchCoversList'
 BY <1>22 DEF Wake, TypeOK, WatchCoversList, Live, Members, zkVars, connVars, loopVars,
    mgrVars
<1>23. ASSUME NEW g \in Gateway, ReloadTargets(g) PROVE WatchCoversList'
 BY <1>23 DEF ReloadTargets, TypeOK, WatchCoversList, Live, Members, zkVars, connVars,
    loopVars, mgrVars
<1>24. CASE UNCHANGED vars
 BY <1>24 DEF vars, zkVars, connVars, loopVars, mgrVars, TypeOK, WatchCoversList, Live,
    Members
<1>25. QED
 BY <1>1, <1>2, <1>3, <1>4, <1>5, <1>6, <1>7, <1>8, <1>9, <1>10, <1>11, <1>12, <1>13,
    <1>14, <1>15, <1>16, <1>17, <1>18, <1>19, <1>20, <1>21, <1>22, <1>23, <1>24 DEF
    Next, Fault, Register, MemberListCallback

\* What a step may do to the goroutine of MemberListCallback: nothing, and its watch
\* stays; stop it or begin the list anew; or let it work through a list with a watch.
Follows(g) ==
    \/ /\ loop'[g] = loop[g] /\ told'[g] = told[g] /\ curr'[g] = curr[g]
       /\ watch[g] # "none" => watch'[g] # "none"
    \/ loop'[g] \notin {"diff", "wait"}
    \/ loop'[g] = "diff" /\ watch'[g] # "none"
    \/ /\ loop[g] = "diff" /\ told'[g] = curr'[g]
       /\ watch'[g] = watch[g]

LEMMA FollowsForget ==
  ASSUME TypeOK, NEW g \in Gateway, Forget(g),
         \A h \in Gateway \ {g} : watch[h] # "none" => watch'[h] # "none"
  PROVE  \A h \in Gateway : Follows(h)
BY DEF Forget, Follows, TypeOK

LEMMA FollowsLeave ==
  ASSUME TypeOK, NEW g \in Gateway, Forget(g), Leave(g)
  PROVE  \A h \in Gateway : Follows(h)
<1>1. \A h \in Gateway \ {g} : watch'[h] = watch[h] BY DEF Leave, TypeOK
<1>2. QED BY <1>1, FollowsForget

LEMMA FollowsSame ==
  ASSUME TypeOK, UNCHANGED loopVars,
         \A h \in Gateway : watch[h] # "none" => watch'[h] # "none"
  PROVE  \A h \in Gateway : Follows(h)
BY DEF loopVars, Follows

LEMMA SetNodeKeepsWatches ==
  ASSUME TypeOK, NEW g \in Gateway, NEW state, SetNode(g, state)
  PROVE  \A h \in Gateway : watch[h] # "none" => watch'[h] # "none"
BY DEF SetNode, TypeOK

LEMMA FollowsStep ==
  ASSUME TypeOK, WaitsForWatch, [Next]_vars
  PROVE  \A h \in Gateway : Follows(h)
<1> DEFINE Goal == \A h \in Gateway : Follows(h)
<1>1. CASE UNCHANGED vars BY <1>1, FollowsSame DEF vars, zkVars
<1>2. ASSUME NEW g \in Gateway, Start(g) PROVE Goal
  BY <1>2 DEF Start, Follows, TypeOK, zkVars
<1>3. ASSUME NEW g \in Gateway, Killed(g) PROVE Goal
  BY <1>3, FollowsLeave DEF Killed
<1>4. ASSUME NEW g \in Gateway, Disconnected(g) PROVE Goal
  BY <1>4, FollowsLeave, FollowsSame DEF Disconnected, zkVars
<1>5. ASSUME NEW g \in Gateway, CreateReplyLost(g) PROVE Goal
  <2>1. \A h \in Gateway \ {g} : watch[h] # "none" => watch'[h] # "none"
    BY <1>5 DEF CreateReplyLost, TypeOK
  <2>2. QED BY <1>5, <2>1, FollowsForget DEF CreateReplyLost
<1>6. ASSUME NEW g \in Gateway, Connect(g) PROVE Goal
  <2>1. \A h \in Gateway : watch[h] # "none" => watch'[h] # "none"
    BY <1>6 DEF Connect, TypeOK
  <2>2. QED BY <1>6, <2>1, FollowsSame DEF Connect
<1>7. ASSUME NEW g \in Gateway, Expire(g) \/ ExpireOld(g) PROVE Goal
  BY <1>7, SetNodeKeepsWatches, FollowsSame DEF Expire, ExpireOld
<1>8. ASSUME NEW g \in Gateway, Register(g) PROVE Goal
  <2>1. CASE Create(g) BY <2>1, SetNodeKeepsWatches, FollowsSame DEF Create
  <2>2. CASE CreateNoNode(g) \/ CreateParentPath(g)
    BY <2>2, FollowsSame DEF CreateNoNode, CreateParentPath, zkVars
  <2>3. CASE RegisterFails(g) BY <2>3, FollowsLeave DEF RegisterFails
  <2>4. QED BY <1>8, <2>1, <2>2, <2>3 DEF Register
<1>9. ASSUME NEW g \in Gateway, MemberListCallback(g) PROVE Goal
  <2> USE DEF Follows, TypeOK, zkVars
  <2>1. CASE ChildrenW(g) BY <2>1 DEF ChildrenW
  <2>2. CASE ChildrenNoNode(g) \/ ChildrenFails(g) \/ Sleep(g)
    BY <2>2 DEF ChildrenNoNode, ChildrenFails, Sleep
  <2>3. CASE CreatePath(g)
    <3>1. \/ loop' = [loop EXCEPT ![g] = "sleep"]
          \/ loop' = [loop EXCEPT ![g] = "list"]
      BY <2>3 DEF CreatePath
    <3>2. UNCHANGED <<watch, curr, told>> BY <2>3 DEF CreatePath
    <3>3. QED BY <3>1, <3>2
  <2>4. CASE TooManyErrors(g) BY <2>4, FollowsLeave DEF TooManyErrors
  <2>5. CASE Add(g) \/ Remove(g)
    <3>1. loop[g] = "diff" /\ UNCHANGED <<loop, watch, curr>>
      BY <2>5 DEF Add, Remove, Send
    <3>2. \A h \in Gateway \ {g} : told'[h] = told[h] BY <2>5 DEF Add, Remove
    <3>3. watch[g] # "none" BY <3>1 DEF WaitsForWatch
    <3>4. QED BY <3>1, <3>2, <3>3
  <2>6. CASE AllTold(g) BY <2>6 DEF AllTold
  <2>7. CASE Wake(g) BY <2>7 DEF Wake
  <2>8. QED BY <1>9, <2>1, <2>2, <2>3, <2>4, <2>5, <2>6, <2>7 DEF MemberListCallback
<1>10. ASSUME NEW g \in Gateway, ReloadTargets(g) PROVE Goal
  BY <1>10, FollowsSame DEF ReloadTargets, zkVars
<1>11. QED
  BY <1>1, <1>2, <1>3, <1>4, <1>5, <1>6, <1>7, <1>8, <1>9, <1>10 DEF Next, Fault, Drop,
     Refused

\* The goroutine never waits without a watch, or with something untold.
LEMMA WaitsStep ==
  ASSUME TypeOK, WaitsForWatch, [Next]_vars
  PROVE  WaitsForWatch'
BY FollowsStep DEF WaitsForWatch, Follows

\* A session begins with the connection and ends with the process.
LEMMA SessionStep ==
  TypeOK /\ SessionFirst /\ [Next]_vars => SessionFirst'
<1> SUFFICES ASSUME TypeOK /\ SessionFirst, [Next]_vars
             PROVE  SessionFirst'
  OBVIOUS
<1>1. ASSUME NEW g \in Gateway, Start(g) PROVE SessionFirst'
 BY <1>1 DEF Start, TypeOK, SessionFirst, zkVars, connVars, loopVars, mgrVars
<1>2. ASSUME NEW g \in Gateway, Killed(g) PROVE SessionFirst'
 BY <1>2 DEF Killed, Forget, Leave, TypeOK, SessionFirst, zkVars, connVars, loopVars,
    mgrVars
<1>3. ASSUME NEW g \in Gateway, Drop(g) PROVE SessionFirst'
  <2>1. /\ conn' = [conn EXCEPT ![g] = FALSE] /\ ~conn'[g]
        /\ \/ UNCHANGED <<sess, reg>>
           \/ reg' = [reg EXCEPT ![g] = "off"] /\ sess' = [sess EXCEPT ![g] = "none"]
    BY <1>3 DEF Drop, Disconnected, Forget, TypeOK
  <2>2. QED BY <2>1 DEF TypeOK, SessionFirst
<1>4. ASSUME NEW g \in Gateway, CreateReplyLost(g) PROVE SessionFirst'
 BY <1>4 DEF CreateReplyLost, Forget, TypeOK, SessionFirst, zkVars, connVars, loopVars,
    mgrVars
<1>5. ASSUME NEW g \in Gateway, Connect(g) PROVE SessionFirst'
 BY <1>5 DEF Connect, TypeOK, SessionFirst, zkVars, connVars, loopVars, mgrVars
<1>6. ASSUME NEW g \in Gateway, Refused(g) PROVE SessionFirst'
  <2>1. /\ conn' = [conn EXCEPT ![g] = FALSE] /\ ~conn'[g]
        /\ \/ UNCHANGED <<sess, reg>>
           \/ reg' = [reg EXCEPT ![g] = "off"] /\ sess' = [sess EXCEPT ![g] = "none"]
    BY <1>6 DEF Refused, Disconnected, Forget, TypeOK
  <2>2. QED BY <2>1 DEF TypeOK, SessionFirst
<1>7. ASSUME NEW g \in Gateway, Expire(g) PROVE SessionFirst'
 BY <1>7 DEF Expire, SetNode, TypeOK, SessionFirst, zkVars, connVars, loopVars, mgrVars
<1>8. ASSUME NEW g \in Gateway, ExpireOld(g) PROVE SessionFirst'
 BY <1>8 DEF ExpireOld, SetNode, TypeOK, SessionFirst, zkVars, connVars, loopVars,
    mgrVars
<1>9. ASSUME NEW g \in Gateway, Create(g) PROVE SessionFirst'
 BY <1>9 DEF Create, SetNode, RegisterAt, TypeOK, SessionFirst, zkVars, connVars,
    loopVars, mgrVars
<1>10. ASSUME NEW g \in Gateway, CreateNoNode(g) PROVE SessionFirst'
 BY <1>10 DEF CreateNoNode, RegisterAt, TypeOK, SessionFirst, zkVars, connVars,
    loopVars, mgrVars
<1>11. ASSUME NEW g \in Gateway, CreateParentPath(g) PROVE SessionFirst'
 BY <1>11 DEF CreateParentPath, RegisterAt, TypeOK, SessionFirst, zkVars, connVars,
    loopVars, mgrVars
<1>12. ASSUME NEW g \in Gateway, RegisterFails(g) PROVE SessionFirst'
 BY <1>12 DEF RegisterFails, Forget, Leave, TypeOK, SessionFirst, zkVars, connVars,
    loopVars, mgrVars
<1>13. ASSUME NEW g \in Gateway, ChildrenW(g) PROVE SessionFirst'
 BY <1>13 DEF ChildrenW, TypeOK, SessionFirst, zkVars, connVars, loopVars, mgrVars
<1>14. ASSUME NEW g \in Gateway, ChildrenNoNode(g) PROVE SessionFirst'
 BY <1>14 DEF ChildrenNoNode, TypeOK, SessionFirst, zkVars, connVars, loopVars, mgrVars
<1>15. ASSUME NEW g \in Gateway, CreatePath(g) PROVE SessionFirst'
 BY <1>15 DEF CreatePath, TypeOK, SessionFirst, zkVars, connVars, loopVars, mgrVars
<1>16. ASSUME NEW g \in Gateway, ChildrenFails(g) PROVE SessionFirst'
 BY <1>16 DEF ChildrenFails, TypeOK, SessionFirst, zkVars, connVars, loopVars, mgrVars
<1>17. ASSUME NEW g \in Gateway, TooManyErrors(g) PROVE SessionFirst'
 BY <1>17 DEF TooManyErrors, Forget, Leave, TypeOK, SessionFirst, zkVars, connVars,
    loopVars, mgrVars
<1>18. ASSUME NEW g \in Gateway, Sleep(g) PROVE SessionFirst'
 BY <1>18 DEF Sleep, TypeOK, SessionFirst, zkVars, connVars, loopVars, mgrVars
<1>19. ASSUME NEW g \in Gateway, Add(g) PROVE SessionFirst'
 BY <1>19 DEF Add, Send, TypeOK, SessionFirst, zkVars, connVars, loopVars, mgrVars
<1>20. ASSUME NEW g \in Gateway, Remove(g) PROVE SessionFirst'
 BY <1>20 DEF Remove, Send, TypeOK, SessionFirst, zkVars, connVars, loopVars, mgrVars
<1>21. ASSUME NEW g \in Gateway, AllTold(g) PROVE SessionFirst'
 BY <1>21 DEF AllTold, TypeOK, SessionFirst, zkVars, connVars, loopVars, mgrVars
<1>22. ASSUME NEW g \in Gateway, Wake(g) PROVE SessionFirst'
 BY <1>22 DEF Wake, TypeOK, SessionFirst, zkVars, connVars, loopVars, mgrVars
<1>23. ASSUME NEW g \in Gateway, ReloadTargets(g) PROVE SessionFirst'
 BY <1>23 DEF ReloadTargets, TypeOK, SessionFirst, zkVars, connVars, loopVars, mgrVars
<1>24. CASE UNCHANGED vars
 BY <1>24 DEF vars, zkVars, connVars, loopVars, mgrVars, TypeOK, SessionFirst
<1>25. QED
 BY <1>1, <1>2, <1>3, <1>4, <1>5, <1>6, <1>7, <1>8, <1>9, <1>10, <1>11, <1>12, <1>13,
    <1>14, <1>15, <1>16, <1>17, <1>18, <1>19, <1>20, <1>21, <1>22, <1>23, <1>24 DEF
    Next, Fault, Register, MemberListCallback

\* ChildrenW is called with errors left, and its answer leads to the path.
LEMMA ErrorsStep ==
  TypeOK /\ ErrorsLeft /\ [Next]_vars => ErrorsLeft'
<1> SUFFICES ASSUME TypeOK /\ ErrorsLeft, [Next]_vars
             PROVE  ErrorsLeft'
  OBVIOUS
<1>1. ASSUME NEW g \in Gateway, Start(g) PROVE ErrorsLeft'
 BY <1>1 DEF Start, TypeOK, ErrorsLeft, zkVars, connVars, loopVars, mgrVars
<1>2. ASSUME NEW g \in Gateway, Killed(g) PROVE ErrorsLeft'
 BY <1>2 DEF Killed, Forget, Leave, TypeOK, ErrorsLeft, zkVars, connVars, loopVars,
    mgrVars
<1>3. ASSUME NEW g \in Gateway, Drop(g) PROVE ErrorsLeft'
 BY <1>3 DEF Drop, Disconnected, Forget, Leave, TypeOK, ErrorsLeft, zkVars, connVars,
    loopVars, mgrVars
<1>4. ASSUME NEW g \in Gateway, CreateReplyLost(g) PROVE ErrorsLeft'
 BY <1>4 DEF CreateReplyLost, Forget, TypeOK, ErrorsLeft, zkVars, connVars, loopVars,
    mgrVars
<1>5. ASSUME NEW g \in Gateway, Connect(g) PROVE ErrorsLeft'
 BY <1>5 DEF Connect, TypeOK, ErrorsLeft, zkVars, connVars, loopVars, mgrVars
<1>6. ASSUME NEW g \in Gateway, Refused(g) PROVE ErrorsLeft'
 BY <1>6 DEF Refused, Disconnected, Forget, Leave, TypeOK, ErrorsLeft, zkVars, connVars,
    loopVars, mgrVars
<1>7. ASSUME NEW g \in Gateway, Expire(g) PROVE ErrorsLeft'
 BY <1>7 DEF Expire, SetNode, TypeOK, ErrorsLeft, zkVars, connVars, loopVars, mgrVars
<1>8. ASSUME NEW g \in Gateway, ExpireOld(g) PROVE ErrorsLeft'
 BY <1>8 DEF ExpireOld, SetNode, TypeOK, ErrorsLeft, zkVars, connVars, loopVars, mgrVars
<1>9. ASSUME NEW g \in Gateway, Create(g) PROVE ErrorsLeft'
 BY <1>9 DEF Create, SetNode, RegisterAt, TypeOK, ErrorsLeft, zkVars, connVars,
    loopVars, mgrVars
<1>10. ASSUME NEW g \in Gateway, CreateNoNode(g) PROVE ErrorsLeft'
 BY <1>10 DEF CreateNoNode, RegisterAt, TypeOK, ErrorsLeft, zkVars, connVars, loopVars,
    mgrVars
<1>11. ASSUME NEW g \in Gateway, CreateParentPath(g) PROVE ErrorsLeft'
 BY <1>11 DEF CreateParentPath, RegisterAt, TypeOK, ErrorsLeft, zkVars, connVars,
    loopVars, mgrVars
<1>12. ASSUME NEW g \in Gateway, RegisterFails(g) PROVE ErrorsLeft'
 BY <1>12 DEF RegisterFails, Forget, Leave, TypeOK, ErrorsLeft, zkVars, connVars,
    loopVars, mgrVars
<1>13. ASSUME NEW g \in Gateway, ChildrenW(g) PROVE ErrorsLeft'
 BY <1>13 DEF ChildrenW, TypeOK, ErrorsLeft, zkVars, connVars, loopVars, mgrVars
<1>14. ASSUME NEW g \in Gateway, ChildrenNoNode(g) PROVE ErrorsLeft'
 BY <1>14 DEF ChildrenNoNode, TypeOK, ErrorsLeft, zkVars, connVars, loopVars, mgrVars
<1>15. ASSUME NEW g \in Gateway, CreatePath(g) PROVE ErrorsLeft'
 BY <1>15 DEF CreatePath, TypeOK, ErrorsLeft, zkVars, connVars, loopVars, mgrVars
<1>16. ASSUME NEW g \in Gateway, ChildrenFails(g) PROVE ErrorsLeft'
 BY <1>16 DEF ChildrenFails, TypeOK, ErrorsLeft, zkVars, connVars, loopVars, mgrVars
<1>17. ASSUME NEW g \in Gateway, TooManyErrors(g) PROVE ErrorsLeft'
 BY <1>17 DEF TooManyErrors, Forget, Leave, TypeOK, ErrorsLeft, zkVars, connVars,
    loopVars, mgrVars
<1>18. ASSUME NEW g \in Gateway, Sleep(g) PROVE ErrorsLeft'
 BY <1>18 DEF Sleep, TypeOK, ErrorsLeft, zkVars, connVars, loopVars, mgrVars
<1>19. ASSUME NEW g \in Gateway, Add(g) PROVE ErrorsLeft'
 BY <1>19 DEF Add, Send, TypeOK, ErrorsLeft, zkVars, connVars, loopVars, mgrVars
<1>20. ASSUME NEW g \in Gateway, Remove(g) PROVE ErrorsLeft'
 BY <1>20 DEF Remove, Send, TypeOK, ErrorsLeft, zkVars, connVars, loopVars, mgrVars
<1>21. ASSUME NEW g \in Gateway, AllTold(g) PROVE ErrorsLeft'
 BY <1>21 DEF AllTold, TypeOK, ErrorsLeft, zkVars, connVars, loopVars, mgrVars
<1>22. ASSUME NEW g \in Gateway, Wake(g) PROVE ErrorsLeft'
 BY <1>22 DEF Wake, TypeOK, ErrorsLeft, zkVars, connVars, loopVars, mgrVars
<1>23. ASSUME NEW g \in Gateway, ReloadTargets(g) PROVE ErrorsLeft'
 BY <1>23 DEF ReloadTargets, TypeOK, ErrorsLeft, zkVars, connVars, loopVars, mgrVars
<1>24. CASE UNCHANGED vars
 BY <1>24 DEF vars, zkVars, connVars, loopVars, mgrVars, TypeOK, ErrorsLeft
<1>25. QED
 BY <1>1, <1>2, <1>3, <1>4, <1>5, <1>6, <1>7, <1>8, <1>9, <1>10, <1>11, <1>12, <1>13,
    <1>14, <1>15, <1>16, <1>17, <1>18, <1>19, <1>20, <1>21, <1>22, <1>23, <1>24 DEF
    Next, Fault, Register, MemberListCallback

\* Only the end of its session takes the node of a gateway away.
LEMMA RegisteredStep ==
  TypeOK /\ SessionFirst /\ RegisteredInSession /\ [Next]_vars => RegisteredInSession'
<1> SUFFICES ASSUME TypeOK /\ SessionFirst /\ RegisteredInSession, [Next]_vars
             PROVE  RegisteredInSession'
  OBVIOUS
<1>1. ASSUME NEW g \in Gateway, Start(g) PROVE RegisteredInSession'
 BY <1>1 DEF Start, TypeOK, SessionFirst, RegisteredInSession, Live, zkVars, connVars,
    loopVars, mgrVars
<1>2. ASSUME NEW g \in Gateway, Killed(g) PROVE RegisteredInSession'
 BY <1>2 DEF Killed, Forget, Leave, TypeOK, SessionFirst, RegisteredInSession, Live,
    zkVars, connVars, loopVars, mgrVars
<1>3. ASSUME NEW g \in Gateway, Drop(g) PROVE RegisteredInSession'
 BY <1>3 DEF Drop, Disconnected, Forget, Leave, TypeOK, SessionFirst,
    RegisteredInSession, Live, zkVars, connVars, loopVars, mgrVars
<1>4. ASSUME NEW g \in Gateway, CreateReplyLost(g) PROVE RegisteredInSession'
 BY <1>4 DEF CreateReplyLost, Forget, TypeOK, SessionFirst, RegisteredInSession, Live,
    zkVars, connVars, loopVars, mgrVars
<1>5. ASSUME NEW g \in Gateway, Connect(g) PROVE RegisteredInSession'
 BY <1>5 DEF Connect, TypeOK, SessionFirst, RegisteredInSession, Live, zkVars, connVars,
    loopVars, mgrVars
<1>6. ASSUME NEW g \in Gateway, Refused(g) PROVE RegisteredInSession'
 BY <1>6 DEF Refused, Disconnected, Forget, Leave, TypeOK, SessionFirst,
    RegisteredInSession, Live, zkVars, connVars, loopVars, mgrVars
<1>7. ASSUME NEW g \in Gateway, Expire(g) PROVE RegisteredInSession'
 BY <1>7 DEF Expire, SetNode, TypeOK, SessionFirst, RegisteredInSession, Live, zkVars,
    connVars, loopVars, mgrVars
<1>8. ASSUME NEW g \in Gateway, ExpireOld(g) PROVE RegisteredInSession'
 BY <1>8 DEF ExpireOld, SetNode, TypeOK, SessionFirst, RegisteredInSession, Live,
    zkVars, connVars, loopVars, mgrVars
<1>9. ASSUME NEW g \in Gateway, Create(g) PROVE RegisteredInSession'
 BY <1>9 DEF Create, SetNode, RegisterAt, TypeOK, SessionFirst, RegisteredInSession,
    Live, zkVars, connVars, loopVars, mgrVars
<1>10. ASSUME NEW g \in Gateway, CreateNoNode(g) PROVE RegisteredInSession'
 BY <1>10 DEF CreateNoNode, RegisterAt, TypeOK, SessionFirst, RegisteredInSession, Live,
    zkVars, connVars, loopVars, mgrVars
<1>11. ASSUME NEW g \in Gateway, CreateParentPath(g) PROVE RegisteredInSession'
 BY <1>11 DEF CreateParentPath, RegisterAt, TypeOK, SessionFirst, RegisteredInSession,
    Live, zkVars, connVars, loopVars, mgrVars
<1>12. ASSUME NEW g \in Gateway, RegisterFails(g) PROVE RegisteredInSession'
 BY <1>12 DEF RegisterFails, Forget, Leave, TypeOK, SessionFirst, RegisteredInSession,
    Live, zkVars, connVars, loopVars, mgrVars
<1>13. ASSUME NEW g \in Gateway, ChildrenW(g) PROVE RegisteredInSession'
 BY <1>13 DEF ChildrenW, TypeOK, SessionFirst, RegisteredInSession, Live, zkVars,
    connVars, loopVars, mgrVars
<1>14. ASSUME NEW g \in Gateway, ChildrenNoNode(g) PROVE RegisteredInSession'
 BY <1>14 DEF ChildrenNoNode, TypeOK, SessionFirst, RegisteredInSession, Live, zkVars,
    connVars, loopVars, mgrVars
<1>15. ASSUME NEW g \in Gateway, CreatePath(g) PROVE RegisteredInSession'
 BY <1>15 DEF CreatePath, TypeOK, SessionFirst, RegisteredInSession, Live, zkVars,
    connVars, loopVars, mgrVars
<1>16. ASSUME NEW g \in Gateway, ChildrenFails(g) PROVE RegisteredInSession'
 BY <1>16 DEF ChildrenFails, TypeOK, SessionFirst, RegisteredInSession, Live, zkVars,
    connVars, loopVars, mgrVars
<1>17. ASSUME NEW g \in Gateway, TooManyErrors(g) PROVE RegisteredInSession'
 BY <1>17 DEF TooManyErrors, Forget, Leave, TypeOK, SessionFirst, RegisteredInSession,
    Live, zkVars, connVars, loopVars, mgrVars
<1>18. ASSUME NEW g \in Gateway, Sleep(g) PROVE RegisteredInSession'
 BY <1>18 DEF Sleep, TypeOK, SessionFirst, RegisteredInSession, Live, zkVars, connVars,
    loopVars, mgrVars
<1>19. ASSUME NEW g \in Gateway, Add(g) PROVE RegisteredInSession'
 BY <1>19 DEF Add, Send, TypeOK, SessionFirst, RegisteredInSession, Live, zkVars,
    connVars, loopVars, mgrVars
<1>20. ASSUME NEW g \in Gateway, Remove(g) PROVE RegisteredInSession'
 BY <1>20 DEF Remove, Send, TypeOK, SessionFirst, RegisteredInSession, Live, zkVars,
    connVars, loopVars, mgrVars
<1>21. ASSUME NEW g \in Gateway, AllTold(g) PROVE RegisteredInSession'
 BY <1>21 DEF AllTold, TypeOK, SessionFirst, RegisteredInSession, Live, zkVars,
    connVars, loopVars, mgrVars
<1>22. ASSUME NEW g \in Gateway, Wake(g) PROVE RegisteredInSession'
 BY <1>22 DEF Wake, TypeOK, SessionFirst, RegisteredInSession, Live, zkVars, connVars,
    loopVars, mgrVars
<1>23. ASSUME NEW g \in Gateway, ReloadTargets(g) PROVE RegisteredInSession'
 BY <1>23 DEF ReloadTargets, TypeOK, SessionFirst, RegisteredInSession, Live, zkVars,
    connVars, loopVars, mgrVars
<1>24. CASE UNCHANGED vars
 BY <1>24 DEF vars, zkVars, connVars, loopVars, mgrVars, TypeOK, SessionFirst,
    RegisteredInSession, Live
<1>25. QED
 BY <1>1, <1>2, <1>3, <1>4, <1>5, <1>6, <1>7, <1>8, <1>9, <1>10, <1>11, <1>12, <1>13,
    <1>14, <1>15, <1>16, <1>17, <1>18, <1>19, <1>20, <1>21, <1>22, <1>23, <1>24 DEF
    Next, Fault, Register, MemberListCallback

\* Each callback and each message that is taken is one link of the chain.
LEMMA ChainStep ==
  TypeOK /\ Chained /\ [Next]_vars => Chained'
<1> SUFFICES ASSUME TypeOK /\ Chained, [Next]_vars
             PROVE  Chained'
  OBVIOUS
<1>1. ASSUME NEW g \in Gateway, Start(g) PROVE Chained'
  <2>1. UNCHANGED <<chan, targets, told>> BY <1>1 DEF Start, loopVars, mgrVars
  <2>2. QED BY <2>1 DEF Chained
<1>2. ASSUME NEW g \in Gateway, Killed(g) PROVE Chained'
  <2>1. /\ chan' = [chan EXCEPT ![g] = <<>>]
        /\ targets' = [targets EXCEPT ![g] = {}]
        /\ told' = [told EXCEPT ![g] = {}]
    BY <1>2 DEF Killed, Forget
  <2>2. QED BY <2>1, ChainEmpty DEF TypeOK, Chained
<1>3. ASSUME NEW g \in Gateway, Drop(g) PROVE Chained'
  <2>1. \/ UNCHANGED <<chan, targets, told>>
        \/ /\ chan' = [chan EXCEPT ![g] = <<>>]
           /\ targets' = [targets EXCEPT ![g] = {}]
           /\ told' = [told EXCEPT ![g] = {}]
    BY <1>3 DEF Drop, Disconnected, Forget, loopVars, mgrVars
  <2>2. CASE UNCHANGED <<chan, targets, told>> BY <2>2 DEF Chained
  <2>3. CASE /\ chan' = [chan EXCEPT ![g] = <<>>]
             /\ targets' = [targets EXCEPT ![g] = {}]
             /\ told' = [told EXCEPT ![g] = {}]
    BY <2>3, ChainEmpty DEF TypeOK, Chained
  <2>4. QED BY <2>1, <2>2, <2>3
<1>4. ASSUME NEW g \in Gateway, CreateReplyLost(g) PROVE Chained'
  <2>1. /\ chan' = [chan EXCEPT ![g] = <<>>]
        /\ targets' = [targets EXCEPT ![g] = {}]
        /\ told' = [told EXCEPT ![g] = {}]
    BY <1>4 DEF CreateReplyLost, Forget
  <2>2. QED BY <2>1, ChainEmpty DEF TypeOK, Chained
<1>5. ASSUME NEW g \in Gateway, Connect(g) PROVE Chained'
  <2>1. UNCHANGED <<chan, targets, told>> BY <1>5 DEF Connect, loopVars, mgrVars
  <2>2. QED BY <2>1 DEF Chained
<1>6. ASSUME NEW g \in Gateway, Refused(g) PROVE Chained'
  <2>1. \/ UNCHANGED <<chan, targets, told>>
        \/ /\ chan' = [chan EXCEPT ![g] = <<>>]
           /\ targets' = [targets EXCEPT ![g] = {}]
           /\ told' = [told EXCEPT ![g] = {}]
    BY <1>6 DEF Refused, Disconnected, Forget, loopVars, mgrVars
  <2>2. CASE UNCHANGED <<chan, targets, told>> BY <2>2 DEF Chained
  <2>3. CASE /\ chan' = [chan EXCEPT ![g] = <<>>]
             /\ targets' = [targets EXCEPT ![g] = {}]
             /\ told' = [told EXCEPT ![g] = {}]
    BY <2>3, ChainEmpty DEF TypeOK, Chained
  <2>4. QED BY <2>1, <2>2, <2>3
<1>7. ASSUME NEW g \in Gateway, Expire(g) PROVE Chained'
  <2>1. UNCHANGED <<chan, targets, told>> BY <1>7 DEF Expire, loopVars, mgrVars
  <2>2. QED BY <2>1 DEF Chained
<1>8. ASSUME NEW g \in Gateway, ExpireOld(g) PROVE Chained'
  <2>1. UNCHANGED <<chan, targets, told>> BY <1>8 DEF ExpireOld, loopVars, mgrVars
  <2>2. QED BY <2>1 DEF Chained
<1>9. ASSUME NEW g \in Gateway, Create(g) PROVE Chained'
  <2>1. UNCHANGED <<chan, targets, told>> BY <1>9 DEF Create, loopVars, mgrVars
  <2>2. QED BY <2>1 DEF Chained
<1>10. ASSUME NEW g \in Gateway, CreateNoNode(g) PROVE Chained'
  <2>1. UNCHANGED <<chan, targets, told>> BY <1>10 DEF CreateNoNode, loopVars, mgrVars
  <2>2. QED BY <2>1 DEF Chained
<1>11. ASSUME NEW g \in Gateway, CreateParentPath(g) PROVE Chained'
  <2>1. UNCHANGED <<chan, targets, told>> BY <1>11 DEF CreateParentPath, loopVars, mgrVars
  <2>2. QED BY <2>1 DEF Chained
<1>12. ASSUME NEW g \in Gateway, RegisterFails(g) PROVE Chained'
  <2>1. /\ chan' = [chan EXCEPT ![g] = <<>>]
        /\ targets' = [targets EXCEPT ![g] = {}]
        /\ told' = [told EXCEPT ![g] = {}]
    BY <1>12 DEF RegisterFails, Forget
  <2>2. QED BY <2>1, ChainEmpty DEF TypeOK, Chained
<1>13. ASSUME NEW g \in Gateway, ChildrenW(g) PROVE Chained'
  <2>1. UNCHANGED <<chan, targets, told>> BY <1>13 DEF ChildrenW, loopVars, mgrVars
  <2>2. QED BY <2>1 DEF Chained
<1>14. ASSUME NEW g \in Gateway, ChildrenNoNode(g) PROVE Chained'
  <2>1. UNCHANGED <<chan, targets, told>> BY <1>14 DEF ChildrenNoNode, loopVars, mgrVars
  <2>2. QED BY <2>1 DEF Chained
<1>15. ASSUME NEW g \in Gateway, CreatePath(g) PROVE Chained'
  <2>1. UNCHANGED <<chan, targets, told>> BY <1>15 DEF CreatePath, loopVars, mgrVars
  <2>2. QED BY <2>1 DEF Chained
<1>16. ASSUME NEW g \in Gateway, ChildrenFails(g) PROVE Chained'
  <2>1. UNCHANGED <<chan, targets, told>> BY <1>16 DEF ChildrenFails, loopVars, mgrVars
  <2>2. QED BY <2>1 DEF Chained
<1>17. ASSUME NEW g \in Gateway, TooManyErrors(g) PROVE Chained'
  <2>1. /\ chan' = [chan EXCEPT ![g] = <<>>]
        /\ targets' = [targets EXCEPT ![g] = {}]
        /\ told' = [told EXCEPT ![g] = {}]
    BY <1>17 DEF TooManyErrors, Forget
  <2>2. QED BY <2>1, ChainEmpty DEF TypeOK, Chained
<1>18. ASSUME NEW g \in Gateway, Sleep(g) PROVE Chained'
  <2>1. UNCHANGED <<chan, targets, told>> BY <1>18 DEF Sleep, loopVars, mgrVars
  <2>2. QED BY <2>1 DEF Chained
<1>19. ASSUME NEW g \in Gateway, Add(g) PROVE Chained'
  <2>1. PICK m \in Gateway :
           /\ chan' = [chan EXCEPT ![g] = Append(@, [op |-> "insert", member |-> m])]
           /\ told' = [told EXCEPT ![g] = @ \cup {m}]
           /\ targets' = targets /\ m \notin told[g]
    BY <1>19 DEF Add, Send, TypeOK
  <2>2. [op |-> "insert", member |-> m] \in Message BY DEF Message
  <2>3. Chain(Append(chan[g], [op |-> "insert", member |-> m]),
              targets[g], told[g] \cup {m})
    BY <2>1, <2>2, ChainAppend DEF TypeOK, Chained
  <2>4. QED BY <2>1, <2>3 DEF TypeOK, Chained
<1>20. ASSUME NEW g \in Gateway, Remove(g) PROVE Chained'
  <2>1. PICK m \in Gateway :
           /\ chan' = [chan EXCEPT ![g] = Append(@, [op |-> "remove", member |-> m])]
           /\ told' = [told EXCEPT ![g] = @ \ {m}]
           /\ targets' = targets /\ m \in told[g]
    BY <1>20 DEF Remove, Send, TypeOK
  <2>2. [op |-> "remove", member |-> m] \in Message BY DEF Message
  <2>3. Chain(Append(chan[g], [op |-> "remove", member |-> m]),
              targets[g], told[g] \ {m})
    BY <2>1, <2>2, ChainAppend DEF TypeOK, Chained
  <2>4. QED BY <2>1, <2>3 DEF TypeOK, Chained
<1>21. ASSUME NEW g \in Gateway, AllTold(g) PROVE Chained'
  <2>1. UNCHANGED <<chan, targets, told>> BY <1>21 DEF AllTold, loopVars, mgrVars
  <2>2. QED BY <2>1 DEF Chained
<1>22. ASSUME NEW g \in Gateway, Wake(g) PROVE Chained'
  <2>1. UNCHANGED <<chan, targets, told>> BY <1>22 DEF Wake, loopVars, mgrVars
  <2>2. QED BY <2>1 DEF Chained
<1>23. ASSUME NEW g \in Gateway, ReloadTargets(g) PROVE Chained'
  <2>1. /\ chan[g] # <<>>
        /\ chan' = [chan EXCEPT ![g] = Tail(@)]
        /\ targets' = [targets EXCEPT ![g] = IF Head(chan[g]).op = "insert"
                                             THEN @ \cup {Head(chan[g]).member}
                                             ELSE @ \ {Head(chan[g]).member}]
        /\ told' = told
    BY <1>23 DEF ReloadTargets, loopVars
  <2>2. Chain(Tail(chan[g]), targets'[g], told[g])
    BY <2>1, ChainTail DEF TypeOK, Chained
  <2>3. QED BY <2>1, <2>2 DEF TypeOK, Chained
<1>24. CASE UNCHANGED vars
 BY <1>24 DEF vars, zkVars, connVars, loopVars, mgrVars, Chained
<1>25. QED
 BY <1>1, <1>2, <1>3, <1>4, <1>5, <1>6, <1>7, <1>8, <1>9, <1>10, <1>11, <1>12, <1>13,
    <1>14, <1>15, <1>16, <1>17, <1>18, <1>19, <1>20, <1>21, <1>22, <1>23, <1>24 DEF
    Next, Fault, Register, MemberListCallback

-----------------------------------------------------------------------------
\* The strengthening is inductive: it holds in every reachable state.
THEOREM Invariant == Spec => []IInv
<1>1. Init => IInv
  <2> SUFFICES ASSUME Init PROVE IInv
    OBVIOUS
  <2>1. TypeOK
    <3>1. /\ chan \in [Gateway -> Seq(Message)]
          /\ \A g \in Gateway : Len(chan[g]) <= ChanSize
      BY Bounds DEF Init
    <3>2. /\ starts \in [Gateway -> 0 .. MaxStarts]
          /\ discs \in [Gateway -> 0 .. MaxDisconnects]
          /\ errs \in [Gateway -> 0 .. MaxErrors + 1] /\ faults \in 0 .. MaxFaults
      BY Bounds DEF Init
    <3>3. QED BY <3>1, <3>2 DEF Init, TypeOK
  <2>2. /\ WatchCoversList /\ WaitsForWatch /\ SessionFirst /\ RegisteredInSession
        /\ ErrorsLeft
    BY DEF Init, WatchCoversList, WaitsForWatch, SessionFirst, RegisteredInSession,
           ErrorsLeft
  <2>3. Chained BY ChainEmpty DEF Init, Chained
  <2>4. QED BY <2>1, <2>2, <2>3 DEF IInv
<1>2. IInv /\ [Next]_vars => IInv'
  BY TypeStep, WatchStep, WaitsStep, SessionStep, ErrorsStep, RegisteredStep,
     ChainStep DEF IInv
<1>3. QED BY <1>1, <1>2, PTL DEF Spec

\* The variables keep their types, and the channel its capacity.
THEOREM TypeCorrect == Spec => []TypeOK
<1>1. IInv => TypeOK BY DEF IInv
<1>2. QED BY Invariant, <1>1, PTL

\* No change of the list falls between the read and the watch (zookeeper.go:93-149).
THEOREM WatchSafe == Spec => []WatchCoversList
<1>1. IInv => WatchCoversList BY DEF IInv
<1>2. QED BY Invariant, <1>1, PTL

\* When nothing is under way the map is right: the goroutine waits with a watch that
\* covers its list, has called back about all of it, and the increments add up to it
\* (zookeeper.go:93-156, cluster.go:85-137).
THEOREM MapSafe == Spec => []MapIsRight
<1>1. IInv => MapIsRight
  <2> SUFFICES ASSUME IInv, NEW g \in Gateway, loop[g] = "wait", chan[g] = <<>>,
                      Live(g), watch[g] \notin {"fired", "missed"}
               PROVE  targets[g] = Members \ {g}
    BY DEF MapIsRight
  <2>1. watch[g] = "set" /\ told[g] = curr[g] BY DEF IInv, TypeOK, WaitsForWatch
  <2>2. curr[g] = Members \ {g} BY <2>1 DEF IInv, WatchCoversList
  <2>3. Chain(chan[g], targets[g], told[g]) BY DEF IInv, Chained
  <2>4. \A m \in Gateway : m \in targets[g] <=> m \in told[g] BY <2>3 DEF Chain
  <2>5. targets[g] \subseteq Gateway /\ told[g] \subseteq Gateway BY DEF IInv, TypeOK
  <2>6. QED BY <2>1, <2>2, <2>4, <2>5
<1>2. QED BY Invariant, <1>1, PTL

\* A gateway that has registered is a member in its session (zookeeper.go:57-79).
THEOREM RegisteredSafe == Spec => []RegisteredInSession
<1>1. IInv => RegisteredInSession BY DEF IInv
<1>2. QED BY Invariant, <1>1, PTL

\* The map, with the messages under way, is what the callbacks know
\* (zookeeper.go:123-147, cluster.go:85-137).
THEOREM DriftSafe == Spec => []NoDrift
<1>1. IInv => NoDrift
  <2> SUFFICES ASSUME IInv, NEW g \in Gateway, NEW m \in Gateway
               PROVE  LET own == Inserts(g, m) \cup Removes(g, m) IN
                      IF own = {}
                      THEN m \in targets[g] <=> m \in told[g]
                      ELSE \A i \in own :
                              \/ \E j \in own : j > i
                              \/ i \in Inserts(g, m) <=> m \in told[g]
    BY DEF NoDrift
  <2> DEFINE own == Inserts(g, m) \cup Removes(g, m)
  <2>1. /\ DOMAIN chan[g] = 1 .. Len(chan[g])
        /\ Chain(chan[g], targets[g], told[g])
    BY DEF IInv, TypeOK, Chained
  <2>2. \A i \in 1 .. Len(chan[g]) :
           /\ chan[g][i].member = m <=> i \in own
           /\ i \in Inserts(g, m) <=> i \in own /\ chan[g][i].op = "insert"
    <3> SUFFICES ASSUME NEW i \in 1 .. Len(chan[g])
                 PROVE  /\ chan[g][i].member = m <=> i \in own
                        /\ i \in Inserts(g, m) <=> i \in own /\ chan[g][i].op = "insert"
      OBVIOUS
    <3>1. chan[g][i] \in Message BY <2>1 DEF IInv, TypeOK
    <3>2. QED BY <2>1, <3>1 DEF Inserts, Removes, Message
  <2>3. own \subseteq 1 .. Len(chan[g]) BY <2>1 DEF Inserts, Removes
  <2>4. CASE own = {}
    BY <2>1, <2>2, <2>4 DEF Chain
  <2>5. ASSUME NEW i \in own, ~ \E j \in own : j > i
        PROVE  i \in Inserts(g, m) <=> m \in told[g]
    <3> HIDE DEF own
    <3>1. \A j \in 1 .. Len(chan[g]) : i < j => chan[g][j].member # chan[g][i].member
      BY <2>2, <2>3, <2>5
    <3>2. QED BY <2>1, <2>2, <2>3, <3>1 DEF Chain
  <2>6. QED BY <2>4, <2>5
<1>2. QED BY Invariant, <1>1, PTL

\* What is inserted is not in the map and what is removed is: nothing is called
\* back twice (clustering.go:32-33, zookeeper.go:123-147).
THEOREM OnceSafe == Spec => []OncePerChange
<1>1. IInv => OncePerChange
  <2> SUFFICES ASSUME IInv, NEW g \in Gateway, chan[g] # <<>>
               PROVE  Head(chan[g]).op = "insert"
                         <=> Head(chan[g]).member \notin targets[g]
    BY DEF OncePerChange
  <2>1. chan[g] \in Seq(Message) /\ Chain(chan[g], targets[g], told[g])
    BY DEF IInv, TypeOK, Chained
  <2>2. Head(chan[g]) = chan[g][1] /\ 1 \in 1 .. Len(chan[g]) BY <2>1
  <2>3. QED BY <2>1, <2>2 DEF Chain
<1>2. QED BY Invariant, <1>1, PTL
=============================================================================
