------------------------------ MODULE Loaders ------------------------------
(***************************************************************************)
(* The target loaders that poll (gateway/loaders: json, simple, netbox)    *)
(* and the connection manager's map of targets.  A loader reads a whole    *)
(* configuration again and again, sends what is gone from the last one as  *)
(* removals and the rest as insertions, through one channel that all       *)
(* loaders of the gateway share.                                           *)
(***************************************************************************)
EXTENDS Integers, Sequences, FiniteSets

CONSTANTS
    Loader,
    Name,        \* target names
    NamesOf,     \* the names that the source of a loader may have
    Checks,      \* loaders whose Start reads the source: simple and netbox
    Dial,        \* addresses and credentials of a target: what Equal compares
    Request,     \* its subscription request and Meta, which Equal ignores
    None,        \* the target is not there
    Broken,      \* a source that cannot be read, parsed or validated
    Never,       \* nothing has been read
    ChanSize,    \* capacity of targetsConfigChan; 10 in the code
    MaxEdits     \* bound: changes of the sources

ASSUME NamesAssumption == NamesOf \in [Loader -> SUBSET Name] /\ Checks \subseteq Loader
ASSUME SizeAssumption  == ChanSize \in Nat \ {0} /\ MaxEdits \in Nat

Target == [dial : Dial, request : Request]

ASSUME NoneAssumption  == None \notin Target

Configuration(l) ==
    {c \in [Name -> Target \cup {None}] : \A n \in Name \ NamesOf[l] : c[n] = None}

\* What GetConfiguration may find.
Sources(l) == Configuration(l) \cup {Broken}
AnySource == UNION {Sources(l) : l \in Loader}

ASSUME ValueAssumption == \A l \in Loader : {Broken, Never} \cap Configuration(l) = {}

VARIABLES
    source,       \* what the file or the inventory says
    edits,
    pc,           \* "start", "read", or "send": waiting for room in the channel
    last,         \* m.last: the configuration read last
    held,         \* the message a loader is about to send
    chan,         \* targetsConfigChan
    connections,  \* the connection manager's map: t.target of each name
    exited        \* an error of Start has ended the process

vars == <<source, edits, pc, last, held, chan, connections, exited>>

Names(c) == IF c \in {Never, Broken} THEN {} ELSE {n \in Name : c[n] # None}

Message == [from : Loader, remove : SUBSET Name, insert : [Name -> Target \cup {None}]]

TypeOK ==
    /\ source \in [Loader -> AnySource] /\ \A l \in Loader : source[l] \in Sources(l)
    /\ edits \in 0 .. MaxEdits
    /\ pc \in [Loader -> {"start", "read", "send"}]
    /\ last \in [Loader -> AnySource \cup {Never}]
    /\ \A l \in Loader : last[l] \in Configuration(l) \cup {Never}
    /\ held \in [Loader -> Message \cup {Never}]
    /\ \A l \in Loader : pc[l] = "send" => held[l] \in Message /\ held[l].from = l
    /\ chan \in Seq(Message) /\ Len(chan) <= ChanSize
    /\ connections \in [Name -> Target \cup {None}]
    /\ exited \in BOOLEAN

Init ==
    /\ source \in [Loader -> AnySource]
    /\ \A l \in Loader : source[l] \in Sources(l)
    /\ edits = 0
    /\ pc = [l \in Loader |-> "start"]
    /\ last = [l \in Loader |-> Never]
    /\ held = [l \in Loader |-> Never]
    /\ chan = <<>>
    /\ connections = [n \in Name |-> None]
    /\ exited = FALSE

-----------------------------------------------------------------------------
\* The source changes: it is edited, seen half written, or cannot be reached.
Edit(l) ==
    /\ edits < MaxEdits
    /\ edits' = edits + 1
    /\ \E c \in Sources(l) \ {source[l]} :
          source' = [source EXCEPT ![l] = c]
    /\ UNCHANGED <<pc, last, held, chan, connections, exited>>

\* Start: an error goes to the channel finished, and the process ends.
StartLoader(l) ==
    /\ ~exited /\ pc[l] = "start"
    /\ \/ /\ l \in Checks /\ source[l] = Broken
          /\ exited' = TRUE
          /\ UNCHANGED pc
       \/ /\ l \notin Checks \/ source[l] # Broken
          /\ pc' = [pc EXCEPT ![l] = "read"]
          /\ UNCHANGED exited
    /\ UNCHANGED <<source, edits, last, held, chan, connections>>

\* Mutant: what has gone from the configuration is not removed.
GetConfigurationRemovesNothing(l) ==
    /\ ~exited /\ pc[l] = "read"
    /\ source[l] # Broken
    /\ held' = [held EXCEPT ![l] =
                   [from |-> l, remove |-> {}, insert |-> source[l]]]
    /\ last' = [last EXCEPT ![l] = source[l]]
    /\ pc' = [pc EXCEPT ![l] = "send"]
    /\ UNCHANGED <<source, edits, chan, connections, exited>>

\* A round of WatchConfiguration: the message is made and m.last replaced before
\* the message is sent.
GetConfiguration(l) ==
    /\ ~exited /\ pc[l] = "read"
    /\ source[l] # Broken
    /\ held' = [held EXCEPT ![l] =
                   [from |-> l, remove |-> Names(last[l]) \ Names(source[l]),
                    insert |-> source[l]]]
    /\ last' = [last EXCEPT ![l] = source[l]]
    /\ pc' = [pc EXCEPT ![l] = "send"]
    /\ UNCHANGED <<source, edits, chan, connections, exited>>

\* Mutant: the channel has no limit.
SendConfigurationUnbounded(l) ==
    /\ ~exited /\ pc[l] = "send"
    /\ chan' = Append(chan, held[l])
    /\ held' = [held EXCEPT ![l] = Never]
    /\ pc' = [pc EXCEPT ![l] = "read"]
    /\ UNCHANGED <<source, edits, last, connections, exited>>

\* Mutant: a message is dropped when the channel is full.
SendConfigurationDrops(l) ==
    /\ ~exited /\ pc[l] = "send"
    /\ chan' = IF Len(chan) < ChanSize THEN Append(chan, held[l]) ELSE chan
    /\ pc' = [pc EXCEPT ![l] = "read"]
    /\ held' = [held EXCEPT ![l] = Never]
    /\ UNCHANGED <<source, edits, last, connections, exited>>

SendConfiguration(l) ==
    /\ ~exited /\ pc[l] = "send"
    /\ Len(chan) < ChanSize
    /\ chan' = Append(chan, held[l])
    /\ held' = [held EXCEPT ![l] = Never]
    /\ pc' = [pc EXCEPT ![l] = "read"]
    /\ UNCHANGED <<source, edits, last, connections, exited>>

WatchConfiguration(l) == GetConfiguration(l) \/ SendConfiguration(l)

Equal(t, u) == t.dial = u.dial

\* Mutant: a target that is there is left alone, whatever its configuration.
HandledOnce(msg) ==
    LET kept(n) == IF n \in msg.remove THEN None ELSE connections[n] IN
    [n \in Name |->
        IF msg.insert[n] = None \/ kept(n) # None THEN kept(n) ELSE msg.insert[n]]

\* The map after handleTargetControlMsg: what is to be removed goes; of what is to
\* be inserted, a new name is connected, one that is not Equal is overwritten.
Handled(msg) ==
    LET kept(n) == IF n \in msg.remove THEN None ELSE connections[n] IN
    [n \in Name |->
        IF msg.insert[n] = None \/ (kept(n) # None /\ Equal(kept(n), msg.insert[n]))
        THEN kept(n)
        ELSE msg.insert[n]]

ReloadTargets ==
    /\ ~exited
    /\ chan # <<>>
    /\ connections' = Handled(Head(chan))
    /\ chan' = Tail(chan)
    /\ UNCHANGED <<source, edits, pc, last, held, exited>>

Next ==
    \/ \E l \in Loader : Edit(l) \/ StartLoader(l) \/ WatchConfiguration(l)
    \/ ReloadTargets

Spec == Init /\ [][Next]_vars

\* A loader that waits for room gets it in its turn: Go serves blocked senders
\* first in, first out, and the manager goes on receiving.
Fairness ==
    /\ \A l \in Loader :
          /\ WF_vars(StartLoader(l)) /\ WF_vars(GetConfiguration(l))
          /\ SF_vars(SendConfiguration(l))
    /\ WF_vars(ReloadTargets)

FairSpec == Spec /\ Fairness

-----------------------------------------------------------------------------
(* Properties. *)

\* The names that no other loader has.
Exclusive(l) == {n \in NamesOf[l] : \A k \in Loader \ {l} : n \notin NamesOf[k]}

\* What a loader has under way, oldest first: indices of the channel, and one
\* more for the message it holds.
Pending(l) ==
    {i \in DOMAIN chan : chan[i].from = l}
        \cup (IF pc[l] = "send" THEN {Len(chan) + 1} ELSE {})

PendingMsg(l, i) == IF i \in DOMAIN chan THEN chan[i] ELSE held[l]

IsFirst(l, i) == \A j \in Pending(l) : i <= j

IsNewest(l, i) == \A j \in Pending(l) : j <= i

Follows(l, j, i) == j < i /\ \A k \in Pending(l) : k <= j \/ i <= k

\* What the manager has of a loader's names once it has handled what it has, is
\* what the first message under way takes for its starting point, and each further
\* message starts where the one before it ends, up to what the loader remembers:
\* removals are computed from m.last, never from the map, so a message that was
\* skipped, repeated or overtaken would leave a target connected that no source has.
\* When nothing is under way the map has the loader's names, each with the address
\* and the credentials read last (json.go:77-101, simple.go:174-198,
\* netbox.go:143-175, zookeeper.go:126-181, state.go:118).
RemovalsMatchMap ==
    \A l \in Loader :
        /\ \A n \in Exclusive(l) :
              Pending(l) = {} => (connections[n] # None <=> n \in Names(last[l]))
        /\ \A n \in Exclusive(l) \cap Names(last[l]) :
              Pending(l) = {} => Equal(connections[n], last[l][n])
        /\ \A i \in Pending(l), n \in Exclusive(l) :
              IsFirst(l, i) /\ connections[n] # None =>
                  n \in PendingMsg(l, i).remove \cup Names(PendingMsg(l, i).insert)
        /\ \A i, j \in Pending(l) :
              Follows(l, j, i) =>
                  PendingMsg(l, i).remove =
                      Names(PendingMsg(l, j).insert) \ Names(PendingMsg(l, i).insert)
        /\ \A i \in Pending(l) : IsNewest(l, i) => PendingMsg(l, i).insert = last[l]

\* Does the loader have the target, or have its next message look after it?
LooksAfter(l, n) ==
    IF Pending(l) = {}
    THEN n \in Names(last[l])
    ELSE \A i \in Pending(l) :
            IsFirst(l, i) =>
                n \in PendingMsg(l, i).remove \cup Names(PendingMsg(l, i).insert)

\* Nothing is in the map that no loader looks after, also of the names that several
\* loaders have: when nothing is under way, some loader has read it last
\* (json.go:77-101, zookeeper.go:126-181).
EveryTargetHasALoader ==
    \A n \in Name : connections[n] # None => \E l \in Loader : LooksAfter(l, n)

\* What a source says in the end; while it cannot be read, what it said before.
Wanted(l) == IF source[l] = Broken THEN last[l] ELSE source[l]

\* Does the next round of some loader insert the target, or is it nobody else's
\* to remove?
Assured(n) ==
    \E l \in Loader : n \in Names(Wanted(l)) /\ (source[l] # Broken \/ n \in Exclusive(l))

\* When the sources do not change any more, the gateway is connected to no target
\* that no source has, and to every one that some source has, although the removals
\* of one loader take away a target that another one still has: the next round of
\* that one inserts it again, if it can still read its source.
NamesConverge ==
    \A n \in Name :
        <>[](\/ exited
             \/ /\ Assured(n) => connections[n] # None
                /\ connections[n] # None => \E l \in Loader : n \in Names(Wanted(l)))

\* A target that only one loader has is connected as that loader's source says.
DialConverges ==
    \A l \in Loader : \A n \in Exclusive(l) :
        <>[](\/ exited
             \/ n \notin Names(Wanted(l))
             \/ connections[n] # None /\ Equal(connections[n], Wanted(l)[n]))

-----------------------------------------------------------------------------
(* What comments of the repository say, and the code does not do.          *)

\* "If a config with the same name already exists it will be overwritten and the
\* target reconnected if the new config is different from the old one"
\* (manager.go:63-65): the request and the Meta of a target are part of its config.
ConfigIsOverwritten ==
    \A l \in Loader : \A n \in Exclusive(l) :
        <>[](\/ exited
             \/ n \notin Names(Wanted(l))
             \/ connections[n] = Wanted(l)[n])
=============================================================================
