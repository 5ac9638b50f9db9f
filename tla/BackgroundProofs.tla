-------------------------- MODULE BackgroundProofs --------------------------
(***************************************************************************)
(* Theorems about Background.                                              *)
(***************************************************************************)
EXTENDS UpkeepProofs, TLAPS

-----------------------------------------------------------------------------
(* RedundantPath: for any number of keys, receiving tasks, notices and     *)
(* damaged datagrams.                                                      *)

LEMMA NoticingTypeInit ==
    ASSUME Noticing!Parameters PROVE Noticing!Init => Noticing!TypeOK
BY DEF Noticing!Parameters, Noticing!Init, Noticing!TypeOK, Noticing!Idle

LEMMA NoticingTypeStep ==
    ASSUME Noticing!Parameters
    PROVE  Noticing!TypeOK /\ [Noticing!Next]_(Noticing!vars) => Noticing!TypeOK'
<1> SUFFICES ASSUME Noticing!TypeOK, [Noticing!Next]_(Noticing!vars)
             PROVE  Noticing!TypeOK'
  OBVIOUS
<1> USE DEF Noticing!Parameters, Noticing!TypeOK, Noticing!Datagram
<1>1. CASE Noticing!Restart
  BY <1>1 DEF Noticing!Restart, Noticing!Idle
<1>2. ASSUME NEW k \in IdemKey, Noticing!Send(k) PROVE Noticing!TypeOK'
  <2>1. Noticing!Frame(nextSeq, k) \in Noticing!Datagram /\ nextSeq' \in 0..MaxSent
    BY <1>2 DEF Noticing!Send, Noticing!Frame
  <2> QED BY <1>2, <2>1 DEF Noticing!Send
<1>3. ASSUME NEW d \in air, Noticing!Lose(d) PROVE Noticing!TypeOK'
  BY <1>3 DEF Noticing!Lose
<1>4. ASSUME NEW d \in air, Noticing!Damage(d) PROVE Noticing!TypeOK'
  BY <1>4 DEF Noticing!Damage
<1>5. ASSUME NEW d \in air, NEW t \in Task, Noticing!Receive(t, d) PROVE Noticing!TypeOK'
  BY <1>5 DEF Noticing!Receive
<1>6. ASSUME NEW t \in Task, Noticing!Decode(t) PROVE Noticing!TypeOK'
  BY <1>6 DEF Noticing!Decode, Noticing!Idle
<1>7. ASSUME NEW t \in Task, Noticing!InsertIfNew(t) PROVE Noticing!TypeOK'
  BY <1>7 DEF Noticing!InsertIfNew, Noticing!Idle
<1>8. CASE UNCHANGED Noticing!vars
  BY <1>8 DEF Noticing!vars
<1> QED BY <1>1, <1>2, <1>3, <1>4, <1>5, <1>6, <1>7, <1>8 DEF Noticing!Next

(***************************************************************************)
(* The network makes no MAC: the key that the MAC of a datagram under way  *)
(* was made of is one that was sent, and what a task registers is the key  *)
(* of a genuine datagram. A key that is not registered was not handed out, *)
(* and one that is was handed out once.                                    *)
(***************************************************************************)

NoticingPathInv ==
    /\ \A d \in air : d.mac[2] \in sent
    /\ \A t \in Task : \A d \in noticeTask[t].frame :
          /\ noticeTask[t].frame = {d} /\ d.mac[2] \in sent
          /\ noticeTask[t].stage = "insert" => Noticing!Genuine(d)
    /\ seen \subseteq sent
    /\ \A k \in IdemKey : noticeHanded[k] = 0 \/ (noticeHanded[k] = 1 /\ k \in seen)

LEMMA NoticingPathInvStep ==
    ASSUME Noticing!Parameters
    PROVE  Noticing!TypeOK /\ NoticingPathInv /\ [Noticing!Next]_(Noticing!vars)
              => NoticingPathInv'
<1> SUFFICES ASSUME Noticing!TypeOK, NoticingPathInv, [Noticing!Next]_(Noticing!vars)
             PROVE  NoticingPathInv'
  OBVIOUS
<1>0. /\ noticeTask \in [Task -> [stage : {"recv", "decode", "insert"}, frame : SUBSET Noticing!Datagram]]
      /\ air \subseteq Noticing!Datagram /\ noticeHanded \in [IdemKey -> Nat]
  BY DEF Noticing!TypeOK
<1>1. CASE Noticing!Restart
  BY <1>1 DEF Noticing!Restart, NoticingPathInv, Noticing!Idle
<1>2. ASSUME NEW k \in IdemKey, Noticing!Send(k) PROVE NoticingPathInv'
  <2>1. Noticing!Frame(nextSeq, k).mac[2] = k
    BY DEF Noticing!Frame
  <2> QED BY <1>2, <2>1 DEF Noticing!Send, NoticingPathInv
<1>3. ASSUME NEW d \in air, Noticing!Lose(d) PROVE NoticingPathInv'
  BY <1>3 DEF Noticing!Lose, NoticingPathInv
<1>4. ASSUME NEW d \in air, Noticing!Damage(d) PROVE NoticingPathInv'
  <2>1. PICK k \in IdemKey : air' = (air \ {d}) \cup {[d EXCEPT !.key = k]}
    BY <1>4 DEF Noticing!Damage
  <2>2. [d EXCEPT !.key = k].mac = d.mac
    BY <1>0 DEF Noticing!Datagram
  <2> QED BY <1>4, <2>1, <2>2 DEF Noticing!Damage, NoticingPathInv
<1>5. ASSUME NEW d \in air, NEW t \in Task, Noticing!Receive(t, d) PROVE NoticingPathInv'
  <2>1. /\ noticeTask' = [noticeTask EXCEPT ![t] = [stage |-> "decode", frame |-> {d}]]
        /\ air' \subseteq air /\ UNCHANGED <<sent, seen, noticeHanded>>
    BY <1>5 DEF Noticing!Receive
  <2>2. \A u \in Task : noticeTask'[u] = IF u = t THEN [stage |-> "decode", frame |-> {d}]
                                   ELSE noticeTask[u]
    BY <1>0, <2>1
  <2> QED BY <2>1, <2>2 DEF NoticingPathInv
<1>6. ASSUME NEW t \in Task, Noticing!Decode(t) PROVE NoticingPathInv'
  <2>1. PICK d \in noticeTask[t].frame :
          noticeTask' = [noticeTask EXCEPT ![t] = IF Noticing!Genuine(d) THEN [noticeTask[t] EXCEPT !.stage = "insert"]
                                      ELSE Noticing!Idle]
    BY <1>0, <1>6 DEF Noticing!Decode
  <2>2. UNCHANGED <<air, sent, seen, noticeHanded>>
    BY <1>6 DEF Noticing!Decode
  <2>3. noticeTask[t].frame = {d} /\ d.mac[2] \in sent
    BY DEF NoticingPathInv
  <2>4. \A u \in Task : u # t => noticeTask'[u] = noticeTask[u]
    BY <1>0, <2>1
  <2>5. CASE Noticing!Genuine(d)
    <3>1. noticeTask'[t] = [noticeTask[t] EXCEPT !.stage = "insert"]
      BY <1>0, <2>1, <2>5
    <3>2. noticeTask'[t].frame = noticeTask[t].frame
      BY <1>0, <3>1
    <3> QED BY <2>2, <2>3, <2>4, <2>5, <3>2 DEF NoticingPathInv
  <2>6. CASE ~Noticing!Genuine(d)
    <3>1. noticeTask'[t].frame = {}
      BY <1>0, <2>1, <2>6 DEF Noticing!Idle
    <3> QED BY <2>2, <2>4, <3>1 DEF NoticingPathInv
  <2> QED BY <2>5, <2>6
<1>7. ASSUME NEW t \in Task, Noticing!InsertIfNew(t) PROVE NoticingPathInv'
  <2>1. PICK d \in noticeTask[t].frame :
          /\ seen' = seen \cup {d.key}
          /\ noticeHanded' = IF d.key \in seen THEN noticeHanded
                       ELSE [noticeHanded EXCEPT ![d.key] = noticeHanded[d.key] + 1]
    BY <1>0, <1>7 DEF Noticing!InsertIfNew, Noticing!Datagram
  <2>2. d.key \in sent /\ d.key \in IdemKey
    BY <1>0, <1>7 DEF Noticing!InsertIfNew, NoticingPathInv, Noticing!Genuine,
       Noticing!Datagram
  <2>3. \A k \in IdemKey : noticeHanded'[k] = 0 \/ (noticeHanded'[k] = 1 /\ k \in seen')
    BY <1>0, <2>1, <2>2 DEF NoticingPathInv
  <2>4. \A u \in Task : noticeTask'[u] = IF u = t THEN Noticing!Idle ELSE noticeTask[u]
    BY <1>0, <1>7 DEF Noticing!InsertIfNew
  <2> QED BY <1>7, <2>1, <2>2, <2>3, <2>4 DEF Noticing!InsertIfNew, NoticingPathInv,
             Noticing!Idle
<1>8. CASE UNCHANGED Noticing!vars
  BY <1>8 DEF Noticing!vars, NoticingPathInv
<1> QED BY <1>1, <1>2, <1>3, <1>4, <1>5, <1>6, <1>7, <1>8 DEF Noticing!Next

LEMMA NoticingPathInvInit == Noticing!Init => NoticingPathInv
BY DEF Noticing!Init, NoticingPathInv, Noticing!Idle

\* Between two restarts a key is handed out once at most: insert_if_new looks and
\* registers under one lock.
LEMMA NoticingEachKeyOnce ==
    ASSUME Noticing!Parameters
    PROVE  Noticing!Spec => []Noticing!HandedOnce
<1>1. NoticingPathInv => Noticing!HandedOnce
  BY DEF NoticingPathInv, Noticing!HandedOnce
<1> QED BY <1>1, NoticingTypeInit, NoticingTypeStep, NoticingPathInvInit,
           NoticingPathInvStep, PTL DEF Noticing!Spec

\* Whatever the network damages, only keys that were sent are known, so that a
\* true notice is not thrown away as a duplicate of a damaged one.
LEMMA NoticingDamageIsHarmless ==
    ASSUME Noticing!Parameters
    PROVE  Noticing!Spec => []Noticing!KnownWasSent
<1>1. NoticingPathInv => Noticing!KnownWasSent
  BY DEF NoticingPathInv, Noticing!KnownWasSent
<1> QED BY <1>1, NoticingTypeInit, NoticingTypeStep, NoticingPathInvInit,
           NoticingPathInvStep, PTL DEF Noticing!Spec

LEMMA NoticingTypeCorrect ==
    ASSUME Noticing!Parameters
    PROVE  Noticing!Spec => []Noticing!TypeOK
BY NoticingTypeInit, NoticingTypeStep, PTL DEF Noticing!Spec

-----------------------------------------------------------------------------
(* QuicExchange: for any number of sends.                                  *)

ExchangingTypes ==
    /\ Exchanging!TypeOK
    /\ IF server.stage = "accept" THEN server = Exchanging!Waiting ELSE server.send \in Exchanging!Send

LEMMA ExchangingTypeInit == Exchanging!Init => ExchangingTypes
BY DEF Exchanging!Init, ExchangingTypes, Exchanging!TypeOK, Exchanging!Waiting

LEMMA ExchangingTypeStep == ExchangingTypes /\ [Exchanging!Next]_(Exchanging!vars)
                               => ExchangingTypes'
<1> SUFFICES ASSUME ExchangingTypes, [Exchanging!Next]_(Exchanging!vars)
             PROVE  ExchangingTypes'
  OBVIOUS
<1> USE DEF ExchangingTypes, Exchanging!TypeOK, Exchanging!Histories, Exchanging!Waiting, Exchanging!Ended
<1>1. CASE Exchanging!Accept
  BY <1>1 DEF Exchanging!Accept
<1>2. CASE Exchanging!Read
  BY <1>2 DEF Exchanging!Read
<1>3. CASE Exchanging!Ack
  <2>1. CASE link[server.send].state = "open"
    <3>1. link' = [link EXCEPT ![server.send] = [link[server.send] EXCEPT !.ack = TRUE]]
          /\ server' = [server EXCEPT !.stage = "close"]
      BY <1>3, <2>1 DEF Exchanging!Ack
    <3>2. server.send \in Exchanging!Send /\ UNCHANGED Exchanging!Histories
      BY <1>3 DEF Exchanging!Ack
    <3>3. link[server.send] \in [state : {"none", "asked", "open", "ended"},
              data : {None, "good", "unfit"}, ack : BOOLEAN, got : {None, "ok", "error"}]
      BY <3>2
    <3>4. [link[server.send] EXCEPT !.ack = TRUE] \in
            [state : {"none", "asked", "open", "ended"}, data : {None, "good", "unfit"},
             ack : BOOLEAN, got : {None, "ok", "error"}]
      BY <3>3
    <3>5. server'.stage = "close" /\ server' \in
            [stage : {"accept", "read", "ack", "close"}, send : Exchanging!Send \cup {0}]
          /\ server'.send = server.send
      BY <3>1
    <3> HIDE DEF ExchangingTypes
    <3>6. Exchanging!TypeOK'
      BY <3>1, <3>2, <3>4, <3>5 DEF ExchangingTypes
    <3> QED BY <3>2, <3>5, <3>6 DEF ExchangingTypes
  <2>2. CASE link[server.send].state # "open"
    BY <1>3, <2>2 DEF Exchanging!Ack
  <2> QED BY <2>1, <2>2
<1>4. CASE Exchanging!Return
  BY <1>4 DEF Exchanging!Return
<1>5. CASE Exchanging!Drop
  BY <1>5 DEF Exchanging!Drop
<1>6. ASSUME NEW i \in Exchanging!Send,
             Exchanging!Connect(i) \/ Exchanging!Write(i) \/ Exchanging!TakeAck(i) \/ Exchanging!Fail(i) \/ Exchanging!Break(i)
      PROVE  ExchangingTypes'
  BY <1>6 DEF Exchanging!Connect, Exchanging!Write, Exchanging!TakeAck, Exchanging!Fail,
     Exchanging!Break
<1>7. CASE UNCHANGED Exchanging!vars
  BY <1>7 DEF Exchanging!vars
<1> QED BY <1>1, <1>2, <1>3, <1>4, <1>5, <1>6, <1>7 DEF Exchanging!Next

(***************************************************************************)
(* An acknowledgement is written by a server that then waits for the       *)
(* connection to end, and returns the request whatever ended it. A         *)
(* connection that ends without the acknowledgement being read, and        *)
(* without the network's doing, is one the server has given up.            *)
(***************************************************************************)

ExchangingServed(i) == server.stage # "accept" /\ server.send = i

ExchangingClosing(i) == server = [stage |-> "close", send |-> i]

ExchangingLinkInv(i) ==
    /\ link[i].got = "ok" => link[i].ack
    /\ link[i].ack => i \in quicHanded \cup dropped \/ ExchangingClosing(i)
    /\ link[i].got = "error" => link[i].state = "ended"
    /\ i \in quicHanded => link[i].state = "ended"
    /\ ExchangingServed(i) => link[i].state \in {"open", "ended"} /\ i \notin quicHanded
    /\ link[i].state = "ended" =>
          link[i].got = "ok" \/ i \in broken \/ (~ExchangingServed(i) /\ i \notin quicHanded)

ExchangingExchangeInv == \A i \in Exchanging!Send : ExchangingLinkInv(i)

LEMMA ExchangingExchangeInvStep ==
    ASSUME Exchanging!Parameters
    PROVE  ExchangingTypes /\ ExchangingExchangeInv /\ [Exchanging!Next]_(Exchanging!vars)
           => ExchangingExchangeInv'
<1> SUFFICES ASSUME ExchangingTypes, ExchangingExchangeInv,
                    [Exchanging!Next]_(Exchanging!vars)
             PROVE  ExchangingExchangeInv'
  OBVIOUS
<1> USE DEF Exchanging!Parameters, ExchangingTypes, ExchangingLinkInv, ExchangingServed, ExchangingClosing
<1>1. ASSUME NEW i \in Exchanging!Send, Exchanging!Connect(i) PROVE ExchangingExchangeInv'
  BY <1>1 DEF Exchanging!Connect, Exchanging!Fresh, Exchanging!Histories,
     Exchanging!TypeOK, ExchangingExchangeInv
<1>2. ASSUME NEW i \in Exchanging!Send, Exchanging!Write(i) PROVE ExchangingExchangeInv'
  BY <1>2 DEF Exchanging!Write, Exchanging!Histories, Exchanging!TypeOK,
     ExchangingExchangeInv
<1>3. ASSUME NEW i \in Exchanging!Send, Exchanging!TakeAck(i) PROVE ExchangingExchangeInv'
  BY <1>3 DEF Exchanging!TakeAck, Exchanging!Histories, Exchanging!TypeOK,
     ExchangingExchangeInv
<1>4. ASSUME NEW i \in Exchanging!Send, Exchanging!Fail(i) PROVE ExchangingExchangeInv'
  BY <1>4 DEF Exchanging!Fail, Exchanging!Histories, Exchanging!TypeOK,
     ExchangingExchangeInv
<1>5. ASSUME NEW i \in Exchanging!Send, Exchanging!Break(i) PROVE ExchangingExchangeInv'
  BY <1>5 DEF Exchanging!Break, Exchanging!TypeOK, ExchangingExchangeInv
<1>6. CASE Exchanging!Accept
  <2>1. PICK i \in Exchanging!Send :
          /\ link[i].state = "asked" /\ link' = [link EXCEPT ![i].state = "open"]
          /\ server' = [stage |-> "read", send |-> i]
    BY <1>6 DEF Exchanging!Accept
  <2>2. i \notin quicHanded
    BY <2>1 DEF ExchangingExchangeInv
  <2>3. server.stage = "accept" /\ UNCHANGED <<quicHanded, broken, dropped>>
    BY <1>6 DEF Exchanging!Accept, Exchanging!Waiting, Exchanging!Histories
  <2>4. ASSUME NEW j \in Exchanging!Send, j # i PROVE ExchangingLinkInv(j)'
    BY <2>1, <2>3, <2>4 DEF Exchanging!TypeOK, ExchangingExchangeInv
  <2>5. ExchangingLinkInv(i)'
    BY <2>1, <2>2, <2>3 DEF Exchanging!TypeOK, ExchangingExchangeInv
  <2> QED BY <2>4, <2>5 DEF ExchangingExchangeInv
<1>7. CASE Exchanging!Read
  BY <1>7 DEF Exchanging!Read, Exchanging!Histories, Exchanging!Ended, Exchanging!TypeOK,
     ExchangingExchangeInv, Exchanging!Waiting
<1>8. CASE Exchanging!Ack
  BY <1>8 DEF Exchanging!Ack, Exchanging!Histories, Exchanging!TypeOK,
     ExchangingExchangeInv, Exchanging!Waiting
<1>9. CASE Exchanging!Return
  BY <1>9 DEF Exchanging!Return, Exchanging!TypeOK, ExchangingExchangeInv,
     Exchanging!Waiting
<1>10. CASE Exchanging!Drop
  BY <1>10 DEF Exchanging!Drop, Exchanging!Ended, Exchanging!TypeOK,
     ExchangingExchangeInv, Exchanging!Waiting
<1>11. CASE UNCHANGED Exchanging!vars
  BY <1>11 DEF Exchanging!vars, ExchangingExchangeInv
<1> QED BY <1>1, <1>2, <1>3, <1>4, <1>5, <1>6, <1>7, <1>8, <1>9, <1>10, <1>11
           DEF Exchanging!Next

LEMMA ExchangingExchangeInvInit ==
    ASSUME Exchanging!Parameters
    PROVE  Exchanging!Init => ExchangingExchangeInv
BY DEF Exchanging!Parameters, Exchanging!Init, ExchangingExchangeInv, ExchangingLinkInv,
   ExchangingServed, ExchangingClosing, Exchanging!Waiting, Exchanging!Send

\* A client that has its acknowledgement may forget the request: the server has
\* returned it, or is about to, or its caller has dropped the call.
LEMMA ExchangingAcknowledgedIsTaken ==
    ASSUME Exchanging!Parameters
    PROVE  Exchanging!Spec => []Exchanging!AckedIsTaken
<1>1. ExchangingExchangeInv => Exchanging!AckedIsTaken
  BY DEF ExchangingExchangeInv, ExchangingLinkInv, ExchangingClosing,
     Exchanging!AckedIsTaken
<1> QED BY <1>1, ExchangingTypeInit, ExchangingTypeStep, ExchangingExchangeInvInit,
           ExchangingExchangeInvStep, PTL DEF Exchanging!Spec

\* The server does not end a connection whose request it takes: only the network
\* makes a client send again what was returned.
LEMMA ExchangingDoublesAreTheNetworks ==
    ASSUME Exchanging!Parameters
    PROVE  Exchanging!Spec => []Exchanging!DoubledOnlyIfBroken
<1>1. ExchangingTypes /\ ExchangingExchangeInv => Exchanging!DoubledOnlyIfBroken
  BY DEF ExchangingTypes, Exchanging!TypeOK, ExchangingExchangeInv, ExchangingLinkInv,
     Exchanging!DoubledOnlyIfBroken
<1> QED BY <1>1, ExchangingTypeInit, ExchangingTypeStep, ExchangingExchangeInvInit,
           ExchangingExchangeInvStep, PTL DEF Exchanging!Spec

LEMMA ExchangingTypeCorrect == Exchanging!Spec => []Exchanging!TypeOK
<1>1. ExchangingTypes => Exchanging!TypeOK
  BY DEF ExchangingTypes
<1> QED BY <1>1, ExchangingTypeInit, ExchangingTypeStep, PTL DEF Exchanging!Spec

-----------------------------------------------------------------------------
(* StateReader: for any number of readers and keys.                        *)

ReadingStages == {"idle", "issue", "keep", "ask", "issue again", "keep again", "ask again"}

ReadingCall == [stage : ReadingStages, key : 1..MaxKeys \cup {None}, own : SUBSET (Nat \ {0}),
         answer : {"none", "value", "unknown", "failed", "refused"}]

ReadingTaskTypes ==
    /\ readerTask \in [Task -> ReadingCall]
    /\ \A t \in Task : \A k \in readerTask[t].own : k <= issued

ReadingKeyTypes ==
    /\ cached_api_key \in 1..MaxKeys \cup {None} /\ issued \in 0..MaxKeys
    /\ live \subseteq 1..issued

LEMMA ReadingTypeInit ==
    ASSUME Reading!Parameters
    PROVE  Reading!Init => ReadingKeyTypes /\ ReadingTaskTypes
<1>1. Reading!Idle \in ReadingCall /\ Reading!Idle.own = {}
  BY DEF Reading!Idle, ReadingCall, ReadingStages
<1> QED BY <1>1 DEF Reading!Parameters, Reading!Init, ReadingKeyTypes, ReadingTaskTypes

\* A call that goes to another stage, or ends.
LEMMA ReadingGotoMoves ==
    ASSUME ReadingTaskTypes, NEW t \in Task, NEW s \in ReadingStages, Reading!Goto(t, s)
    PROVE  /\ readerTask' \in [Task -> ReadingCall]
           /\ \A u \in Task : u # t => readerTask'[u] = readerTask[u]
           /\ readerTask'[t].stage = s /\ readerTask'[t].answer = readerTask[t].answer
           /\ readerTask'[t].key = readerTask[t].key
           /\ readerTask'[t].own = readerTask[t].own
BY DEF ReadingTaskTypes, ReadingCall, Reading!Goto

LEMMA ReadingEndMoves ==
    ASSUME ReadingTaskTypes, NEW t \in Task,
           NEW a \in {"value", "unknown", "failed", "refused"},
           Reading!End(t, a)
    PROVE  /\ readerTask' \in [Task -> ReadingCall]
           /\ \A u \in Task : u # t => readerTask'[u] = readerTask[u]
           /\ readerTask'[t].stage = "idle" /\ readerTask'[t].answer = a
           /\ readerTask'[t].key = readerTask[t].key
           /\ readerTask'[t].own = readerTask[t].own
BY DEF ReadingTaskTypes, ReadingCall, Reading!End, ReadingStages

LEMMA ReadingBeginMoves ==
    ASSUME ReadingTaskTypes, ReadingKeyTypes, NEW t \in Task,
           Reading!Begin(t) \/ Reading!Leave(t)
    PROVE  /\ readerTask' \in [Task -> ReadingCall]
           /\ \A u \in Task : u # t => readerTask'[u] = readerTask[u]
           /\ readerTask'[t].stage \in {"idle", "issue", "ask"}
           /\ readerTask'[t].answer = "none"
           /\ readerTask'[t].own = {}
<1>0. Reading!Idle \in ReadingCall
  BY DEF Reading!Idle, ReadingCall, ReadingStages
<1>1. CASE Reading!Leave(t)
  <2>1. readerTask' = [readerTask EXCEPT ![t] = Reading!Idle]
    BY <1>1 DEF Reading!Leave
  <2>2. Reading!Idle.stage = "idle" /\ Reading!Idle.answer = "none"
         /\ Reading!Idle.own = {}
    BY DEF Reading!Idle
  <2> QED BY <1>0, <2>1, <2>2 DEF ReadingTaskTypes
<1>2. CASE Reading!Begin(t)
  <2> DEFINE c == [Reading!Idle EXCEPT !.key = cached_api_key,
                     !.stage = IF cached_api_key = None THEN "issue" ELSE "ask"]
  <2>1. readerTask' = [readerTask EXCEPT ![t] = c]
    BY <1>2 DEF Reading!Begin
  <2>2. c \in ReadingCall
    BY <1>0 DEF ReadingCall, ReadingKeyTypes, ReadingStages
  <2>3. c.stage \in {"issue", "ask"} /\ c.answer = "none" /\ c.own = {}
    BY DEF Reading!Idle
  <2> HIDE DEF c
  <2> QED BY <2>1, <2>2, <2>3 DEF ReadingTaskTypes
<1> QED BY <1>1, <1>2

LEMMA ReadingIssueMoves ==
    ASSUME Reading!Parameters, ReadingTaskTypes, ReadingKeyTypes, NEW t \in Task,
           Reading!Issue(t), ~Reading!End(t, "failed")
    PROVE  /\ readerTask' \in [Task -> ReadingCall]
           /\ \A u \in Task : u # t => readerTask'[u] = readerTask[u]
           /\ readerTask'[t].stage \in {"keep", "keep again"}
           /\ readerTask'[t].answer = readerTask[t].answer
           /\ readerTask'[t].key = issued + 1
           /\ readerTask'[t].own = readerTask[t].own \cup {issued + 1}
<1> DEFINE c == [readerTask[t] EXCEPT !.key = issued + 1, !.own = @ \cup {issued + 1},
                   !.stage = IF @ = "issue" THEN "keep" ELSE "keep again"]
<1>1. readerTask' = [readerTask EXCEPT ![t] = c]
  BY DEF Reading!Issue, ReadingTaskTypes
<1>2. issued + 1 \in 1..MaxKeys /\ issued + 1 \in Nat \ {0}
  <2>1. issued \in 0..MaxKeys /\ issued < MaxKeys /\ MaxKeys \in Nat
    BY DEF Reading!Parameters, Reading!Issue, ReadingKeyTypes
  <2> QED BY <2>1
<1>3. c \in ReadingCall /\ c.key = issued + 1
       /\ c.own = readerTask[t].own \cup {issued + 1}
      /\ c.stage \in {"keep", "keep again"} /\ c.answer = readerTask[t].answer
  BY <1>2 DEF ReadingTaskTypes, ReadingCall, ReadingStages
<1> HIDE DEF c
<1> QED BY <1>1, <1>3 DEF ReadingTaskTypes

LEMMA ReadingTypeStep ==
    ASSUME Reading!Parameters
    PROVE  ReadingKeyTypes /\ ReadingTaskTypes /\ [Reading!Next]_(Reading!vars)
              => (ReadingKeyTypes /\ ReadingTaskTypes)'
<1> SUFFICES ASSUME ReadingKeyTypes, ReadingTaskTypes, [Reading!Next]_(Reading!vars)
             PROVE  (ReadingKeyTypes /\ ReadingTaskTypes)'
  OBVIOUS
<1>0. /\ issued \in Nat /\ MaxKeys \in Nat
      /\ \A t \in Task : readerTask[t].own \subseteq Nat \ {0} /\ readerTask[t].key \in 1..MaxKeys \cup {None}
  BY DEF Reading!Parameters, ReadingKeyTypes, ReadingTaskTypes, ReadingCall
<1>1. ASSUME NEW t \in Task, Reading!Begin(t) \/ Reading!Leave(t)
      PROVE  (ReadingKeyTypes /\ ReadingTaskTypes)'
  <2>1. UNCHANGED <<cached_api_key, issued, live>>
    BY <1>1 DEF Reading!Begin, Reading!Leave
  <2> QED BY <1>1, <2>1, ReadingBeginMoves DEF ReadingKeyTypes, ReadingTaskTypes
<1>2. ASSUME NEW t \in Task, Reading!Issue(t) PROVE (ReadingKeyTypes /\ ReadingTaskTypes)'
  <2>1. issued' = issued + 1 /\ issued < MaxKeys /\ live' = live \cup {issued + 1}
        /\ cached_api_key' = cached_api_key
    BY <1>2 DEF Reading!Issue
  <2>2. ReadingKeyTypes'
    <3>1. issued' \in 0..MaxKeys
      BY <1>0, <2>1
    <3>2. live \subseteq 1..issued
      BY DEF ReadingKeyTypes
    <3>3. live' \subseteq 1..issued'
      BY <1>0, <2>1, <3>2
    <3> QED BY <2>1, <3>1, <3>3 DEF ReadingKeyTypes
  <2>3. CASE Reading!End(t, "failed")
    BY <1>0, <2>1, <2>2, <2>3, ReadingEndMoves DEF ReadingTaskTypes
  <2>4. CASE ~Reading!End(t, "failed")
    <3>1. \A u \in Task : readerTask'[u].own \subseteq readerTask[u].own \cup {issued + 1}
      BY <1>2, <2>4, ReadingIssueMoves
    <3>2. \A u \in Task : \A k \in readerTask'[u].own : k <= issued'
      BY <1>0, <2>1, <3>1 DEF ReadingTaskTypes
    <3> QED BY <1>2, <2>2, <2>4, <3>2, ReadingIssueMoves DEF ReadingTaskTypes
  <2> QED BY <2>3, <2>4
<1>3. ASSUME NEW t \in Task, Reading!IssueFails(t)
      PROVE  (ReadingKeyTypes /\ ReadingTaskTypes)'
  BY <1>3, ReadingEndMoves DEF Reading!IssueFails, ReadingKeyTypes, ReadingTaskTypes
<1>4. ASSUME NEW t \in Task, Reading!Keep(t) PROVE (ReadingKeyTypes /\ ReadingTaskTypes)'
  <2>1. PICK s \in ReadingStages : Reading!Goto(t, s)
    BY <1>4 DEF Reading!Keep, ReadingStages
  <2> QED BY <1>0, <1>4, <2>1, ReadingGotoMoves DEF Reading!Keep, ReadingKeyTypes,
             ReadingTaskTypes
<1>5. ASSUME NEW t \in Task, Reading!Ask(t) PROVE (ReadingKeyTypes /\ ReadingTaskTypes)'
  <2>1. Reading!Goto(t, "issue again") \/ \E a \in {"value", "unknown", "failed", "refused"} : Reading!End(t, a)
    BY <1>5 DEF Reading!Ask
  <2>2. UNCHANGED <<cached_api_key, issued, live>>
    BY <1>5 DEF Reading!Ask
  <2> QED BY <2>1, <2>2, ReadingEndMoves, ReadingGotoMoves DEF ReadingKeyTypes,
             ReadingTaskTypes, ReadingStages
<1>6. CASE Reading!Expire
  BY <1>6 DEF Reading!Expire, ReadingKeyTypes, ReadingTaskTypes
<1>7. CASE UNCHANGED Reading!vars
  BY <1>7 DEF Reading!vars, ReadingKeyTypes, ReadingTaskTypes
<1> QED BY <1>1, <1>2, <1>3, <1>4, <1>5, <1>6, <1>7 DEF Reading!Next

(***************************************************************************)
(* After a refusal a call goes on with a key of its own, whatever key the  *)
(* others leave behind; it is told that it is refused when that key is     *)
(* refused, and a key that was issued before is not issued again.          *)
(***************************************************************************)

ReadingReaderOK(t) ==
    /\ readerTask[t].stage \in {"keep again", "ask again"}
          => readerTask[t].key \in readerTask[t].own
    /\ readerTask[t].answer # "none" => readerTask[t].stage = "idle"
    /\ readerTask[t].answer = "refused" => readerTask[t].key \in readerTask[t].own \ live

ReadingReaderInv == \A t \in Task : ReadingReaderOK(t)

LEMMA ReadingReaderInvInit ==
    ASSUME Reading!Parameters
    PROVE  Reading!Init => ReadingReaderInv
<1>1. Reading!Idle.stage = "idle" /\ Reading!Idle.answer = "none"
  BY DEF Reading!Idle
<1> QED BY <1>1 DEF Reading!Init, ReadingReaderInv, ReadingReaderOK

LEMMA ReadingReaderInvStep ==
    ASSUME Reading!Parameters
    PROVE  ReadingKeyTypes /\ ReadingTaskTypes /\ ReadingReaderInv /\ [Reading!Next]_(Reading!vars) => ReadingReaderInv'
<1> SUFFICES ASSUME ReadingKeyTypes, ReadingTaskTypes, ReadingReaderInv,
                    [Reading!Next]_(Reading!vars), NEW u \in Task
             PROVE  ReadingReaderOK(u)'
  BY DEF ReadingReaderInv
<1> USE DEF ReadingReaderOK
<1>0. ReadingReaderOK(u)
  BY DEF ReadingReaderInv
<1>1. ASSUME NEW t \in Task, Reading!Begin(t) \/ Reading!Leave(t)
      PROVE  ReadingReaderOK(u)'
  <2>1. live' = live
    BY <1>1 DEF Reading!Begin, Reading!Leave
  <2> QED BY <1>0, <1>1, <2>1, ReadingBeginMoves
<1>2. ASSUME NEW t \in Task, Reading!Issue(t) PROVE ReadingReaderOK(u)'
  <2>1. live' = live \cup {issued + 1}
    BY <1>2 DEF Reading!Issue
  <2>2. issued + 1 \notin readerTask[u].own
    <3>1. issued \in Nat /\ ~(issued + 1 <= issued)
      BY DEF Reading!Parameters, ReadingKeyTypes
    <3> QED BY <3>1 DEF ReadingTaskTypes
  <2>3. readerTask[t].answer = "none"
    BY <1>2 DEF Reading!Issue, ReadingReaderInv
  <2>4. CASE Reading!End(t, "failed")
    BY <1>0, <2>1, <2>2, <2>4, ReadingEndMoves
  <2>5. CASE ~Reading!End(t, "failed")
    BY <1>0, <1>2, <2>1, <2>2, <2>3, <2>5, ReadingIssueMoves
  <2> QED BY <2>4, <2>5
<1>3. ASSUME NEW t \in Task, Reading!IssueFails(t) PROVE ReadingReaderOK(u)'
  BY <1>0, <1>3, ReadingEndMoves DEF Reading!IssueFails
<1>4. ASSUME NEW t \in Task, Reading!Keep(t) PROVE ReadingReaderOK(u)'
  <2>1. live' = live /\ readerTask[t].answer = "none" /\ ReadingReaderOK(t)
    BY <1>4 DEF Reading!Keep, ReadingReaderInv
  <2>2. CASE readerTask[t].stage = "keep"
    <3>1. Reading!Goto(t, "ask")
      BY <1>4, <2>2 DEF Reading!Keep
    <3> QED BY <1>0, <2>1, <3>1, ReadingGotoMoves DEF ReadingStages
  <2>3. CASE readerTask[t].stage = "keep again"
    <3>1. Reading!Goto(t, "ask again")
      BY <1>4, <2>3 DEF Reading!Keep
    <3> QED BY <1>0, <2>1, <2>3, <3>1, ReadingGotoMoves DEF ReadingStages
  <2> QED BY <1>4, <2>2, <2>3 DEF Reading!Keep
<1>5. ASSUME NEW t \in Task, Reading!Ask(t) PROVE ReadingReaderOK(u)'
  <2>1. live' = live /\ readerTask[t].answer = "none" /\ ReadingReaderOK(t)
    BY <1>5 DEF Reading!Ask, ReadingReaderInv
  <2>2. CASE Reading!Goto(t, "issue again")
    BY <1>0, <2>1, <2>2, ReadingGotoMoves DEF ReadingStages
  <2>3. CASE \E a \in {"value", "unknown", "failed"} : Reading!End(t, a)
    BY <1>0, <2>1, <2>3, ReadingEndMoves
  <2>4. CASE readerTask[t].key \notin live /\ readerTask[t].stage = "ask again"
         /\ Reading!End(t, "refused")
    BY <1>0, <2>1, <2>4, ReadingEndMoves
  <2> QED BY <1>5, <2>2, <2>3, <2>4 DEF Reading!Ask
<1>6. CASE Reading!Expire
  BY <1>0, <1>6 DEF Reading!Expire
<1>7. CASE UNCHANGED Reading!vars
  BY <1>0, <1>7 DEF Reading!vars
<1> QED BY <1>1, <1>2, <1>3, <1>4, <1>5, <1>6, <1>7 DEF Reading!Next

\* A reader is told that it is refused only if a key that it was issued itself, in
\* this call, expired before it was used.
LEMMA ReadingRefusedOnItsOwn ==
    ASSUME Reading!Parameters
    PROVE  Reading!Spec => []Reading!RefusedWithOwnKey
<1>1. ReadingReaderInv => Reading!RefusedWithOwnKey
  BY DEF ReadingReaderInv, ReadingReaderOK, Reading!RefusedWithOwnKey
<1> QED BY <1>1, ReadingTypeInit, ReadingTypeStep, ReadingReaderInvInit,
           ReadingReaderInvStep, PTL DEF Reading!Spec

\* A key of a call is one that was issued.
LEMMA ReadingTypesSuffice ==
    ASSUME Reading!Parameters, ReadingKeyTypes, ReadingTaskTypes
    PROVE  Reading!TypeOK
<1>1. \A t \in Task : readerTask[t].own \in SUBSET (1..issued)
  <2>1. issued \in Nat /\ \A t \in Task : readerTask[t].own \subseteq Nat \ {0}
    BY DEF Reading!Parameters, ReadingKeyTypes, ReadingTaskTypes, ReadingCall
  <2>2. \A t \in Task : \A k \in readerTask[t].own : k \in 1..issued
    BY <2>1 DEF ReadingTaskTypes
  <2> QED BY <2>2
<1>2. \A t \in Task :
         readerTask[t] \in [stage : {"idle", "issue", "keep", "ask", "issue again", "keep again",
                                "ask again"},
                       key : 1..MaxKeys \cup {None}, own : SUBSET (1..issued),
                       answer : {"none", "value", "unknown", "failed", "refused"}]
  BY <1>1 DEF ReadingTaskTypes, ReadingCall, ReadingStages
<1> QED BY <1>2 DEF Reading!TypeOK, ReadingKeyTypes, ReadingTaskTypes

LEMMA ReadingTypeCorrect ==
    ASSUME Reading!Parameters
    PROVE  Reading!Spec => []Reading!TypeOK
BY ReadingTypeInit, ReadingTypeStep, ReadingTypesSuffice, PTL DEF Reading!Spec

-----------------------------------------------------------------------------
(* DualWrite: for any number of callers, names, owners, addresses and late *)
(* requests, and every failure of either store.                            *)

WritingRecord == [owner : Owner \cup {None}, ip : Ip \cup {None}]
WritingRequest == [store : {"postgres", "aruaru"}, name : Subdomain, rec : WritingRecord]
WritingCall == [stage : {"idle", "postgres", "aruaru"}, name : Subdomain \cup {None},
                rec : WritingRecord, met : BOOLEAN]

\* The records of the two stores.
WritingStores ==
    /\ postgres \in [Subdomain -> WritingRecord]
    /\ aruaru \in [Subdomain -> WritingRecord]
    /\ held \in [Subdomain -> SUBSET (Ip \cup {None})]

\* A call that is under way has a name.
WritingCalls ==
    /\ dualTask \in [Task -> WritingCall]
    /\ dualLate \in [Writing!Slot -> WritingRequest \cup {None}]
    /\ doubted \subseteq Subdomain
    /\ \A t \in Task : dualTask[t].stage # "idle" => dualTask[t].name \in Subdomain

\* An address is in PostgreSQL before it goes on to aruaru-db.
WritingFirstInv ==
    /\ \A t \in Task : dualTask[t].stage = "aruaru" => dualTask[t].rec.ip \in held[dualTask[t].name]
    /\ \A i \in Writing!Slot : dualLate[i] # None /\ dualLate[i].store = "aruaru" =>
          dualLate[i].rec.ip \in held[dualLate[i].name]
    /\ \A n \in Subdomain : aruaru[n] # Writing!Absent => aruaru[n].ip \in held[n]

(***************************************************************************)
(* Calls for one name that are under way at the same time know it, and     *)
(* doubt the name, as a request at large does. So PostgreSQL still has the *)
(* address of a call that met no other when aruaru-db is told, and nothing *)
(* is at large that would change it.                                       *)
(***************************************************************************)
WritingDoubtInv ==
    /\ \A t, u \in Task :
          t # u /\ dualTask[t].stage # "idle" /\ dualTask[u].stage # "idle"
                /\ dualTask[t].name = dualTask[u].name => dualTask[t].met
    /\ \A t \in Task : dualTask[t].stage # "idle" /\ dualTask[t].met => dualTask[t].name \in doubted
    /\ \A i \in Writing!Slot : dualLate[i] # None => dualLate[i].name \in doubted
    /\ \A t \in Task : dualTask[t].stage = "aruaru" /\ ~dualTask[t].met =>
          /\ postgres[dualTask[t].name].ip = dualTask[t].rec.ip
          /\ ~Writing!AtLarge("postgres", dualTask[t].name)
    /\ \A n \in Subdomain \ doubted :
          (\A t \in Task : dualTask[t].stage # "idle" => dualTask[t].name # n)
             => postgres[n].ip = aruaru[n].ip

WritingInv == WritingStores /\ WritingCalls /\ WritingFirstInv /\ WritingDoubtInv

LEMMA WritingIdleIs == Writing!Idle \in WritingCall /\ Writing!Idle.stage = "idle"
<1>1. FALSE \in BOOLEAN
  BY Zenon
<1> QED BY <1>1 DEF Writing!Idle, Writing!Absent, WritingCall, WritingRecord

LEMMA WritingInvInit == Writing!Init => WritingInv
<1> SUFFICES ASSUME Writing!Init PROVE WritingInv
  OBVIOUS
<1>1. WritingStores
  BY DEF Writing!Init, WritingStores, WritingRecord, Writing!Absent
<1>2. WritingCalls /\ \A t \in Task : dualTask[t].stage = "idle"
  BY WritingIdleIs DEF Writing!Init, WritingCalls
<1>3. WritingFirstInv
  BY <1>2 DEF Writing!Init, WritingFirstInv
<1>4. WritingDoubtInv
  BY <1>2 DEF Writing!Init, WritingDoubtInv
<1> QED BY <1>1, <1>2, <1>3, <1>4 DEF WritingInv

\* What becomes of the stores when one of them makes a change.
WritingChange(w) ==
    /\ WritingStores'
    /\ \A m \in Subdomain : m # w.name => postgres'[m] = postgres[m] /\ aruaru'[m] = aruaru[m]
    /\ \A m \in Subdomain : held[m] \subseteq held'[m]
    /\ w.store = "postgres" =>
          aruaru' = aruaru /\ postgres'[w.name].ip = w.rec.ip /\ w.rec.ip \in held'[w.name]
    /\ w.store = "aruaru" => postgres' = postgres /\ aruaru'[w.name] = w.rec

LEMMA WritingTakenIs ==
    ASSUME WritingStores, NEW w \in WritingRequest, Writing!Taken(w)
    PROVE  WritingChange(w)
<1>1. w.name \in Subdomain /\ w.rec \in WritingRecord /\ w.store \in {"postgres", "aruaru"}
      /\ w.rec.ip \in Ip \cup {None}
  BY DEF WritingRequest, WritingRecord
<1>2. CASE w.store = "postgres"
  <2>1. /\ Writing!Upserted(w.name, w.rec) \in WritingRecord
        /\ Writing!Upserted(w.name, w.rec).ip = w.rec.ip
    BY <1>1 DEF Writing!Upserted, WritingStores, WritingRecord
  <2>2. /\ postgres' = [postgres EXCEPT ![w.name] = Writing!Upserted(w.name, w.rec)]
        /\ aruaru' = aruaru
        /\ held' = [held EXCEPT ![w.name] = held[w.name] \cup {w.rec.ip}]
    BY <1>2 DEF Writing!Taken
  <2>3. WritingStores'
    BY <1>1, <2>1, <2>2 DEF WritingStores
  <2> QED BY <1>1, <1>2, <2>1, <2>2, <2>3 DEF WritingStores, WritingChange
<1>3. CASE w.store = "aruaru"
  <2>1. postgres' = postgres /\ held' = held /\ aruaru' = [aruaru EXCEPT ![w.name] = w.rec]
    BY <1>3 DEF Writing!Taken
  <2>2. WritingStores'
    BY <1>1, <2>1 DEF WritingStores
  <2> QED BY <1>1, <1>3, <2>1, <2>2 DEF WritingStores, WritingChange
<1> QED BY <1>1, <1>2, <1>3

\* What a call asks of its store.
LEMMA WritingWriteIs ==
    ASSUME WritingCalls, NEW t \in Task, dualTask[t].stage # "idle"
    PROVE  /\ Writing!Write(t) \in WritingRequest
           /\ Writing!Write(t).store = dualTask[t].stage
           /\ Writing!Write(t).name = dualTask[t].name
           /\ Writing!Write(t).rec = dualTask[t].rec
BY DEF Writing!Write, WritingCalls, WritingCall, WritingRequest

LEMMA WritingCallStep ==
    ASSUME WritingInv, NEW t \in Task, Writing!Call(t)
    PROVE  WritingInv'
<1> USE DEF WritingInv
<1>1. PICK n \in Subdomain, o \in Owner, ip \in Ip :
        LET others == {v \in Task : dualTask[v].name = n}
        IN  /\ dualTask' = [u \in Task |->
                  IF u = t THEN [stage |-> "postgres", name |-> n,
                                 rec |-> [owner |-> o, ip |-> ip], met |-> others # {}]
                  ELSE IF u \in others THEN [dualTask[u] EXCEPT !.met = TRUE] ELSE dualTask[u]]
            /\ doubted' = IF others # {} THEN doubted \cup {n} ELSE doubted
  BY DEF Writing!Call
<1> DEFINE others == {v \in Task : dualTask[v].name = n}
<1>2. UNCHANGED <<postgres, aruaru, dualLate, held>> /\ dualTask[t].stage = "idle"
  BY DEF Writing!Call
<1>3. dualTask' \in [Task -> WritingCall]
  <2>1. [stage |-> "postgres", name |-> n, rec |-> [owner |-> o, ip |-> ip],
         met |-> others # {}] \in WritingCall
    <3>1. (others # {}) \in BOOLEAN
      BY Zenon
    <3> QED BY <3>1 DEF WritingCall, WritingRecord
  <2>2. \A u \in Task : dualTask[u] \in WritingCall
                        /\ [dualTask[u] EXCEPT !.met = TRUE] \in WritingCall
    <3>1. TRUE \in BOOLEAN
      BY Zenon
    <3> QED BY <3>1 DEF WritingCalls, WritingCall
  <2> HIDE DEF WritingInv
  <2> QED BY <1>1, <2>1, <2>2
<1>4. /\ dualTask'[t].stage = "postgres" /\ dualTask'[t].name = n
      /\ dualTask'[t].met <=> others # {}
  BY <1>1
<1>5. \A u \in Task \ {t} :
         /\ dualTask'[u].stage = dualTask[u].stage /\ dualTask'[u].name = dualTask[u].name
         /\ dualTask'[u].rec = dualTask[u].rec
         /\ dualTask'[u].met <=> dualTask[u].met \/ u \in others
  BY <1>1 DEF WritingCalls, WritingCall
<1>6. /\ doubted \subseteq doubted' /\ doubted' \subseteq doubted \cup {n}
      /\ others # {} => n \in doubted'
  BY <1>1
<1>7. WritingStores'
  BY <1>2 DEF WritingStores
<1>8. WritingCalls'
  BY <1>2, <1>3, <1>4, <1>5, <1>6 DEF WritingCalls
<1>9. WritingFirstInv'
  BY <1>2, <1>4, <1>5 DEF WritingFirstInv
<1>10. WritingDoubtInv'
  <2>1. \A u, v \in Task :
           u # v /\ dualTask'[u].stage # "idle" /\ dualTask'[v].stage # "idle"
                 /\ dualTask'[u].name = dualTask'[v].name => dualTask'[u].met
    <3>1. \A v \in Task \ {t} : dualTask'[v].name = n => v \in others
      BY <1>5
    <3> QED BY <1>4, <1>5, <3>1 DEF WritingDoubtInv
  <2>2. \A u \in Task : dualTask'[u].stage # "idle" /\ dualTask'[u].met
                           => dualTask'[u].name \in doubted'
    BY <1>4, <1>5, <1>6 DEF WritingDoubtInv
  <2>3. \A i \in Writing!Slot : dualLate'[i] # None => dualLate'[i].name \in doubted'
    BY <1>2, <1>6 DEF WritingDoubtInv
  <2>4. \A u \in Task : dualTask'[u].stage = "aruaru" /\ ~dualTask'[u].met =>
           /\ postgres'[dualTask'[u].name].ip = dualTask'[u].rec.ip
           /\ ~Writing!AtLarge("postgres", dualTask[u].name)'
    BY <1>2, <1>4, <1>5 DEF WritingDoubtInv, Writing!AtLarge
  <2>5. \A m \in Subdomain \ doubted' :
           (\A u \in Task : dualTask'[u].stage # "idle" => dualTask'[u].name # m)
              => postgres'[m].ip = aruaru'[m].ip
    BY <1>2, <1>5, <1>6 DEF WritingDoubtInv
  <2> QED BY <2>1, <2>2, <2>3, <2>4, <2>5 DEF WritingDoubtInv, Writing!AtLarge
<1> QED BY <1>7, <1>8, <1>9, <1>10

LEMMA WritingInsertStep ==
    ASSUME WritingInv, NEW t \in Task, Writing!Insert(t)
    PROVE  WritingInv'
<1> USE DEF WritingInv
<1> DEFINE n == dualTask[t].name
           rec == dualTask[t].rec
<1>1. /\ dualTask[t].stage = "postgres" /\ n \in Subdomain
      /\ UNCHANGED <<dualLate, doubted>> /\ ~Writing!AtLarge("postgres", n)
      /\ WritingChange(Writing!Write(t))
  BY WritingWriteIs, WritingTakenIs DEF Writing!Insert, Writing!Free, WritingCalls
<1>2. /\ WritingStores' /\ aruaru' = aruaru
      /\ postgres'[n].ip = rec.ip /\ rec.ip \in held'[n]
      /\ \A m \in Subdomain : m # n => postgres'[m] = postgres[m]
      /\ \A m \in Subdomain : held[m] \subseteq held'[m]
  BY <1>1, WritingWriteIs DEF WritingChange
<1>3. /\ dualTask' \in [Task -> WritingCall]
      /\ \A u \in Task : /\ dualTask'[u].stage = IF u = t THEN "aruaru" ELSE dualTask[u].stage
                         /\ dualTask'[u].name = dualTask[u].name
                         /\ dualTask'[u].rec = dualTask[u].rec
                         /\ dualTask'[u].met = dualTask[u].met
  BY DEF Writing!Insert, WritingCalls, WritingCall
<1>4. WritingCalls'
  BY <1>1, <1>3 DEF WritingCalls
<1>5. WritingFirstInv'
  BY <1>1, <1>2, <1>3 DEF WritingFirstInv, WritingCalls, WritingRequest
<1>6. WritingDoubtInv'
  <2>1. \A u, v \in Task :
           u # v /\ dualTask'[u].stage # "idle" /\ dualTask'[v].stage # "idle"
                 /\ dualTask'[u].name = dualTask'[v].name => dualTask'[u].met
    BY <1>1, <1>3 DEF WritingDoubtInv
  <2>2. /\ \A u \in Task : dualTask'[u].stage # "idle" /\ dualTask'[u].met
                              => dualTask'[u].name \in doubted'
        /\ \A i \in Writing!Slot : dualLate'[i] # None => dualLate'[i].name \in doubted'
    BY <1>1, <1>3 DEF WritingDoubtInv
  <2>3. \A u \in Task : dualTask'[u].stage = "aruaru" /\ ~dualTask'[u].met =>
           /\ postgres'[dualTask'[u].name].ip = dualTask'[u].rec.ip
           /\ ~Writing!AtLarge("postgres", dualTask[u].name)'
    <3>1. SUFFICES ASSUME NEW u \in Task, dualTask'[u].stage = "aruaru", ~dualTask'[u].met
                   PROVE  /\ postgres'[dualTask'[u].name].ip = dualTask'[u].rec.ip
                          /\ ~Writing!AtLarge("postgres", dualTask[u].name)'
      OBVIOUS
    <3>2. CASE u = t
      BY <1>1, <1>2, <1>3, <3>2 DEF Writing!AtLarge
    <3>3. CASE u # t
      <4>1. /\ dualTask[u].stage = "aruaru" /\ ~dualTask[u].met /\ dualTask[u].name # n
            /\ dualTask[u].name \in Subdomain
        BY <1>1, <1>3, <3>1, <3>3 DEF WritingDoubtInv, WritingCalls
      <4> QED BY <1>1, <1>2, <1>3, <3>3, <4>1 DEF WritingDoubtInv, Writing!AtLarge
    <3> QED BY <3>2, <3>3
  <2>4. \A m \in Subdomain \ doubted' :
           (\A u \in Task : dualTask'[u].stage # "idle" => dualTask'[u].name # m)
              => postgres'[m].ip = aruaru'[m].ip
    BY <1>1, <1>2, <1>3 DEF WritingDoubtInv
  <2> QED BY <2>1, <2>2, <2>3, <2>4 DEF WritingDoubtInv, Writing!AtLarge
<1> QED BY <1>2, <1>4, <1>5, <1>6

LEMMA WritingRecordStep ==
    ASSUME WritingInv, NEW t \in Task, Writing!RecordChange(t)
    PROVE  WritingInv'
<1> USE DEF WritingInv
<1> DEFINE n == dualTask[t].name
           rec == dualTask[t].rec
<1>1. /\ dualTask[t].stage = "aruaru" /\ n \in Subdomain
      /\ UNCHANGED dualLate /\ WritingChange(Writing!Write(t))
      /\ dualTask' = [dualTask EXCEPT ![t] = Writing!Idle]
      /\ doubted' = IF dualTask[t].met
                       \/ (\E s \in {"postgres", "aruaru"} : Writing!AtLarge(s, n))
                    THEN doubted ELSE doubted \ {n}
  BY WritingWriteIs, WritingTakenIs DEF Writing!RecordChange, WritingCalls
<1>2. /\ WritingStores' /\ postgres' = postgres /\ aruaru'[n] = rec
      /\ \A m \in Subdomain : m # n => aruaru'[m] = aruaru[m]
      /\ \A m \in Subdomain : held[m] \subseteq held'[m]
  BY <1>1, WritingWriteIs DEF WritingChange
<1>3. /\ dualTask' \in [Task -> WritingCall] /\ dualTask'[t].stage = "idle"
      /\ \A u \in Task \ {t} : dualTask'[u] = dualTask[u]
  BY <1>1, WritingIdleIs DEF WritingCalls
<1>4. WritingCalls'
  BY <1>1, <1>3 DEF WritingCalls
<1>5. WritingFirstInv'
  BY <1>1, <1>2, <1>3 DEF WritingFirstInv, WritingCalls, WritingRequest
<1>6. WritingDoubtInv'
  <2>1. n \notin doubted' =>
           /\ ~dualTask[t].met
           /\ \A u \in Task \ {t} : dualTask[u].stage # "idle" => dualTask[u].name # n
           /\ \A i \in Writing!Slot : dualLate[i] # None => dualLate[i].name # n
    <3>1. n \notin doubted' => ~dualTask[t].met /\ \A s \in {"postgres", "aruaru"} : ~Writing!AtLarge(s, n)
      <4>1. dualTask[t].met => n \in doubted
        BY <1>1 DEF WritingDoubtInv
      <4>2. ASSUME NEW s \in {"postgres", "aruaru"}, Writing!AtLarge(s, n) PROVE n \in doubted
        BY <4>2 DEF WritingDoubtInv, Writing!AtLarge
      <4> QED BY <1>1, <4>1, <4>2
    <3>2. \A i \in Writing!Slot : dualLate[i] # None => dualLate[i].store \in {"postgres", "aruaru"}
      BY DEF WritingCalls, WritingRequest
    <3> QED BY <1>1, <3>1, <3>2 DEF WritingDoubtInv, Writing!AtLarge
  <2>2. doubted \ {n} \subseteq doubted' /\ doubted' \subseteq doubted
    BY <1>1
  <2>3. \A u, v \in Task :
           u # v /\ dualTask'[u].stage # "idle" /\ dualTask'[v].stage # "idle"
                 /\ dualTask'[u].name = dualTask'[v].name => dualTask'[u].met
    BY <1>3 DEF WritingDoubtInv
  <2>4. /\ \A u \in Task : dualTask'[u].stage # "idle" /\ dualTask'[u].met
                              => dualTask'[u].name \in doubted'
        /\ \A i \in Writing!Slot : dualLate'[i] # None => dualLate'[i].name \in doubted'
    BY <1>1, <1>3, <2>1, <2>2 DEF WritingDoubtInv
  <2>5. \A u \in Task : dualTask'[u].stage = "aruaru" /\ ~dualTask'[u].met =>
           /\ postgres'[dualTask'[u].name].ip = dualTask'[u].rec.ip
           /\ ~Writing!AtLarge("postgres", dualTask[u].name)'
    BY <1>1, <1>2, <1>3 DEF WritingDoubtInv, Writing!AtLarge
  <2>6. \A m \in Subdomain \ doubted' :
           (\A u \in Task : dualTask'[u].stage # "idle" => dualTask'[u].name # m)
              => postgres'[m].ip = aruaru'[m].ip
    <3>1. SUFFICES ASSUME NEW m \in Subdomain \ doubted',
                          \A u \in Task : dualTask'[u].stage # "idle" => dualTask'[u].name # m
                   PROVE  postgres'[m].ip = aruaru'[m].ip
      OBVIOUS
    <3>2. CASE m = n
      BY <1>1, <1>2, <2>1, <3>1, <3>2 DEF WritingDoubtInv
    <3>3. CASE m # n
      <4>1. m \notin doubted /\ \A u \in Task : dualTask[u].stage # "idle" => dualTask[u].name # m
        BY <1>3, <2>2, <3>1, <3>3
      <4> QED BY <1>2, <3>3, <4>1 DEF WritingDoubtInv
    <3> QED BY <3>2, <3>3
  <2> QED BY <2>3, <2>4, <2>5, <2>6 DEF WritingDoubtInv, Writing!AtLarge
<1> QED BY <1>2, <1>4, <1>5, <1>6

\* A call that fails leaves the change made, unmade or at large.
LEMMA WritingFailStep ==
    ASSUME WritingInv, NEW t \in Task, Writing!Fail(t)
    PROVE  WritingInv'
<1> USE DEF WritingInv
<1> DEFINE n == dualTask[t].name
           w == Writing!Write(t)
<1>1. /\ dualTask[t].stage # "idle" /\ n \in Subdomain
      /\ dualTask' = [dualTask EXCEPT ![t] = Writing!Idle]
      /\ doubted' = doubted \cup {n}
  BY DEF Writing!Fail, WritingCalls
<1>2. w \in WritingRequest /\ w.name = n /\ w.rec = dualTask[t].rec /\ w.store = dualTask[t].stage
  BY <1>1, WritingWriteIs
<1> HIDE DEF w
<1>3. \/ UNCHANGED <<postgres, aruaru, held>>
      \/ WritingChange(w) /\ (w.store = "postgres" => ~Writing!AtLarge("postgres", n))
  BY <1>2, WritingTakenIs DEF Writing!Fail, Writing!Free, w
<1>4. /\ WritingStores'
      /\ \A m \in Subdomain : m # n => postgres'[m] = postgres[m] /\ aruaru'[m] = aruaru[m]
      /\ \A m \in Subdomain : held[m] \subseteq held'[m]
      /\ aruaru'[n] = aruaru[n] \/ (w.store = "aruaru" /\ aruaru'[n] = w.rec)
  <2>1. CASE UNCHANGED <<postgres, aruaru, held>>
    BY <2>1 DEF WritingStores
  <2>2. CASE WritingChange(w)
    BY <1>2, <2>2 DEF WritingChange, WritingRequest
  <2> QED BY <1>3, <2>1, <2>2
<1>5. /\ dualLate' \in [Writing!Slot -> WritingRequest \cup {None}]
      /\ \A i \in Writing!Slot : dualLate'[i] = dualLate[i] \/ dualLate'[i] = w
  <2>1. CASE UNCHANGED dualLate
    BY <2>1 DEF WritingCalls
  <2>2. CASE \E i \in Writing!Slot : dualLate[i] = None /\ dualLate' = [dualLate EXCEPT ![i] = w]
    BY <1>2, <2>2 DEF WritingCalls
  <2> QED BY <2>1, <2>2 DEF Writing!Fail, w
<1>6. /\ dualTask' \in [Task -> WritingCall] /\ dualTask'[t].stage = "idle"
      /\ \A u \in Task \ {t} : dualTask'[u] = dualTask[u]
  BY <1>1, WritingIdleIs DEF WritingCalls
<1>7. WritingCalls'
  BY <1>1, <1>5, <1>6 DEF WritingCalls
<1>8. WritingFirstInv'
  <2>1. w.store = "aruaru" => w.rec.ip \in held'[n]
    BY <1>1, <1>2, <1>4 DEF WritingFirstInv
  <2>2. \A u \in Task : dualTask'[u].stage = "aruaru" =>
           dualTask'[u].rec.ip \in held'[dualTask'[u].name]
    BY <1>4, <1>6 DEF WritingFirstInv, WritingCalls
  <2>3. \A i \in Writing!Slot : dualLate'[i] # None /\ dualLate'[i].store = "aruaru" =>
           dualLate'[i].rec.ip \in held'[dualLate'[i].name]
    BY <1>2, <1>4, <1>5, <2>1 DEF WritingFirstInv, WritingCalls, WritingRequest
  <2>4. \A m \in Subdomain : aruaru'[m] # Writing!Absent => aruaru'[m].ip \in held'[m]
    BY <1>4, <2>1 DEF WritingFirstInv
  <2> QED BY <2>2, <2>3, <2>4 DEF WritingFirstInv
<1>9. WritingDoubtInv'
  <2>1. \A u, v \in Task :
           u # v /\ dualTask'[u].stage # "idle" /\ dualTask'[v].stage # "idle"
                 /\ dualTask'[u].name = dualTask'[v].name => dualTask'[u].met
    BY <1>6 DEF WritingDoubtInv
  <2>2. /\ \A u \in Task : dualTask'[u].stage # "idle" /\ dualTask'[u].met
                              => dualTask'[u].name \in doubted'
        /\ \A i \in Writing!Slot : dualLate'[i] # None => dualLate'[i].name \in doubted'
    BY <1>1, <1>2, <1>5, <1>6 DEF WritingDoubtInv
  <2>3. ASSUME NEW u \in Task, dualTask'[u].stage = "aruaru", ~dualTask'[u].met
        PROVE  /\ postgres'[dualTask'[u].name].ip = dualTask'[u].rec.ip
               /\ ~Writing!AtLarge("postgres", dualTask[u].name)'
    <3>1. /\ u # t /\ dualTask'[u] = dualTask[u] /\ dualTask[u].name # n
          /\ dualTask[u].name \in Subdomain
      BY <1>1, <1>6, <2>3 DEF WritingDoubtInv, WritingCalls
    <3>2. \A i \in Writing!Slot : dualLate'[i] # None /\ dualLate'[i].name = dualTask[u].name
             => dualLate'[i] = dualLate[i]
      BY <1>2, <1>5, <3>1
    <3> QED BY <1>4, <2>3, <3>1, <3>2 DEF WritingDoubtInv, Writing!AtLarge
  <2>4. \A m \in Subdomain \ doubted' :
           (\A u \in Task : dualTask'[u].stage # "idle" => dualTask'[u].name # m)
              => postgres'[m].ip = aruaru'[m].ip
    BY <1>1, <1>4, <1>6 DEF WritingDoubtInv
  <2> QED BY <2>1, <2>2, <2>3, <2>4 DEF WritingDoubtInv, Writing!AtLarge
<1> QED BY <1>4, <1>7, <1>8, <1>9

\* A request at large changes a name that is in doubt already.
LEMMA WritingLandStep ==
    ASSUME WritingInv, NEW i \in Writing!Slot, Writing!Land(i)
    PROVE  WritingInv'
<1> USE DEF WritingInv
<1> DEFINE w == dualLate[i]
<1>1. /\ w # None /\ dualLate' = [dualLate EXCEPT ![i] = None]
      /\ UNCHANGED <<dualTask, doubted>>
  BY DEF Writing!Land
<1>2. w \in WritingRequest /\ w.name \in doubted /\ w.name \in Subdomain
      /\ (w.store = "postgres" => Writing!AtLarge("postgres", w.name))
      /\ (w.store = "aruaru" => w.rec.ip \in held[w.name])
  BY <1>1 DEF WritingCalls, WritingRequest, WritingDoubtInv, WritingFirstInv, Writing!AtLarge
<1>3. UNCHANGED <<postgres, aruaru, held>> \/ WritingChange(w)
  BY <1>2, WritingTakenIs DEF Writing!Land
<1> HIDE DEF w
<1>4. /\ WritingStores'
      /\ \A m \in Subdomain : m # w.name => postgres'[m] = postgres[m] /\ aruaru'[m] = aruaru[m]
      /\ \A m \in Subdomain : held[m] \subseteq held'[m]
      /\ aruaru'[w.name] = aruaru[w.name] \/ (w.store = "aruaru" /\ aruaru'[w.name] = w.rec)
      /\ postgres' = postgres \/ w.store = "postgres"
  <2>1. CASE UNCHANGED <<postgres, aruaru, held>>
    BY <2>1 DEF WritingStores
  <2>2. CASE WritingChange(w)
    BY <1>2, <2>2 DEF WritingChange, WritingRequest
  <2> QED BY <1>3, <2>1, <2>2
<1>5. /\ dualLate' \in [Writing!Slot -> WritingRequest \cup {None}]
      /\ \A j \in Writing!Slot : dualLate'[j] # None => dualLate'[j] = dualLate[j]
  BY <1>1 DEF WritingCalls
<1>6. WritingCalls'
  BY <1>1, <1>5 DEF WritingCalls
<1>7. WritingFirstInv'
  <2>1. \A j \in Writing!Slot : dualLate'[j] # None /\ dualLate'[j].store = "aruaru" =>
           dualLate'[j].rec.ip \in held'[dualLate'[j].name]
    BY <1>4, <1>5 DEF WritingFirstInv, WritingCalls, WritingRequest
  <2>2. \A u \in Task : dualTask'[u].stage = "aruaru" =>
           dualTask'[u].rec.ip \in held'[dualTask'[u].name]
    BY <1>1, <1>4 DEF WritingFirstInv, WritingCalls
  <2>3. \A m \in Subdomain : aruaru'[m] # Writing!Absent => aruaru'[m].ip \in held'[m]
    BY <1>2, <1>4 DEF WritingFirstInv
  <2> QED BY <2>1, <2>2, <2>3 DEF WritingFirstInv
<1>8. WritingDoubtInv'
  <2>1. ASSUME NEW u \in Task, dualTask'[u].stage = "aruaru", ~dualTask'[u].met
        PROVE  /\ postgres'[dualTask'[u].name].ip = dualTask'[u].rec.ip
               /\ ~Writing!AtLarge("postgres", dualTask[u].name)'
    <3>1. /\ dualTask'[u] = dualTask[u] /\ dualTask[u].name \in Subdomain
          /\ postgres[dualTask[u].name].ip = dualTask[u].rec.ip
          /\ ~Writing!AtLarge("postgres", dualTask[u].name)
      BY <1>1, <2>1 DEF WritingDoubtInv, WritingCalls
    <3>2. postgres'[dualTask[u].name] = postgres[dualTask[u].name]
      BY <1>2, <1>4, <3>1
    <3> QED BY <1>5, <3>1, <3>2 DEF Writing!AtLarge
  <2>2. \A m \in Subdomain \ doubted' :
           (\A u \in Task : dualTask'[u].stage # "idle" => dualTask'[u].name # m)
              => postgres'[m].ip = aruaru'[m].ip
    BY <1>1, <1>2, <1>4 DEF WritingDoubtInv
  <2> QED BY <1>1, <1>5, <2>1, <2>2 DEF WritingDoubtInv, Writing!AtLarge
<1> QED BY <1>4, <1>6, <1>7, <1>8

LEMMA WritingInvStep == WritingInv /\ [Writing!Next]_(Writing!vars) => WritingInv'
<1>1. WritingInv /\ UNCHANGED Writing!vars => WritingInv'
  BY DEF Writing!vars, WritingInv, WritingStores, WritingCalls, WritingFirstInv, WritingDoubtInv,
     Writing!AtLarge
<1> QED BY <1>1, WritingCallStep, WritingInsertStep, WritingRecordStep, WritingFailStep,
           WritingLandStep DEF Writing!Next

LEMMA WritingTypeCorrect == Writing!Spec => []Writing!TypeOK
<1>1. WritingInv => Writing!TypeOK
  BY DEF WritingInv, WritingStores, WritingCalls, Writing!TypeOK, WritingRecord, WritingRequest,
     WritingCall
<1> QED BY <1>1, WritingInvInit, WritingInvStep, PTL DEF Writing!Spec

\* aruaru-db never holds an address that PostgreSQL, the authority, never had,
\* however the calls interleave, whichever store fails and however late a request
\* is taken.
LEMMA WritingAuthorityComesFirst == Writing!Spec => []Writing!AuthorityFirst
<1>1. WritingInv => Writing!AuthorityFirst
  BY DEF WritingInv, WritingFirstInv, Writing!AuthorityFirst
<1> QED BY <1>1, WritingInvInit, WritingInvStep, PTL DEF Writing!Spec

\* Stores that differ have a write under way, or one that did not report success
\* or met another.
LEMMA WritingDivergenceIsReported == Writing!Spec => []Writing!DivergenceReported
<1>1. WritingInv => Writing!DivergenceReported
  BY DEF WritingInv, WritingDoubtInv, Writing!DivergenceReported
<1> QED BY <1>1, WritingInvInit, WritingInvStep, PTL DEF Writing!Spec

-----------------------------------------------------------------------------
(* CrossrepoBackup: for any files, names, times and kills.                 *)

CopyingRuns == [stage : {"asleep", "next", "upload", "write"}, stamp : 0..MaxTime,
         todo : SUBSET Source, file : SUBSET Source]

CopyingReports == [ok : SUBSET Source, failed : SUBSET (Source \cup {"__target__"})]

\* The run at hand has the last time stamp, and has at most one file in hand,
\* which is not to do any more.
CopyingTypes ==
    /\ now \in 1..MaxTime
    /\ \A l \in DOMAIN target : /\ l \in (0..MaxTime) \X Copying!Range(NameOf)
                                /\ target[l] \in [of : Source, whole : BOOLEAN]
    /\ run \in CopyingRuns /\ report \in CopyingReports
    /\ kept \subseteq Source /\ shared \in BOOLEAN /\ used \in 0..MaxTime
    /\ kills \in 0..MaxKills
    /\ used <= now
    /\ run.stage # "asleep" => run.stamp = used /\ used # 0
    /\ run.stage \in {"asleep", "next"} => run.file = {}
    /\ run.stage = "asleep" => run.todo = {}
    /\ run.file \cap run.todo = {}

LEMMA CopyingTypeInit == ASSUME Copying!Parameters PROVE Copying!Init => CopyingTypes
<1> SUFFICES ASSUME Copying!Init PROVE CopyingTypes
  OBVIOUS
<1>1. run \in CopyingRuns /\ report \in CopyingReports
  BY DEF Copying!Parameters, Copying!Init, CopyingRuns, CopyingReports, Copying!Asleep,
     Copying!Nothing
<1>2. now \in 1..MaxTime /\ used \in 0..MaxTime /\ kills \in 0..MaxKills /\ used <= now
  BY DEF Copying!Parameters, Copying!Init
<1>3. run = Copying!Asleep /\ target = <<>> /\ kept = {} /\ shared = FALSE
  BY DEF Copying!Init
<1>4. Copying!Asleep.stage = "asleep" /\ Copying!Asleep.file = {}
       /\ Copying!Asleep.todo = {}
  BY DEF Copying!Asleep
<1>5. DOMAIN target = {}
  BY <1>3
<1> QED BY <1>1, <1>2, <1>3, <1>4, <1>5 DEF CopyingTypes

\* A run that goes on keeps its time stamp.
CopyingGoesOn(stage, rest, file) ==
    /\ run' \in CopyingRuns /\ run'.stamp = run.stamp
    /\ run'.stage = stage /\ run'.todo = rest /\ run'.file = file

CopyingTells(ok, failed) ==
    report' \in CopyingReports /\ report'.ok = ok /\ report'.failed = failed

\* The ways of a file through a run.
LEMMA CopyingReadMoves ==
    ASSUME CopyingTypes, NEW f \in Source, Copying!Read(f)
    PROVE  /\ f \in run.todo /\ run.stage = "next"
           /\ \/ CopyingGoesOn("upload", run.todo \ {f}, {f}) /\ report' = report
              \/ /\ CopyingGoesOn("next", run.todo \ {f}, {})
                 /\ CopyingTells(report.ok, report.failed \cup {f})
           /\ UNCHANGED <<target, now, kept, shared, used, kills>>
<1>1. run \in CopyingRuns /\ report \in CopyingReports /\ run.stage = "next"
       /\ run.file = {}
      /\ f \in run.todo /\ UNCHANGED <<target, now, kept, shared, used, kills>>
  BY DEF Copying!Read, CopyingTypes
<1>2. CASE run' = [run EXCEPT !.stage = "upload", !.file = {f}, !.todo = @ \ {f}]
           /\ report' = report
  <2>1. CopyingGoesOn("upload", run.todo \ {f}, {f})
    BY <1>1, <1>2 DEF CopyingGoesOn, CopyingRuns
  <2> QED BY <1>1, <1>2, <2>1
<1>3. CASE run' = [run EXCEPT !.todo = @ \ {f}]
           /\ report' = [report EXCEPT !.failed = @ \cup {f}]
  <2>1. CopyingGoesOn("next", run.todo \ {f}, {})
    BY <1>1, <1>3 DEF CopyingGoesOn, CopyingRuns
  <2>2. CopyingTells(report.ok, report.failed \cup {f})
    BY <1>1, <1>3 DEF CopyingTells, CopyingReports
  <2> QED BY <1>1, <2>1, <2>2
<1> QED BY <1>2, <1>3 DEF Copying!Read

LEMMA CopyingUploadMoves ==
    ASSUME CopyingTypes, NEW f \in Source, Copying!Upload(f)
    PROVE  /\ run.stage = "upload" /\ run.file = {f}
           /\ \/ CopyingGoesOn("write", run.todo, {f}) /\ report' = report
                 /\ target' = Copying!Store(f, FALSE)
              \/ /\ CopyingGoesOn("next", run.todo, {}) /\ target' = target
                 /\ CopyingTells(report.ok, report.failed \cup {f})
           /\ UNCHANGED <<now, kept, shared, used, kills>>
<1>1. run \in CopyingRuns /\ report \in CopyingReports /\ run.stage = "upload"
       /\ run.file = {f}
      /\ UNCHANGED <<now, kept, shared, used, kills>>
  BY DEF Copying!Upload, CopyingTypes
<1>2. CASE run' = [run EXCEPT !.stage = "write"] /\ report' = report
           /\ target' = Copying!Store(f, FALSE)
  <2>1. CopyingGoesOn("write", run.todo, {f})
    BY <1>1, <1>2 DEF CopyingGoesOn, CopyingRuns
  <2> QED BY <1>1, <1>2, <2>1
<1>3. CASE run' = [run EXCEPT !.stage = "next", !.file = {}] /\ target' = target
           /\ report' = [report EXCEPT !.failed = @ \cup {f}]
  <2>1. CopyingGoesOn("next", run.todo, {})
    BY <1>1, <1>3 DEF CopyingGoesOn, CopyingRuns
  <2>2. CopyingTells(report.ok, report.failed \cup {f})
    BY <1>1, <1>3 DEF CopyingTells, CopyingReports
  <2> QED BY <1>1, <1>3, <2>1, <2>2
<1> QED BY <1>2, <1>3 DEF Copying!Upload

LEMMA CopyingWriteMoves ==
    ASSUME CopyingTypes, NEW f \in Source, Copying!Write(f)
    PROVE  /\ run.stage = "write" /\ run.file = {f} /\ CopyingGoesOn("next", run.todo, {})
           /\ \/ /\ CopyingTells(report.ok \cup {f}, report.failed)
                 /\ target' = Copying!Store(f, TRUE) /\ kept' = kept \cup {f}
              \/ /\ CopyingTells(report.ok, report.failed \cup {f})
                 /\ target' = target /\ kept' = kept
           /\ UNCHANGED <<now, shared, used, kills>>
<1>1. run \in CopyingRuns /\ report \in CopyingReports /\ run.stage = "write"
       /\ run.file = {f}
      /\ UNCHANGED <<now, shared, used, kills>>
      /\ run' = [run EXCEPT !.stage = "next", !.file = {}]
  BY DEF Copying!Write, CopyingTypes
<1>2. CopyingGoesOn("next", run.todo, {})
  BY <1>1 DEF CopyingGoesOn, CopyingRuns
<1>3. CASE /\ target' = Copying!Store(f, TRUE) /\ kept' = kept \cup {f}
           /\ report' = [report EXCEPT !.ok = @ \cup {f}]
  <2>1. CopyingTells(report.ok \cup {f}, report.failed)
    BY <1>1, <1>3 DEF CopyingTells, CopyingReports
  <2> QED BY <1>1, <1>2, <1>3, <2>1
<1>4. CASE /\ target' = target /\ kept' = kept
           /\ report' = [report EXCEPT !.failed = @ \cup {f}]
  <2>1. CopyingTells(report.ok, report.failed \cup {f})
    BY <1>1, <1>4 DEF CopyingTells, CopyingReports
  <2> QED BY <1>1, <1>2, <1>4, <2>1
<1> QED BY <1>3, <1>4 DEF Copying!Write

\* A copy is stored under the label of its file and run, and no other changes.
LEMMA CopyingStoreMoves ==
    ASSUME NEW f, NEW whole, target' = Copying!Store(f, whole)
    PROVE  /\ DOMAIN target' = {Copying!Label(f, run.stamp)} \cup DOMAIN target
           /\ target'[Copying!Label(f, run.stamp)] = [of |-> f, whole |-> whole]
           /\ \A l \in DOMAIN target : l # Copying!Label(f, run.stamp) => target'[l] = target[l]
BY DEF Copying!Store

LEMMA CopyingTypeStep ==
    ASSUME Copying!Parameters
    PROVE  CopyingTypes /\ [Copying!Next]_(Copying!vars) => CopyingTypes'
<1> SUFFICES ASSUME CopyingTypes, [Copying!Next]_(Copying!vars) PROVE CopyingTypes'
  OBVIOUS
<1>0. /\ run.stamp \in 0..MaxTime /\ run.todo \subseteq Source
      /\ run.file \subseteq Source
      /\ report.ok \subseteq Source /\ report.failed \subseteq Source \cup {"__target__"}
  BY DEF CopyingTypes, CopyingRuns, CopyingReports
<1>1. CASE Copying!Tick
  BY <1>1 DEF Copying!Tick, CopyingTypes, Copying!Parameters
<1>2. CASE Copying!StartRun
  <2>1. CASE run' = run
    BY <1>2, <2>1 DEF Copying!StartRun, CopyingTypes, CopyingReports, Copying!Nothing
  <2>2. CASE /\ run' = [stage |-> "next", stamp |-> now, todo |-> Source, file |-> {}]
             /\ report' = Copying!Nothing
             /\ shared' = (shared \/ used = now) /\ used' = now
    <3>1. run' \in CopyingRuns /\ report' \in CopyingReports
      BY <2>2 DEF CopyingRuns, CopyingTypes, CopyingReports, Copying!Nothing
    <3> QED BY <1>2, <2>2, <3>1 DEF Copying!StartRun, CopyingTypes
  <2> QED BY <1>2, <2>1, <2>2 DEF Copying!StartRun
<1>3. CASE Copying!EndRun
  <2>1. run' \in CopyingRuns
    BY <1>3 DEF Copying!EndRun, Copying!Asleep, CopyingRuns, Copying!Parameters
  <2> QED BY <1>3, <2>1 DEF Copying!EndRun, CopyingTypes, Copying!Asleep
<1>4. CASE Copying!Kill
  <2>1. run' \in CopyingRuns /\ report' \in CopyingReports
    BY <1>4 DEF Copying!Kill, Copying!Asleep, CopyingRuns, CopyingReports,
       Copying!Parameters
  <2>2. kills' \in 0..MaxKills
    BY <1>4 DEF Copying!Kill, CopyingTypes, Copying!Parameters
  <2> QED BY <1>4, <2>1, <2>2 DEF Copying!Kill, CopyingTypes, Copying!Asleep
<1>6. ASSUME NEW f \in Source, NEW whole \in BOOLEAN, target' = Copying!Store(f, whole)
      PROVE  \A l \in DOMAIN target' :
                /\ l \in (0..MaxTime) \X Copying!Range(NameOf)
                /\ target'[l] \in [of : Source, whole : BOOLEAN]
  <2>1. Copying!Label(f, run.stamp) \in (0..MaxTime) \X Copying!Range(NameOf)
    BY <1>0 DEF Copying!Label, Copying!Range, Copying!Parameters
  <2>2. [of |-> f, whole |-> whole] \in [of : Source, whole : BOOLEAN]
    OBVIOUS
  <2>3. /\ DOMAIN target' = {Copying!Label(f, run.stamp)} \cup DOMAIN target
        /\ target'[Copying!Label(f, run.stamp)] = [of |-> f, whole |-> whole]
        /\ \A l \in DOMAIN target : l # Copying!Label(f, run.stamp) => target'[l] = target[l]
    BY <1>6, CopyingStoreMoves
  <2> QED BY <2>1, <2>2, <2>3 DEF CopyingTypes
<1>7. ASSUME NEW f \in Source, Copying!Read(f) PROVE CopyingTypes'
  BY <1>7, CopyingReadMoves DEF CopyingGoesOn, CopyingTells, CopyingTypes
<1>8. ASSUME NEW f \in Source, Copying!Upload(f) PROVE CopyingTypes'
  <2>1. \A l \in DOMAIN target' : /\ l \in (0..MaxTime) \X Copying!Range(NameOf)
                                  /\ target'[l] \in [of : Source, whole : BOOLEAN]
    BY <1>6, <1>8, CopyingUploadMoves DEF CopyingTypes
  <2> QED BY <1>8, <2>1, CopyingUploadMoves DEF CopyingGoesOn, CopyingTells, CopyingTypes
<1>9. ASSUME NEW f \in Source, Copying!Write(f) PROVE CopyingTypes'
  <2>1. \A l \in DOMAIN target' : /\ l \in (0..MaxTime) \X Copying!Range(NameOf)
                                  /\ target'[l] \in [of : Source, whole : BOOLEAN]
    BY <1>6, <1>9, CopyingWriteMoves DEF CopyingTypes
  <2>2. kept' \subseteq Source
    BY <1>9, CopyingWriteMoves DEF CopyingTypes
  <2> QED BY <1>9, <2>1, <2>2, CopyingWriteMoves DEF CopyingGoesOn, CopyingTells,
             CopyingTypes
<1>10. CASE UNCHANGED Copying!vars
  BY <1>10 DEF Copying!vars, CopyingTypes
<1> QED BY <1>1, <1>2, <1>3, <1>4, <1>7, <1>8, <1>9, <1>10 DEF Copying!Next

(***************************************************************************)
(* A file that was kept has a whole copy under the time stamp of a run     *)
(* that has finished with it: an earlier one, as long as the run at hand   *)
(* has still to copy the file. And a run that ended with no word about its *)
(* target has told of each file, one that goes on of each it has not to do.*)
(***************************************************************************)
CopyingWholeAt(f, s) ==
    /\ Copying!Label(f, s) \in DOMAIN target
    /\ target[Copying!Label(f, s)] = [of |-> f, whole |-> TRUE]

CopyingCopyInv ==
    ~shared => \A f \in kept : Copying!Alone(f) =>
        \E s \in 0..used : /\ CopyingWholeAt(f, s)
                           /\ f \in run.todo \cup run.file => s # run.stamp

CopyingTellInv ==
    used # 0 /\ "__target__" \notin report.failed =>
        report.ok \cup report.failed \cup run.todo \cup run.file = Source

\* A copy that is stored leaves the older ones of every file alone, and those of
\* every other name.
LEMMA CopyingOthersStay ==
    ASSUME NEW g \in Source, NEW whole, target' = Copying!Store(g, whole),
           NEW f \in Source, NEW s, Copying!Alone(f), CopyingWholeAt(f, s), f # g \/ s # run.stamp
    PROVE  CopyingWholeAt(f, s)'
<1>1. Copying!Label(f, s) # Copying!Label(g, run.stamp)
  BY DEF Copying!Label, Copying!Alone
<1> QED BY <1>1, CopyingStoreMoves DEF CopyingWholeAt, Copying!Label

LEMMA CopyingCopyStep ==
    ASSUME Copying!Parameters
    PROVE  CopyingTypes /\ CopyingCopyInv /\ [Copying!Next]_(Copying!vars)
           => CopyingCopyInv'
<1> SUFFICES ASSUME CopyingTypes, CopyingCopyInv, [Copying!Next]_(Copying!vars), ~shared',
                    NEW f \in kept', Copying!Alone(f)
             PROVE  \E s \in 0..used' : /\ CopyingWholeAt(f, s)'
                                        /\ f \in run'.todo \cup run'.file
                                              => s # run'.stamp
  BY DEF CopyingCopyInv
<1>0. f \in kept /\ ~shared =>
         \E s \in 0..used : /\ CopyingWholeAt(f, s)
                            /\ f \in run.todo \cup run.file => s # run.stamp
  BY DEF CopyingCopyInv
<1>1. CASE Copying!StartRun
  <2>1. ~shared /\ f \in kept /\ target' = target
    BY <1>1 DEF Copying!StartRun, CopyingTypes
  <2>2. PICK s \in 0..used : /\ CopyingWholeAt(f, s)
                             /\ f \in run.todo \cup run.file => s # run.stamp
    BY <1>0, <2>1
  <2>3. CopyingWholeAt(f, s)'
    BY <2>1, <2>2 DEF CopyingWholeAt, Copying!Label
  <2>4. CASE UNCHANGED <<run, used>>
    BY <2>2, <2>3, <2>4
  <2>5. CASE run'.stamp = now /\ used' = now /\ shared' = (shared \/ used = now)
    <3>1. used \in Nat /\ now \in Nat /\ used <= now
      BY DEF CopyingTypes
    <3>2. used # now
      BY <2>5
    <3>3. \A u, n \in Nat : \A k \in 0..u : u # n /\ u <= n => k # n /\ k \in 0..n
      OBVIOUS
    <3>4. s # now /\ s \in 0..now
      BY <2>2, <3>1, <3>2, <3>3
    <3> QED BY <2>3, <2>5, <3>4
  <2> QED BY <1>1, <2>4, <2>5 DEF Copying!StartRun
<1>2. CASE Copying!EndRun \/ Copying!Kill
  <2>1. /\ run'.todo = {} /\ run'.file = {}
        /\ UNCHANGED <<target, kept, shared, used>>
    BY <1>2 DEF Copying!EndRun, Copying!Kill, Copying!Asleep
  <2> QED BY <1>0, <2>1 DEF CopyingWholeAt, Copying!Label
<1>3. CASE Copying!Tick \/ UNCHANGED Copying!vars
  <2>1. UNCHANGED <<target, run, kept, shared, used>>
    BY <1>3 DEF Copying!Tick, Copying!vars
  <2> QED BY <1>0, <2>1 DEF CopyingWholeAt, Copying!Label
<1>4. ASSUME NEW g \in Source, NEW stage, NEW rest \in SUBSET run.todo,
             NEW file \in SUBSET (run.todo \cup run.file), CopyingGoesOn(stage, rest, file),
             UNCHANGED <<shared, used>>, f \in kept,
             \/ target' = target
             \/ g \in run.file /\ \E whole : target' = Copying!Store(g, whole)
      PROVE  \E s \in 0..used' : /\ CopyingWholeAt(f, s)'
                                 /\ f \in run'.todo \cup run'.file => s # run'.stamp
  <2>1. /\ run'.stamp = run.stamp
        /\ run'.todo \cup run'.file \subseteq run.todo \cup run.file
    BY <1>4 DEF CopyingGoesOn
  <2>2. PICK s \in 0..used : /\ CopyingWholeAt(f, s)
                             /\ f \in run.todo \cup run.file => s # run.stamp
    BY <1>0, <1>4
  <2>3. CopyingWholeAt(f, s)'
    <3>1. CASE target' = target
      BY <2>2, <3>1 DEF CopyingWholeAt, Copying!Label
    <3>2. ASSUME NEW whole, g \in run.file, target' = Copying!Store(g, whole)
          PROVE  CopyingWholeAt(f, s)'
      <4>1. f \in Source /\ (f # g \/ s # run.stamp)
        BY <1>4, <2>2, <3>2 DEF CopyingTypes
      <4> QED BY <2>2, <3>2, <4>1, CopyingOthersStay
    <3> QED BY <1>4, <3>1, <3>2
  <2> QED BY <1>4, <2>1, <2>2, <2>3
<1>5. ASSUME NEW g \in Source, Copying!Read(g)
      PROVE  \E s \in 0..used' : /\ CopyingWholeAt(f, s)'
                                 /\ f \in run'.todo \cup run'.file => s # run'.stamp
  BY <1>4, <1>5, CopyingReadMoves
<1>6. ASSUME NEW g \in Source, Copying!Upload(g)
      PROVE  \E s \in 0..used' : /\ CopyingWholeAt(f, s)'
                                 /\ f \in run'.todo \cup run'.file => s # run'.stamp
  BY <1>4, <1>6, CopyingUploadMoves
<1>7. ASSUME NEW g \in Source, Copying!Write(g)
      PROVE  \E s \in 0..used' : /\ CopyingWholeAt(f, s)'
                                 /\ f \in run'.todo \cup run'.file => s # run'.stamp
  <2>0. /\ run.file = {g} /\ CopyingGoesOn("next", run.todo, {})
        /\ UNCHANGED <<shared, used>> /\ run.stage = "write"
    BY <1>7, CopyingWriteMoves
  <2>1. CASE f \in kept
    <3>1. target' = target \/ target' = Copying!Store(g, TRUE)
      BY <1>7, CopyingWriteMoves
    <3> QED BY <1>4, <2>0, <2>1, <3>1
  <2>2. CASE f \notin kept
    <3>1. f = g /\ target' = Copying!Store(g, TRUE)
      BY <1>7, <2>2, CopyingWriteMoves
    <3>2. PICK s \in 0..used' : s = run.stamp
      BY <2>0 DEF CopyingTypes
    <3>3. CopyingWholeAt(f, s)'
      BY <3>1, <3>2, CopyingStoreMoves DEF CopyingWholeAt, Copying!Label
    <3>4. f \notin run'.todo \cup run'.file
      BY <2>0, <3>1 DEF CopyingTypes, CopyingGoesOn
    <3> QED BY <3>2, <3>3, <3>4
  <2> QED BY <2>1, <2>2
<1> QED BY <1>1, <1>2, <1>3, <1>5, <1>6, <1>7 DEF Copying!Next

LEMMA CopyingTellStep ==
    ASSUME Copying!Parameters
    PROVE  CopyingTypes /\ CopyingTellInv /\ [Copying!Next]_(Copying!vars)
           => CopyingTellInv'
<1> SUFFICES ASSUME CopyingTypes, CopyingTellInv, [Copying!Next]_(Copying!vars)
             PROVE  CopyingTellInv'
  OBVIOUS
<1>1. CASE Copying!StartRun
  BY <1>1 DEF Copying!StartRun, CopyingTellInv, Copying!Nothing
<1>2. CASE Copying!EndRun
  BY <1>2 DEF Copying!EndRun, CopyingTellInv, Copying!Asleep, CopyingTypes
<1>3. CASE Copying!Kill
  BY <1>3 DEF Copying!Kill, CopyingTellInv
<1>4. CASE Copying!Tick \/ UNCHANGED Copying!vars
  BY <1>4 DEF Copying!Tick, Copying!vars, CopyingTellInv
<1>5. ASSUME NEW f \in Source, Copying!Read(f) PROVE CopyingTellInv'
  BY <1>5, CopyingReadMoves DEF CopyingTellInv, CopyingGoesOn, CopyingTells, CopyingTypes
<1>6. ASSUME NEW f \in Source, Copying!Upload(f) PROVE CopyingTellInv'
  BY <1>6, CopyingUploadMoves DEF CopyingTellInv, CopyingGoesOn, CopyingTells
<1>7. ASSUME NEW f \in Source, Copying!Write(f) PROVE CopyingTellInv'
  BY <1>7, CopyingWriteMoves DEF CopyingTellInv, CopyingGoesOn, CopyingTells
<1> QED BY <1>1, <1>2, <1>3, <1>4, <1>5, <1>6, <1>7 DEF Copying!Next

LEMMA CopyingInvCorrect ==
    ASSUME Copying!Parameters
    PROVE  Copying!Init /\ [][Copying!Next]_(Copying!vars)
              => [](CopyingTypes /\ CopyingCopyInv /\ CopyingTellInv)
<1>1. Copying!Init => CopyingCopyInv /\ CopyingTellInv
  BY DEF Copying!Init, CopyingCopyInv, CopyingTellInv
<1> QED BY <1>1, CopyingTypeInit, CopyingTypeStep, CopyingCopyStep, CopyingTellStep, PTL

LEMMA CopyingTypeCorrect ==
    ASSUME Copying!Parameters
    PROVE  Copying!Init /\ [][Copying!Next]_(Copying!vars) => []Copying!TypeOK
<1>1. CopyingTypes => Copying!TypeOK
  BY DEF CopyingTypes, Copying!TypeOK, CopyingRuns, CopyingReports
<1> QED BY <1>1, CopyingInvCorrect, PTL

LEMMA CopyingCopiesStay ==
    ASSUME Copying!Parameters
    PROVE  Copying!Init /\ [][Copying!Next]_(Copying!vars) => []Copying!KeptForGood
<1>1. CopyingCopyInv => Copying!KeptForGood
  BY DEF CopyingCopyInv, Copying!KeptForGood, CopyingWholeAt
<1> QED BY <1>1, CopyingInvCorrect, PTL

LEMMA CopyingAllTold ==
    ASSUME Copying!Parameters
    PROVE  Copying!Init /\ [][Copying!Next]_(Copying!vars) => []Copying!EveryFileTold
<1>1. CopyingTypes /\ CopyingTellInv => Copying!EveryFileTold
  BY DEF CopyingTypes, CopyingTellInv, Copying!EveryFileTold
<1> QED BY <1>1, CopyingInvCorrect, PTL

-----------------------------------------------------------------------------
(* AuditLog: for any tasks, keys, attempts and cuts.                       *)

\* Both are the Cardinality of FiniteSets.
LEMMA AuditingCardinality == \A S : Auditing!Cardinality(S) = Cardinality(S)
BY DEF Auditing!Cardinality, Cardinality

AuditingPiece == [key : IdemKey, part : {"head", "tail"}]

AuditingAppender == [stage : {"idle", "append", "write", "commit"},
             key : IdemKey \cup {""}, next : 1..3]

\* Those who have a record of k to append.
AuditingPending(k) == {t \in Task : auditTask[t].stage \in {"append", "write"} /\ auditTask[t].key = k}

\* An append is acknowledged to one that had it to do.
AuditingCountInv ==
    \A k \in IdemKey : /\ IsFiniteSet(AuditingPending(k))
                       /\ acked[k] + Cardinality(AuditingPending(k)) <= attempts[k]

AuditingTypes ==
    /\ auditFile \in Seq(Seq(AuditingPiece)) /\ ended \in BOOLEAN /\ lock \in BOOLEAN
    /\ auditTask \in [Task -> AuditingAppender]
    /\ \A t \in Task : auditTask[t].stage # "idle" => auditTask[t].key \in IdemKey
    /\ attempts \in [IdemKey -> 0..MaxAttempts] /\ acked \in [IdemKey -> Nat]
    /\ committed \subseteq IdemKey /\ cuts \in 0..MaxCuts

\* Who writes has the lock, and has the last line to itself: it is empty, or ends
\* with what the writer has put there.
AuditingHolds(t) ==
    LET line == auditFile[Len(auditFile)]
        k == auditTask[t].key
    IN  /\ auditTask[t].next # 1 => ~ended
        /\ auditTask[t].next = 2 => line[Len(line)] = [key |-> k, part |-> "head"]
        /\ auditTask[t].next = 3 => /\ Len(line) >= 2
                                    /\ line[Len(line) - 1] = [key |-> k, part |-> "head"]
                                    /\ line[Len(line)] = [key |-> k, part |-> "tail"]

AuditingWriterInv ==
    /\ \A t \in Task : auditTask[t].stage = "write" => lock /\ AuditingHolds(t)
    /\ \A t, u \in Task : auditTask[t].stage = "write" /\ auditTask[u].stage = "write" => t = u
    /\ \A t \in Task : auditTask[t].stage = "append" => auditTask[t].next = 1
    /\ ~ended => Len(auditFile) > 0
    /\ \A i \in 1..Len(auditFile) : Len(auditFile[i]) > 0

LEMMA AuditingInitInv ==
    ASSUME Auditing!Parameters
    PROVE  Auditing!Init => AuditingTypes /\ AuditingWriterInv /\ AuditingCountInv
<1> SUFFICES ASSUME Auditing!Init
             PROVE  AuditingTypes /\ AuditingWriterInv /\ AuditingCountInv
  OBVIOUS
<1>0. \A t \in Task : auditTask[t].stage = "idle"
  BY DEF Auditing!Init, Auditing!Idle
<1>1. AuditingTypes
  <2>1. Auditing!Idle \in AuditingAppender
    BY DEF Auditing!Idle, AuditingAppender
  <2>2. auditTask \in [Task -> AuditingAppender]
         /\ attempts \in [IdemKey -> 0..MaxAttempts]
        /\ acked \in [IdemKey -> Nat] /\ cuts \in 0..MaxCuts
    BY <2>1 DEF Auditing!Init, Auditing!Parameters
  <2>3. auditFile = <<>> /\ ended = TRUE /\ lock = FALSE /\ committed = {}
    BY DEF Auditing!Init
  <2>4. <<>> \in Seq(Seq(AuditingPiece))
    OBVIOUS
  <2> QED BY <1>0, <2>2, <2>3, <2>4 DEF AuditingTypes
<1>2. AuditingWriterInv
  <2>1. auditFile = <<>> /\ Len(auditFile) = 0 /\ ended = TRUE /\ lock = FALSE
    BY DEF Auditing!Init
  <2> QED BY <1>0, <2>1 DEF AuditingWriterInv
<1>3. \A k \in IdemKey : AuditingPending(k) = {}
  BY DEF Auditing!Init, AuditingPending, Auditing!Idle
<1>4. AuditingCountInv
  <2>1. \A k \in IdemKey : acked[k] = 0 /\ attempts[k] = 0
    BY DEF Auditing!Init
  <2>2. \A k \in IdemKey : IsFiniteSet(AuditingPending(k)) /\ Cardinality(AuditingPending(k)) = 0
    BY <1>3, FS_EmptySet
  <2> QED BY <2>1, <2>2 DEF AuditingCountInv
<1> QED BY <1>1, <1>2, <1>4

\* A piece goes into a new line, or to the end of the last one.
LEMMA AuditingWriteMoves ==
    ASSUME AuditingTypes, AuditingWriterInv, NEW t \in Task, Auditing!Write(t)
    PROVE  LET k == auditTask[t].key
               which == IF auditTask[t].next = 1 THEN "head" ELSE "tail"
               piece == [key |-> k, part |-> which]
               n == Len(auditFile)
           IN  /\ k \in IdemKey /\ piece \in AuditingPiece
               /\ auditTask[t].stage = "write" /\ auditTask[t].next \in {1, 2}
               /\ auditFile' \in Seq(Seq(AuditingPiece)) /\ ~ended'
               /\ IF ended
                  THEN /\ Len(auditFile') = n + 1 /\ auditFile'[n + 1] = <<piece>>
                       /\ \A i \in 1..n : auditFile'[i] = auditFile[i]
                  ELSE /\ Len(auditFile') = n
                   /\ auditFile'[n] = Append(auditFile[n], piece)
                       /\ n > 0 /\ auditFile[n] \in Seq(AuditingPiece)
                       /\ \A i \in 1..n : i # n => auditFile'[i] = auditFile[i]
<1> DEFINE k == auditTask[t].key
           which == IF auditTask[t].next = 1 THEN "head" ELSE "tail"
           piece == [key |-> k, part |-> which]
           n == Len(auditFile)
<1>1. /\ auditTask[t].stage = "write" /\ auditTask[t].next \in {1, 2} /\ k \in IdemKey
      /\ Auditing!Parts[auditTask[t].next] = which
  <2>1. auditTask[t].next \in 1..3 /\ auditTask[t].stage = "write"
         /\ auditTask[t].next < Len(Auditing!Parts)
    BY DEF Auditing!Write, AuditingTypes, AuditingAppender
  <2>2. Len(Auditing!Parts) = 3 /\ Auditing!Parts[1] = "head"
         /\ Auditing!Parts[2] = "tail"
    BY DEF Auditing!Parts
  <2> QED BY <2>1, <2>2 DEF AuditingTypes
<1>2. piece \in AuditingPiece /\ n \in Nat
  BY <1>1 DEF AuditingPiece, AuditingTypes
<1>3. /\ auditFile' = IF ended THEN Append(auditFile, <<piece>>)
                 ELSE [auditFile EXCEPT ![n] = Append(auditFile[n], piece)]
      /\ ended' = FALSE
  BY <1>1 DEF Auditing!Write
<1> HIDE DEF piece
<1>4. CASE ended
  <2>1. auditFile' = Append(auditFile, <<piece>>) /\ <<piece>> \in Seq(AuditingPiece)
    BY <1>2, <1>3, <1>4
  <2> QED BY <1>1, <1>2, <1>3, <1>4, <2>1 DEF AuditingTypes, piece
<1>5. CASE ~ended
  <2>1. n > 0 /\ n \in 1..n /\ auditFile[n] \in Seq(AuditingPiece)
    BY <1>2, <1>5 DEF AuditingTypes, AuditingWriterInv
  <2>2. Append(auditFile[n], piece) \in Seq(AuditingPiece)
    BY <1>2, <2>1
  <2>3. /\ Len(auditFile') = n /\ auditFile'[n] = Append(auditFile[n], piece)
        /\ auditFile' \in Seq(Seq(AuditingPiece))
        /\ \A i \in 1..n : i # n => auditFile'[i] = auditFile[i]
    BY <1>3, <1>5, <2>1, <2>2 DEF AuditingTypes
  <2> QED BY <1>1, <1>2, <1>3, <1>5, <2>1, <2>3 DEF piece
<1> QED BY <1>4, <1>5

\* What a step does to the task that takes it.
LEMMA AuditingWriteNext ==
    ASSUME AuditingTypes, NEW t \in Task, Auditing!Write(t)
    PROVE  auditTask[t].next \in {1, 2}
<1>1. auditTask[t].next \in 1..3 /\ auditTask[t].next < 3
  BY DEF Auditing!Write, AuditingTypes, AuditingAppender, Auditing!Parts
<1> QED BY <1>1

LEMMA AuditingLockMoves ==
    ASSUME AuditingTypes, NEW t \in Task, Auditing!Lock(t)
    PROVE  /\ auditTask' \in [Task -> AuditingAppender] /\ \A u \in Task : u # t => auditTask'[u] = auditTask[u]
           /\ auditTask[t].stage = "append" /\ auditTask'[t].stage = "write"
           /\ auditTask'[t].key = auditTask[t].key
           /\ auditTask'[t].next = auditTask[t].next
BY DEF AuditingTypes, AuditingAppender, Auditing!Lock

LEMMA AuditingWriterMoves ==
    ASSUME AuditingTypes, NEW t \in Task, Auditing!Write(t)
    PROVE  /\ auditTask' \in [Task -> AuditingAppender] /\ \A u \in Task : u # t => auditTask'[u] = auditTask[u]
           /\ auditTask[t].stage = "write" /\ auditTask'[t].stage = "write"
           /\ auditTask'[t].key = auditTask[t].key /\ auditTask[t].next \in {1, 2}
           /\ auditTask'[t].next = auditTask[t].next + 1
<1>1. auditTask[t].stage = "write" /\ auditTask' = [auditTask EXCEPT ![t].next = auditTask[t].next + 1]
  BY DEF Auditing!Write, AuditingTypes
<1>2. auditTask[t].next \in {1, 2}
  BY AuditingWriteNext
<1>3. auditTask[t].next + 1 \in 1..3
  BY <1>2
<1> QED BY <1>1, <1>2, <1>3 DEF AuditingTypes, AuditingAppender

LEMMA AuditingEndMoves ==
    ASSUME AuditingTypes, NEW t \in Task, Auditing!WriteEnd(t) \/ Auditing!Fail(t)
    PROVE  /\ auditTask' \in [Task -> AuditingAppender] /\ \A u \in Task : u # t => auditTask'[u] = auditTask[u]
           /\ auditTask[t].stage = "write" /\ auditTask'[t].stage = "commit"
           /\ auditTask'[t].key = auditTask[t].key
<1>1. auditTask[t].stage = "write" /\ auditTask' = [auditTask EXCEPT ![t].stage = "commit"]
  BY DEF Auditing!WriteEnd, Auditing!Fail
<1> QED BY <1>1 DEF AuditingTypes, AuditingAppender

LEMMA AuditingBeginMoves ==
    ASSUME AuditingTypes, NEW t \in Task, Auditing!Begin(t)
    PROVE  /\ auditTask[t].stage = "idle"
           /\ \E k \in IdemKey :
                 /\ attempts[k] < MaxAttempts
                 /\ attempts' = [attempts EXCEPT ![k] = attempts[k] + 1]
                 /\ auditTask' \in [Task -> AuditingAppender]
                 /\ \A u \in Task : u # t => auditTask'[u] = auditTask[u]
                 /\ auditTask'[t].stage = "append" /\ auditTask'[t].key = k
                 /\ auditTask'[t].next = 1
<1>1. PICK k \in IdemKey :
        /\ attempts[k] < MaxAttempts
        /\ auditTask' = [auditTask EXCEPT ![t] = [stage |-> "append", key |-> k, next |-> 1]]
        /\ attempts' = [attempts EXCEPT ![k] = attempts[k] + 1]
  BY DEF Auditing!Begin
<1> DEFINE begun == [stage |-> "append", key |-> k, next |-> 1]
<1>2. begun \in AuditingAppender /\ begun.stage = "append" /\ begun.key = k
       /\ begun.next = 1
  <2>0. 1 \in 1..3
    OBVIOUS
  <2>1. 1 \in 1..3 /\ k \in IdemKey \cup {""}
    BY <2>0, Zenon
  <2>2. begun \in [stage : {"idle", "append", "write", "commit"},
                 key : IdemKey \cup {""}, next : 1..3]
    BY <2>1
  <2> QED BY <2>2 DEF AuditingAppender
<1> HIDE DEF begun
<1>3. /\ auditTask' \in [Task -> AuditingAppender] /\ auditTask'[t] = begun
      /\ \A u \in Task : u # t => auditTask'[u] = auditTask[u]
  BY <1>1, <1>2 DEF AuditingTypes, begun
<1>4. auditTask[t].stage = "idle"
  BY DEF Auditing!Begin
<1> QED BY <1>1, <1>2, <1>3, <1>4

LEMMA AuditingCommitMoves ==
    ASSUME AuditingTypes, NEW t \in Task, Auditing!Commit(t)
    PROVE  /\ auditTask[t].stage = "commit" /\ auditTask' \in [Task -> AuditingAppender]
           /\ \A u \in Task : u # t => auditTask'[u] = auditTask[u]
           /\ auditTask'[t].stage = "idle"
           /\ UNCHANGED <<auditFile, ended, lock, attempts, acked, cuts>>
<1>1. Auditing!Idle \in AuditingAppender /\ Auditing!Idle.stage = "idle"
  BY DEF Auditing!Idle, AuditingAppender
<1> QED BY <1>1 DEF AuditingTypes, Auditing!Commit

LEMMA AuditingCrashMoves ==
    ASSUME Auditing!Crash
    PROVE  /\ auditTask' \in [Task -> AuditingAppender] /\ \A u \in Task : auditTask'[u].stage = "idle"
           /\ lock' = FALSE /\ cuts' = cuts + 1 /\ cuts < MaxCuts
           /\ UNCHANGED <<auditFile, ended, attempts, acked, committed>>
<1>1. Auditing!Idle \in AuditingAppender /\ Auditing!Idle.stage = "idle"
  BY DEF Auditing!Idle, AuditingAppender
<1> QED BY <1>1 DEF Auditing!Crash

\* Of the tasks that have a record to append, at most the one that moves changes.
LEMMA AuditingPendingMoves ==
    ASSUME NEW t \in Task, \A u \in Task : u # t => auditTask'[u] = auditTask[u], NEW k
    PROVE  AuditingPending(k)' \in {AuditingPending(k), AuditingPending(k) \cup {t}, AuditingPending(k) \ {t}}
BY DEF AuditingPending

\* A task that begins with k comes to have one to append.
LEMMA AuditingPendingGains ==
    ASSUME NEW t \in Task, \A u \in Task : u # t => auditTask'[u] = auditTask[u], NEW k,
           auditTask[t].stage = "idle", auditTask'[t].stage = "append", auditTask'[t].key = k
    PROVE  AuditingPending(k)' = AuditingPending(k) \cup {t}
            /\ t \notin AuditingPending(k)
BY DEF AuditingPending

\* One that is done with it has none any more.
LEMMA AuditingPendingLoses ==
    ASSUME NEW t \in Task, \A u \in Task : u # t => auditTask'[u] = auditTask[u], NEW k,
           auditTask[t].stage = "write", auditTask'[t].stage = "commit", auditTask[t].key = k
    PROVE  AuditingPending(k)' = AuditingPending(k) \ {t} /\ t \in AuditingPending(k)
BY DEF AuditingPending

\* For the other keys neither changes anything.
LEMMA AuditingPendingOthers ==
    ASSUME NEW t \in Task, \A u \in Task : u # t => auditTask'[u] = auditTask[u], NEW k,
           t \notin AuditingPending(k), t \notin AuditingPending(k)'
    PROVE  AuditingPending(k)' = AuditingPending(k)
BY DEF AuditingPending

LEMMA AuditingTypeStep ==
    ASSUME Auditing!Parameters
    PROVE  AuditingTypes /\ AuditingWriterInv /\ [Auditing!Next]_(Auditing!vars)
              => AuditingTypes'
<1> SUFFICES ASSUME AuditingTypes, AuditingWriterInv, [Auditing!Next]_(Auditing!vars)
             PROVE  AuditingTypes'
  OBVIOUS
<1> USE DEF AuditingTypes
<1>1. CASE Auditing!Crash
  BY <1>1, AuditingCrashMoves DEF Auditing!Parameters
<1>2. ASSUME NEW t \in Task, Auditing!Begin(t) PROVE AuditingTypes'
  <2>1. attempts' \in [IdemKey -> 0..MaxAttempts]
    <3>1. PICK k \in IdemKey : /\ attempts[k] < MaxAttempts
                               /\ attempts' = [attempts EXCEPT ![k] = attempts[k] + 1]
      BY <1>2, AuditingBeginMoves
    <3>2. attempts[k] + 1 \in 0..MaxAttempts
      BY <3>1 DEF Auditing!Parameters
    <3> QED BY <3>1, <3>2
  <2>2. UNCHANGED <<auditFile, ended, lock, acked, committed, cuts>>
    BY <1>2 DEF Auditing!Begin
  <2> QED BY <1>2, <2>1, <2>2, AuditingBeginMoves
<1>3. ASSUME NEW t \in Task, Auditing!Lock(t) PROVE AuditingTypes'
  BY <1>3, AuditingLockMoves DEF Auditing!Lock
<1>4. ASSUME NEW t \in Task, Auditing!Write(t) PROVE AuditingTypes'
  <2>1. auditTask[t].next \in {1, 2} /\ auditTask[t].key \in IdemKey
        /\ auditFile' \in Seq(Seq(AuditingPiece)) /\ ~ended'
    BY <1>4, AuditingWriteMoves
  <2>2. ended' \in BOOLEAN /\ UNCHANGED <<lock, attempts, acked, committed, cuts>>
    BY <1>4 DEF Auditing!Write
  <2> QED BY <1>4, <2>1, <2>2, AuditingWriterMoves
<1>5. ASSUME NEW t \in Task, Auditing!WriteEnd(t) PROVE AuditingTypes'
  <2>1. auditTask[t].key \in IdemKey
    BY <1>5 DEF Auditing!WriteEnd
  <2>2. acked[auditTask[t].key] + 1 \in Nat
    BY <2>1
  <2>3. acked' \in [IdemKey -> Nat]
    BY <1>5, <2>1, <2>2 DEF Auditing!WriteEnd
  <2> QED BY <1>5, <2>1, <2>3, AuditingEndMoves DEF Auditing!WriteEnd
<1>6. ASSUME NEW t \in Task, Auditing!Fail(t) PROVE AuditingTypes'
  <2>1. cuts' \in 0..MaxCuts /\ auditTask[t].key \in IdemKey
    BY <1>6 DEF Auditing!Fail, Auditing!Parameters
  <2> QED BY <1>6, <2>1, AuditingEndMoves DEF Auditing!Fail
<1>7. ASSUME NEW t \in Task, Auditing!Commit(t) PROVE AuditingTypes'
  <2>1. committed' \subseteq IdemKey
    <3>1. auditTask[t].stage # "idle"
      BY <1>7 DEF Auditing!Commit
    <3>2. auditTask[t].key \in IdemKey
      BY <3>1
    <3>3. committed' \in {committed, committed \cup {auditTask[t].key}}
      BY <1>7 DEF Auditing!Commit
    <3> QED BY <3>2, <3>3
  <2> QED BY <1>7, <2>1, AuditingCommitMoves
<1>8. CASE UNCHANGED Auditing!vars
  BY <1>8 DEF Auditing!vars
<1> QED BY <1>1, <1>2, <1>3, <1>4, <1>5, <1>6, <1>7, <1>8 DEF Auditing!Next

LEMMA AuditingWriterStep ==
    ASSUME Auditing!Parameters
    PROVE  AuditingTypes /\ AuditingWriterInv /\ [Auditing!Next]_(Auditing!vars)
              => AuditingWriterInv'
<1> SUFFICES ASSUME AuditingTypes, AuditingWriterInv, [Auditing!Next]_(Auditing!vars)
             PROVE  AuditingWriterInv'
  OBVIOUS
<1>1. CASE Auditing!Crash
  BY <1>1, AuditingCrashMoves DEF AuditingWriterInv
<1>2. ASSUME NEW t \in Task, \A u \in Task : u # t => auditTask'[u] = auditTask[u],
             auditTask'[t].stage # "write", auditTask'[t].stage = "append"
                => auditTask'[t].next = 1,
             UNCHANGED <<auditFile, ended>>,
             lock' = lock \/ auditTask[t].stage = "write"
      PROVE  AuditingWriterInv'
  BY <1>2 DEF AuditingWriterInv, AuditingHolds
<1>3. ASSUME NEW t \in Task, Auditing!Begin(t) PROVE AuditingWriterInv'
  BY <1>2, <1>3, AuditingBeginMoves DEF Auditing!Begin
<1>4. ASSUME NEW t \in Task, Auditing!Lock(t) PROVE AuditingWriterInv'
  <2>1. /\ ~lock /\ lock' = TRUE /\ UNCHANGED <<auditFile, ended>>
        /\ auditTask[t].stage = "append" /\ auditTask[t].next = 1
        /\ \A u \in Task : auditTask[u].stage # "write"
    BY <1>4 DEF Auditing!Lock, AuditingWriterInv
  <2>2. /\ auditTask'[t].next = 1 /\ auditTask'[t].stage = "write"
        /\ \A u \in Task : u # t => auditTask'[u] = auditTask[u]
    BY <1>4, <2>1, AuditingLockMoves
  <2> QED BY <2>1, <2>2 DEF AuditingWriterInv, AuditingHolds
<1>5. ASSUME NEW t \in Task, Auditing!Write(t) PROVE AuditingWriterInv'
  <2> DEFINE k == auditTask[t].key
             which == IF auditTask[t].next = 1 THEN "head" ELSE "tail"
             piece == [key |-> k, part |-> which]
             n == Len(auditFile)
             line == auditFile'[Len(auditFile')]
  <2>1. /\ k \in IdemKey /\ piece \in AuditingPiece
        /\ auditTask[t].stage = "write" /\ auditTask[t].next \in {1, 2}
        /\ auditFile' \in Seq(Seq(AuditingPiece)) /\ ~ended'
        /\ IF ended
           THEN /\ Len(auditFile') = n + 1 /\ auditFile'[n + 1] = <<piece>>
                /\ \A i \in 1..n : auditFile'[i] = auditFile[i]
           ELSE /\ Len(auditFile') = n /\ auditFile'[n] = Append(auditFile[n], piece)
                /\ n > 0 /\ auditFile[n] \in Seq(AuditingPiece)
                /\ \A i \in 1..n : i # n => auditFile'[i] = auditFile[i]
    BY <1>5, AuditingWriteMoves
  <2>2. /\ auditTask'[t].stage = "write" /\ auditTask'[t].key = k
        /\ auditTask'[t].next = auditTask[t].next + 1
        /\ \A u \in Task : u # t => auditTask'[u] = auditTask[u]
    BY <1>5, <2>1, AuditingWriterMoves
  <2>3. \A u \in Task : u # t => auditTask[u].stage # "write"
    BY <2>1 DEF AuditingWriterInv
  <2>4. n \in Nat
    BY DEF AuditingTypes
  <2> HIDE DEF piece
  <2>5. Len(auditFile') > 0 /\ Len(line) > 0 /\ line[Len(line)] = piece
        /\ \A i \in 1..Len(auditFile') : Len(auditFile'[i]) > 0
    <3>0. \A i \in 1..n : Len(auditFile[i]) > 0
      BY DEF AuditingWriterInv
    <3>1. CASE ended
      <4>1. Len(auditFile') = n + 1 /\ line = <<piece>>
        BY <2>1, <3>1
      <4>2. Len(line) = 1 /\ line[1] = piece
        BY <4>1
      <4>3. \A i \in 1..Len(auditFile') : i \in 1..n \/ i = n + 1
        BY <2>4, <4>1
      <4>4. \A i \in 1..n : auditFile'[i] = auditFile[i]
        BY <2>1, <3>1
      <4>5. auditFile'[n + 1] = line /\ Len(auditFile') > 0
        BY <2>4, <4>1
      <4>6. \A i \in 1..Len(auditFile') : Len(auditFile'[i]) > 0
        BY <3>0, <4>2, <4>3, <4>4, <4>5
      <4> HIDE DEF line
      <4> QED BY <4>2, <4>5, <4>6
    <3>2. CASE ~ended
      <4>1. /\ Len(auditFile') = n /\ n > 0 /\ auditFile[n] \in Seq(AuditingPiece)
            /\ line = Append(auditFile[n], piece)
        BY <2>1, <3>2
      <4>2. Len(line) = Len(auditFile[n]) + 1 /\ line[Len(line)] = piece /\ Len(line) > 0
        BY <2>1, <4>1
      <4> QED BY <2>1, <2>4, <3>0, <3>2, <4>1, <4>2
    <3> QED BY <3>1, <3>2
  <2>6. AuditingHolds(t)'
    <3>1. CASE auditTask[t].next = 1
      <4>1. auditTask'[t].next = 2 /\ piece = [key |-> auditTask'[t].key, part |-> "head"]
        BY <2>2, <3>1 DEF piece
      <4> QED BY <2>1, <2>5, <4>1 DEF AuditingHolds
    <3>2. CASE auditTask[t].next = 2
      <4>0. AuditingHolds(t)
        BY <2>1 DEF AuditingWriterInv
      <4>1. ~ended /\ auditFile[n][Len(auditFile[n])] = [key |-> k, part |-> "head"]
        BY <3>2, <4>0 DEF AuditingHolds
      <4>2. Len(auditFile[n]) > 0 /\ Len(auditFile[n]) \in Nat /\ Len(auditFile') = n
            /\ line = Append(auditFile[n], piece)
        BY <2>1, <2>4, <4>1 DEF AuditingWriterInv
      <4>3. Len(line) >= 2 /\ line[Len(line) - 1] = [key |-> k, part |-> "head"]
        BY <2>1, <4>1, <4>2
      <4>4. auditTask'[t].next = 3 /\ piece = [key |-> auditTask'[t].key, part |-> "tail"]
        BY <2>2, <3>2 DEF piece
      <4> QED BY <2>1, <2>2, <2>5, <4>3, <4>4 DEF AuditingHolds
    <3> QED BY <2>1, <3>1, <3>2
  <2>7. lock'
    BY <1>5, <2>1 DEF Auditing!Write, AuditingWriterInv
  <2> QED BY <2>1, <2>2, <2>3, <2>5, <2>6, <2>7 DEF AuditingWriterInv
<1>6. ASSUME NEW t \in Task, Auditing!WriteEnd(t) \/ Auditing!Fail(t)
      PROVE  AuditingWriterInv'
  <2>1. /\ auditTask[t].stage = "write" /\ auditTask'[t].stage = "commit"
        /\ auditFile' = auditFile
        /\ ended' = TRUE \/ ended' = ended
        /\ \A u \in Task : u # t => auditTask'[u] = auditTask[u]
    BY <1>6, AuditingEndMoves DEF Auditing!WriteEnd, Auditing!Fail
  <2>2. \A u \in Task : auditTask'[u].stage # "write"
    BY <2>1 DEF AuditingWriterInv
  <2> QED BY <2>1, <2>2 DEF AuditingWriterInv
<1>7. ASSUME NEW t \in Task, Auditing!Commit(t) PROVE AuditingWriterInv'
  BY <1>2, <1>7, AuditingCommitMoves
<1>8. CASE UNCHANGED Auditing!vars
  BY <1>8 DEF Auditing!vars, AuditingWriterInv, AuditingHolds
<1> QED BY <1>1, <1>3, <1>4, <1>5, <1>6, <1>7, <1>8 DEF Auditing!Next

LEMMA AuditingCountStep ==
    ASSUME Auditing!Parameters
    PROVE  AuditingTypes /\ AuditingWriterInv /\ AuditingCountInv /\ [Auditing!Next]_(Auditing!vars) => AuditingCountInv'
<1> SUFFICES ASSUME AuditingTypes, AuditingCountInv, [Auditing!Next]_(Auditing!vars),
                    NEW k \in IdemKey
             PROVE  /\ IsFiniteSet(AuditingPending(k)')
                    /\ acked'[k] + Cardinality(AuditingPending(k)') <= attempts'[k]
  BY DEF AuditingCountInv
<1>0. /\ IsFiniteSet(AuditingPending(k))
      /\ acked[k] + Cardinality(AuditingPending(k)) <= attempts[k]
      /\ Cardinality(AuditingPending(k)) \in Nat /\ acked[k] \in Nat
      /\ attempts[k] \in Nat
  BY FS_CardinalityType DEF AuditingCountInv, AuditingTypes
<1>1. CASE Auditing!Crash
  <2>1. AuditingPending(k)' = {}
    BY <1>1, AuditingCrashMoves DEF AuditingPending
  <2> QED BY <1>0, <1>1, <2>1, AuditingCrashMoves, FS_EmptySet
<1>2. ASSUME AuditingPending(k)' = AuditingPending(k), UNCHANGED acked,
             attempts' = attempts
      PROVE  /\ IsFiniteSet(AuditingPending(k)')
             /\ acked'[k] + Cardinality(AuditingPending(k)') <= attempts'[k]
  BY <1>0, <1>2
<1>3. ASSUME NEW t \in Task, Auditing!Begin(t)
      PROVE  /\ IsFiniteSet(AuditingPending(k)')
             /\ acked'[k] + Cardinality(AuditingPending(k)') <= attempts'[k]
  <2>1. PICK j \in IdemKey : /\ attempts' = [attempts EXCEPT ![j] = attempts[j] + 1]
                             /\ \A u \in Task : u # t => auditTask'[u] = auditTask[u]
                             /\ auditTask'[t].stage = "append" /\ auditTask'[t].key = j
    BY <1>3, AuditingBeginMoves
  <2>2. acked' = acked /\ auditTask[t].stage = "idle"
    BY <1>3 DEF Auditing!Begin
  <2>3. CASE j = k
    <3>1. AuditingPending(k)' = AuditingPending(k) \cup {t} /\ t \notin AuditingPending(k)
      BY <2>1, <2>2, <2>3, AuditingPendingGains
    <3>2. attempts'[k] = attempts[k] + 1
      BY <2>1, <2>3 DEF AuditingTypes
    <3>3. /\ IsFiniteSet(AuditingPending(k)')
          /\ Cardinality(AuditingPending(k)') = Cardinality(AuditingPending(k)) + 1
      BY <1>0, <3>1, FS_AddElement
    <3> QED BY <1>0, <2>2, <3>2, <3>3
  <2>4. CASE j # k
    <3>0. t \notin AuditingPending(k) /\ t \notin AuditingPending(k)'
      BY <2>1, <2>2, <2>4 DEF AuditingPending
    <3>1. AuditingPending(k)' = AuditingPending(k)
      BY <2>1, <3>0, AuditingPendingOthers
    <3>2. attempts'[k] = attempts[k]
      BY <2>1, <2>4 DEF AuditingTypes
    <3> QED BY <1>0, <2>2, <3>1, <3>2
  <2> QED BY <2>3, <2>4
<1>4. ASSUME NEW t \in Task, Auditing!Lock(t) \/ Auditing!Write(t)
      PROVE  /\ IsFiniteSet(AuditingPending(k)')
             /\ acked'[k] + Cardinality(AuditingPending(k)') <= attempts'[k]
  <2>1. /\ \A u \in Task : auditTask'[u].key = auditTask[u].key
        /\ \A u \in Task : auditTask'[u].stage \in {"append", "write"}
                             <=> auditTask[u].stage \in {"append", "write"}
    <3>1. CASE Auditing!Lock(t)
      BY <3>1, AuditingLockMoves
    <3>2. CASE Auditing!Write(t)
      <4>1. auditTask[t].next \in {1, 2}
        BY <3>2, AuditingWriteNext
      <4> QED BY <3>2, <4>1, AuditingWriterMoves
    <3> QED BY <1>4, <3>1, <3>2
  <2>2. AuditingPending(k)' = AuditingPending(k)
    BY <2>1 DEF AuditingPending
  <2> QED BY <1>2, <1>4, <2>2 DEF Auditing!Lock, Auditing!Write
<1>5. ASSUME NEW t \in Task, Auditing!WriteEnd(t) \/ Auditing!Fail(t)
      PROVE  /\ IsFiniteSet(AuditingPending(k)')
             /\ acked'[k] + Cardinality(AuditingPending(k)') <= attempts'[k]
  <2>1. /\ auditTask[t].stage = "write" /\ auditTask'[t].stage = "commit"
        /\ \A u \in Task : u # t => auditTask'[u] = auditTask[u]
        /\ acked' \in {acked, [acked EXCEPT ![auditTask[t].key] = acked[auditTask[t].key] + 1]}
        /\ attempts' = attempts
    BY <1>5, AuditingEndMoves DEF Auditing!WriteEnd, Auditing!Fail
  <2>2. CASE auditTask[t].key = k
    <3>1. AuditingPending(k)' = AuditingPending(k) \ {t} /\ t \in AuditingPending(k)
      BY <2>1, <2>2, AuditingPendingLoses
    <3>2. acked'[k] \in {acked[k], acked[k] + 1}
      BY <2>1, <2>2 DEF AuditingTypes
    <3>3. /\ IsFiniteSet(AuditingPending(k)')
          /\ Cardinality(AuditingPending(k)') = Cardinality(AuditingPending(k)) - 1
      BY <1>0, <3>1, FS_RemoveElement
    <3> QED BY <1>0, <2>1, <3>2, <3>3
  <2>3. CASE auditTask[t].key # k
    <3>0. t \notin AuditingPending(k) /\ t \notin AuditingPending(k)'
      BY <2>1, <2>3 DEF AuditingPending
    <3>1. AuditingPending(k)' = AuditingPending(k)
      BY <2>1, <3>0, AuditingPendingOthers
    <3>2. acked'[k] = acked[k]
      BY <2>1, <2>3 DEF AuditingTypes
    <3> QED BY <1>0, <2>1, <3>1, <3>2
  <2> QED BY <2>2, <2>3
<1>6. ASSUME NEW t \in Task, Auditing!Commit(t)
      PROVE  /\ IsFiniteSet(AuditingPending(k)')
             /\ acked'[k] + Cardinality(AuditingPending(k)') <= attempts'[k]
  <2>1. AuditingPending(k)' = AuditingPending(k)
    BY <1>6, AuditingCommitMoves DEF AuditingPending
  <2> QED BY <1>2, <1>6, <2>1 DEF Auditing!Commit
<1>7. CASE UNCHANGED Auditing!vars
  <2>1. AuditingPending(k)' = AuditingPending(k)
    BY <1>7 DEF Auditing!vars, AuditingPending
  <2> QED BY <1>2, <1>7, <2>1 DEF Auditing!vars
<1> QED BY <1>1, <1>3, <1>4, <1>5, <1>6, <1>7 DEF Auditing!Next

(***************************************************************************)
(* A line that nobody writes to any more verifies, or has become longer    *)
(* than a record and never will. Each record that was acknowledged has a   *)
(* line of the first kind, or there is one of the second. Each line that   *)
(* verifies is the work of one attempt, which owed it before. And as long  *)
(* as no append was cut short, a line has what its writer has put there    *)
(* and no more.                                                            *)
(***************************************************************************)
AuditingComplete(i) == i < Len(auditFile) \/ ended

AuditingGood(i, k) == Auditing!Verifies(auditFile[i]) /\ auditFile[i][1].key = k

AuditingLineInv ==
    \A i \in 1..Len(auditFile) : AuditingComplete(i) => Auditing!Verifies(auditFile[i]) \/ Len(auditFile[i]) > 2

AuditingRecorded(k) == {i \in 1..Len(auditFile) : AuditingComplete(i) /\ AuditingGood(i, k)}

AuditingAckInv ==
    \/ \E i \in 1..Len(auditFile) : Len(auditFile[i]) > 2
    \/ \A k \in IdemKey : acked[k] <= Cardinality(AuditingRecorded(k))

AuditingOwes(t, k) ==
    /\ auditTask[t].key = k
    /\ auditTask[t].stage = "append" \/ (auditTask[t].stage = "write" /\ auditTask[t].next < 3)

AuditingOnceInv ==
    \A k \in IdemKey :
      /\ \A t \in Task : AuditingOwes(t, k) => attempts[k] > 0
      /\ \A i \in 1..Len(auditFile) : AuditingGood(i, k) => attempts[k] > 0
      /\ \A t, u \in Task : t # u /\ AuditingOwes(t, k) /\ AuditingOwes(u, k) => attempts[k] > 1
      /\ \A t \in Task : \A i \in 1..Len(auditFile) :
            AuditingOwes(t, k) /\ AuditingGood(i, k) => attempts[k] > 1
      /\ \A i, j \in 1..Len(auditFile) : i # j /\ AuditingGood(i, k) /\ AuditingGood(j, k) => attempts[k] > 1

AuditingCutInv ==
    cuts = 0 =>
      /\ \A i \in 1..Len(auditFile) : AuditingComplete(i) => Auditing!Verifies(auditFile[i])
      /\ ~lock => ended
      /\ \A t \in Task : auditTask[t].stage = "write" =>
            IF auditTask[t].next = 1 THEN ended ELSE Len(auditFile[Len(auditFile)]) = auditTask[t].next - 1

\* Only the last line changes: it is a new one, or one that was not complete.
LEMMA AuditingWriteLines ==
    ASSUME AuditingTypes, AuditingWriterInv, NEW t \in Task, Auditing!Write(t)
    PROVE  /\ Len(auditFile) \in Nat /\ Len(auditFile') \in Nat /\ Len(auditFile') > 0
           /\ Len(auditFile') >= Len(auditFile) /\ ~ended'
           /\ \A i \in 1..Len(auditFile') :
                 i # Len(auditFile')
                    => i \in 1..Len(auditFile) /\ auditFile'[i] = auditFile[i] /\ AuditingComplete(i)
           /\ \A i \in 1..Len(auditFile) : AuditingComplete(i) => i < Len(auditFile')
           /\ \A i \in 1..Len(auditFile) : Len(auditFile'[i]) \in Nat /\ Len(auditFile'[i]) >= Len(auditFile[i])
           /\ auditTask[t].next = 1 =>
                 /\ ~Auditing!Verifies(auditFile'[Len(auditFile')])
                 /\ ended => Len(auditFile'[Len(auditFile')]) = 1
           /\ auditTask[t].next = 2 =>
                 /\ Len(auditFile') = Len(auditFile)
                 /\ Auditing!Verifies(auditFile'[Len(auditFile')])
                       => auditFile'[Len(auditFile')][1].key = auditTask[t].key
                 /\ Len(auditFile'[Len(auditFile)]) = Len(auditFile[Len(auditFile)]) + 1
<1> DEFINE k == auditTask[t].key
           which == IF auditTask[t].next = 1 THEN "head" ELSE "tail"
           piece == [key |-> k, part |-> which]
           n == Len(auditFile)
<1>1. /\ k \in IdemKey /\ piece \in AuditingPiece
      /\ auditTask[t].stage = "write" /\ auditTask[t].next \in {1, 2}
      /\ auditFile' \in Seq(Seq(AuditingPiece)) /\ ~ended'
      /\ IF ended
         THEN /\ Len(auditFile') = n + 1 /\ auditFile'[n + 1] = <<piece>>
              /\ \A i \in 1..n : auditFile'[i] = auditFile[i]
         ELSE /\ Len(auditFile') = n /\ auditFile'[n] = Append(auditFile[n], piece)
              /\ n > 0 /\ auditFile[n] \in Seq(AuditingPiece)
              /\ \A i \in 1..n : i # n => auditFile'[i] = auditFile[i]
  BY AuditingWriteMoves
<1>2. n \in Nat /\ auditFile \in Seq(Seq(AuditingPiece)) /\ \A i \in 1..n : Len(auditFile[i]) \in Nat
  BY DEF AuditingTypes
<1>3. piece.key = k /\ piece.part = which
  OBVIOUS
<1> HIDE DEF piece
<1>4. CASE ended
  <2>1. /\ Len(auditFile') = n + 1 /\ auditFile'[n + 1] = <<piece>>
        /\ \A i \in 1..n : auditFile'[i] = auditFile[i]
    BY <1>1, <1>4
  <2>2. Len(<<piece>>) = 1 /\ ~Auditing!Verifies(<<piece>>)
    BY DEF Auditing!Verifies
  <2>3. auditTask[t].next = 1
    <3>1. AuditingHolds(t)
      BY <1>1 DEF AuditingWriterInv
    <3> QED BY <1>1, <1>4, <3>1 DEF AuditingHolds
  <2>11. Len(auditFile') \in Nat /\ Len(auditFile') > 0 /\ Len(auditFile') >= n
    BY <1>2, <2>1
  <2>12. \A i \in 1..Len(auditFile') : i # Len(auditFile') =>
            i \in 1..n /\ auditFile'[i] = auditFile[i] /\ AuditingComplete(i)
    BY <1>2, <1>4, <2>1 DEF AuditingComplete
  <2>13. \A i \in 1..n : AuditingComplete(i) => i < Len(auditFile')
    BY <1>2, <1>4, <2>1 DEF AuditingComplete
  <2>14. \A i \in 1..n : Len(auditFile'[i]) \in Nat /\ Len(auditFile'[i]) >= Len(auditFile[i])
    BY <1>2, <2>1
  <2>15. auditFile'[Len(auditFile')] = <<piece>> /\ Len(auditFile'[Len(auditFile')]) = 1
    BY <2>1, <2>2
  <2> QED BY <1>1, <1>2, <2>2, <2>3, <2>11, <2>12, <2>13, <2>14, <2>15
<1>5. CASE ~ended
  <2>1. /\ Len(auditFile') = n /\ auditFile'[n] = Append(auditFile[n], piece)
        /\ n > 0 /\ auditFile[n] \in Seq(AuditingPiece)
        /\ \A i \in 1..n : i # n => auditFile'[i] = auditFile[i]
    BY <1>1, <1>5
  <2>2. Len(auditFile'[n]) = Len(auditFile[n]) + 1
         /\ auditFile'[n][Len(auditFile[n]) + 1] = piece
        /\ \A j \in 1..Len(auditFile[n]) : auditFile'[n][j] = auditFile[n][j]
    BY <1>1, <2>1
  <2>3. auditTask[t].next = 1 => ~Auditing!Verifies(auditFile'[n])
    BY <1>3, <2>1, <2>2 DEF Auditing!Verifies
  <2>4. Auditing!Verifies(auditFile'[n]) => auditFile'[n][1].key = k
    BY <1>3, <2>1, <2>2 DEF Auditing!Verifies
  <2>11. Len(auditFile') \in Nat /\ Len(auditFile') > 0 /\ Len(auditFile') >= n
    BY <1>2, <2>1
  <2>12. \A i \in 1..Len(auditFile') : i # Len(auditFile') =>
            i \in 1..n /\ auditFile'[i] = auditFile[i] /\ AuditingComplete(i)
    BY <1>2, <1>5, <2>1 DEF AuditingComplete
  <2>13. \A i \in 1..n : AuditingComplete(i) => i < Len(auditFile')
    BY <1>2, <1>5, <2>1 DEF AuditingComplete
  <2>14. \A i \in 1..n : Len(auditFile'[i]) \in Nat /\ Len(auditFile'[i]) >= Len(auditFile[i])
    BY <1>2, <2>1, <2>2
  <2>15. Len(auditFile') = n /\ Len(auditFile'[n]) = Len(auditFile[n]) + 1
    BY <2>1, <2>2
  <2> QED BY <1>1, <1>2, <1>5, <2>3, <2>4, <2>11, <2>12, <2>13, <2>14, <2>15
<1> QED BY <1>4, <1>5

\* The line that its writer ends is a record of its own, or longer than one.
LEMMA AuditingEndLine ==
    ASSUME AuditingTypes, AuditingWriterInv, NEW t \in Task, Auditing!WriteEnd(t)
    PROVE  LET n == Len(auditFile)
           IN  /\ n \in Nat /\ n > 0 /\ ~ended /\ ended' /\ auditFile' = auditFile
               /\ auditTask[t].stage = "write" /\ auditTask[t].next = 3
               /\ auditTask[t].key \in IdemKey
               /\ AuditingGood(n, auditTask[t].key) \/ Len(auditFile[n]) > 2
               /\ Len(auditFile[n]) = 2 => Auditing!Verifies(auditFile[n])
<1> DEFINE n == Len(auditFile)
<1>1. auditTask[t].stage = "write" /\ auditTask[t].next = 3 /\ ended'
       /\ auditFile' = auditFile
  BY DEF Auditing!WriteEnd, Auditing!Parts
<1>2. AuditingHolds(t)
  BY <1>1 DEF AuditingWriterInv
<1>3. ~ended /\ n > 0 /\ n \in Nat /\ auditFile[n] \in Seq(AuditingPiece)
       /\ auditTask[t].key \in IdemKey
  BY <1>1, <1>2 DEF AuditingHolds, AuditingWriterInv, AuditingTypes
<1>4. /\ Len(auditFile[n]) >= 2 /\ Len(auditFile[n]) \in Nat
      /\ auditFile[n][Len(auditFile[n]) - 1].key = auditTask[t].key
      /\ auditFile[n][Len(auditFile[n]) - 1].part = "head"
      /\ auditFile[n][Len(auditFile[n])].key = auditTask[t].key
      /\ auditFile[n][Len(auditFile[n])].part = "tail"
  BY <1>1, <1>2, <1>3 DEF AuditingHolds
<1>5. Len(auditFile[n]) = 2
         => AuditingGood(n, auditTask[t].key) /\ Auditing!Verifies(auditFile[n])
  BY <1>4 DEF AuditingGood, Auditing!Verifies
<1>6. AuditingGood(n, auditTask[t].key) \/ Len(auditFile[n]) > 2
  <2>0. Len(auditFile[n]) >= 2 /\ Len(auditFile[n]) \in Nat
    BY <1>4
  <2>1. \A m \in Nat : m >= 2 => m = 2 \/ m > 2
    OBVIOUS
  <2>2. Len(auditFile[n]) = 2 \/ Len(auditFile[n]) > 2
    BY <2>0, <2>1, Zenon
  <2> QED BY <1>5, <2>2, Zenon
<1>7. Len(auditFile[n]) = 2 => Auditing!Verifies(auditFile[n])
  BY <1>5
<1> QED BY <1>1, <1>3, <1>6, <1>7

\* Most steps leave the file alone.
LEMMA AuditingLineStep ==
    ASSUME Auditing!Parameters
    PROVE  AuditingTypes /\ AuditingWriterInv /\ AuditingLineInv /\ [Auditing!Next]_(Auditing!vars) => AuditingLineInv'
<1> SUFFICES ASSUME AuditingTypes, AuditingWriterInv, AuditingLineInv,
                    [Auditing!Next]_(Auditing!vars)
             PROVE  AuditingLineInv'
  OBVIOUS
<1>1. ASSUME UNCHANGED <<auditFile, ended>> PROVE AuditingLineInv'
  BY <1>1 DEF AuditingLineInv, AuditingComplete, Auditing!Verifies
<1>2. CASE Auditing!Crash
  BY <1>1, <1>2 DEF Auditing!Crash
<1>3. ASSUME NEW t \in Task,
             Auditing!Begin(t) \/ Auditing!Lock(t) \/ Auditing!Fail(t) \/ Auditing!Commit(t)
      PROVE  AuditingLineInv'
  BY <1>1, <1>3 DEF Auditing!Begin, Auditing!Lock, Auditing!Fail, Auditing!Commit
<1>4. ASSUME NEW t \in Task, Auditing!Write(t) PROVE AuditingLineInv'
  <2>1. /\ Len(auditFile') \in Nat /\ ~ended'
        /\ \A i \in 1..Len(auditFile') :
              i # Len(auditFile')
                 => i \in 1..Len(auditFile) /\ auditFile'[i] = auditFile[i] /\ AuditingComplete(i)
    BY <1>4, AuditingWriteLines
  <2>2. \A i \in 1..Len(auditFile') : AuditingComplete(i)' => i # Len(auditFile')
    BY <2>1 DEF AuditingComplete
  <2> QED BY <2>1, <2>2 DEF AuditingLineInv, Auditing!Verifies
<1>5. ASSUME NEW t \in Task, Auditing!WriteEnd(t) PROVE AuditingLineInv'
  <2>1. LET n == Len(auditFile)
        IN  /\ n \in Nat /\ auditFile' = auditFile
            /\ AuditingGood(n, auditTask[t].key) \/ Len(auditFile[n]) > 2
    BY <1>5, AuditingEndLine
  <2>2. \A i \in 1..Len(auditFile) : i # Len(auditFile) => AuditingComplete(i)
    BY <2>1 DEF AuditingComplete
  <2> QED BY <2>1, <2>2 DEF AuditingLineInv, Auditing!Verifies, AuditingGood
<1>6. CASE UNCHANGED Auditing!vars
  BY <1>1, <1>6 DEF Auditing!vars
<1> QED BY <1>2, <1>3, <1>4, <1>5, <1>6 DEF Auditing!Next

LEMMA AuditingAckStep ==
    ASSUME Auditing!Parameters
    PROVE  AuditingTypes /\ AuditingWriterInv /\ AuditingAckInv /\ [Auditing!Next]_(Auditing!vars) => AuditingAckInv'
<1> SUFFICES ASSUME AuditingTypes, AuditingWriterInv, AuditingAckInv,
                    [Auditing!Next]_(Auditing!vars)
             PROVE  AuditingAckInv'
  OBVIOUS
<1>0. Len(auditFile) \in Nat
  BY DEF AuditingTypes
<1>1. ASSUME UNCHANGED <<auditFile, ended, acked>> PROVE AuditingAckInv'
  <2>1. \A k \in IdemKey : AuditingRecorded(k)' = AuditingRecorded(k)
    BY <1>1 DEF AuditingRecorded, AuditingComplete, AuditingGood, Auditing!Verifies
  <2> QED BY <1>1, <2>1 DEF AuditingAckInv
<1>2. CASE Auditing!Crash
  BY <1>1, <1>2 DEF Auditing!Crash
<1>3. ASSUME NEW t \in Task,
             Auditing!Begin(t) \/ Auditing!Lock(t) \/ Auditing!Fail(t) \/ Auditing!Commit(t)
      PROVE  AuditingAckInv'
  BY <1>1, <1>3 DEF Auditing!Begin, Auditing!Lock, Auditing!Fail, Auditing!Commit
<1>4. ASSUME NEW t \in Task, Auditing!Write(t) PROVE AuditingAckInv'
  <2>1. /\ Len(auditFile') \in Nat /\ Len(auditFile') >= Len(auditFile) /\ ~ended'
        /\ \A i \in 1..Len(auditFile') :
              i # Len(auditFile')
                 => i \in 1..Len(auditFile) /\ auditFile'[i] = auditFile[i] /\ AuditingComplete(i)
        /\ \A i \in 1..Len(auditFile) : AuditingComplete(i) => i < Len(auditFile')
        /\ \A i \in 1..Len(auditFile) : Len(auditFile'[i]) \in Nat /\ Len(auditFile'[i]) >= Len(auditFile[i])
    BY <1>4, AuditingWriteLines
  <2>2. \A k \in IdemKey : AuditingRecorded(k)' = AuditingRecorded(k)
    <3>1. ASSUME NEW k \in IdemKey, NEW i \in AuditingRecorded(k)
          PROVE  i \in AuditingRecorded(k)'
      <4>1. i \in 1..Len(auditFile) /\ AuditingComplete(i) /\ AuditingGood(i, k)
        BY <3>1 DEF AuditingRecorded
      <4>2. i < Len(auditFile') /\ i \in 1..Len(auditFile')
        BY <1>0, <2>1, <4>1
      <4>3. auditFile'[i] = auditFile[i]
        BY <2>1, <4>2
      <4> QED BY <4>1, <4>2, <4>3 DEF AuditingRecorded, AuditingComplete, AuditingGood,
                 Auditing!Verifies
    <3>2. ASSUME NEW k \in IdemKey, NEW i \in AuditingRecorded(k)'
          PROVE  i \in AuditingRecorded(k)
      <4>1. i \in 1..Len(auditFile') /\ i < Len(auditFile') /\ AuditingGood(i, k)'
        BY <2>1, <3>2 DEF AuditingRecorded, AuditingComplete
      <4>2. i \in 1..Len(auditFile) /\ auditFile'[i] = auditFile[i] /\ AuditingComplete(i)
        BY <2>1, <4>1
      <4> QED BY <4>1, <4>2 DEF AuditingRecorded, AuditingGood, Auditing!Verifies
    <3> QED BY <3>1, <3>2
  <2>3. acked' = acked
    BY <1>4 DEF Auditing!Write
  <2>4. CASE \E i \in 1..Len(auditFile) : Len(auditFile[i]) > 2
    <3>1. PICK i \in 1..Len(auditFile) : Len(auditFile[i]) > 2
      BY <2>4
    <3>2. i \in 1..Len(auditFile') /\ Len(auditFile[i]) \in Nat
      BY <1>0, <2>1 DEF AuditingTypes
    <3>3. Len(auditFile'[i]) > 2
      BY <2>1, <3>1, <3>2
    <3> QED BY <3>2, <3>3 DEF AuditingAckInv
  <2> QED BY <2>2, <2>3, <2>4 DEF AuditingAckInv
<1>5. ASSUME NEW t \in Task, Auditing!WriteEnd(t) PROVE AuditingAckInv'
  <2> DEFINE n == Len(auditFile)
  <2>1. /\ n \in Nat /\ n > 0 /\ ~ended /\ ended' /\ auditFile' = auditFile
        /\ auditTask[t].key \in IdemKey
        /\ AuditingGood(n, auditTask[t].key) \/ Len(auditFile[n]) > 2
    BY <1>5, AuditingEndLine
  <2>2. CASE \E i \in 1..n : Len(auditFile[i]) > 2
    BY <2>1, <2>2 DEF AuditingAckInv
  <2>3. CASE ~\E i \in 1..n : Len(auditFile[i]) > 2
    <3>1. AuditingGood(n, auditTask[t].key) /\ \A k \in IdemKey : acked[k] <= Cardinality(AuditingRecorded(k))
      BY <2>1, <2>3 DEF AuditingAckInv
    <3>2. \A k \in IdemKey : IsFiniteSet(AuditingRecorded(k)) /\ n \notin AuditingRecorded(k)
      <4>1. \A k \in IdemKey : AuditingRecorded(k) \subseteq 1..n
        BY DEF AuditingRecorded
      <4>2. IsFiniteSet(1..n)
        BY <2>1, FS_Interval
      <4> QED BY <2>1, <4>1, <4>2, FS_Subset DEF AuditingRecorded, AuditingComplete
    <3>3. PICK k0 \in IdemKey : k0 = auditTask[t].key
      BY <2>1
    <3>4. AuditingRecorded(k0)' = AuditingRecorded(k0) \cup {n}
      <4>1. \A i \in 1..n : AuditingComplete(i)' /\ (i # n => AuditingComplete(i))
        BY <2>1 DEF AuditingComplete
      <4>2. n \in 1..n /\ AuditingGood(n, k0)
        BY <2>1, <3>1, <3>3
      <4> QED BY <2>1, <4>1, <4>2 DEF AuditingRecorded, AuditingGood, Auditing!Verifies
    <3>5. \A k \in IdemKey : k # k0 => AuditingRecorded(k)' = AuditingRecorded(k)
      <4>1. \A i \in 1..n : AuditingComplete(i)' /\ (i # n => AuditingComplete(i))
        BY <2>1 DEF AuditingComplete
      <4>2. \A k \in IdemKey : k # k0 => ~AuditingGood(n, k)
        BY <3>1, <3>3 DEF AuditingGood
      <4> QED BY <2>1, <4>1, <4>2 DEF AuditingRecorded, AuditingGood, Auditing!Verifies
    <3>6. /\ Cardinality(AuditingRecorded(k0)') = Cardinality(AuditingRecorded(k0)) + 1
          /\ Cardinality(AuditingRecorded(k0)) \in Nat
      BY <3>2, <3>4, FS_AddElement, FS_CardinalityType
    <3>7. \A k \in IdemKey : acked'[k] = acked[k] \/ (k = k0 /\ acked'[k] = acked[k] + 1)
      BY <1>5, <3>3 DEF Auditing!WriteEnd, AuditingTypes
    <3>8. ASSUME NEW k \in IdemKey PROVE acked'[k] <= Cardinality(AuditingRecorded(k)')
      <4>1. acked[k] \in Nat /\ acked[k] <= Cardinality(AuditingRecorded(k))
        BY <3>1 DEF AuditingTypes
      <4>2. CASE k = k0
        BY <3>6, <3>7, <4>1, <4>2
      <4>3. CASE k # k0
        BY <3>5, <3>7, <4>1, <4>3
      <4> QED BY <4>2, <4>3
    <3> QED BY <3>8 DEF AuditingAckInv
  <2> QED BY <2>2, <2>3
<1>6. CASE UNCHANGED Auditing!vars
  BY <1>1, <1>6 DEF Auditing!vars
<1> QED BY <1>2, <1>3, <1>4, <1>5, <1>6 DEF Auditing!Next

LEMMA AuditingOnceStep ==
    ASSUME Auditing!Parameters
    PROVE  AuditingTypes /\ AuditingWriterInv /\ AuditingOnceInv /\ [Auditing!Next]_(Auditing!vars) => AuditingOnceInv'
<1> SUFFICES ASSUME AuditingTypes, AuditingWriterInv, AuditingOnceInv,
                    [Auditing!Next]_(Auditing!vars)
             PROVE  AuditingOnceInv'
  OBVIOUS
<1>0. Len(auditFile) \in Nat /\ attempts \in [IdemKey -> Nat]
  BY DEF AuditingTypes, Auditing!Parameters
<1>1. ASSUME UNCHANGED <<auditFile, attempts>>, \A t \in Task,
             k \in IdemKey : AuditingOwes(t, k)' => AuditingOwes(t, k)
      PROVE  AuditingOnceInv'
  <2>1. \A k \in IdemKey : \A i \in 1..Len(auditFile) : AuditingGood(i, k)' <=> AuditingGood(i, k)
    BY <1>1 DEF AuditingGood, Auditing!Verifies
  <2> QED BY <1>1, <2>1 DEF AuditingOnceInv
<1>2. CASE Auditing!Crash
  BY <1>1, <1>2, AuditingCrashMoves DEF AuditingOwes
<1>3. ASSUME NEW t \in Task, Auditing!Begin(t) PROVE AuditingOnceInv'
  <2>1. PICK j \in IdemKey :
          /\ attempts' = [attempts EXCEPT ![j] = attempts[j] + 1]
          /\ \A u \in Task : u # t => auditTask'[u] = auditTask[u]
          /\ auditTask'[t].key = j
    BY <1>3, AuditingBeginMoves
  <2>2. auditFile' = auditFile /\ auditTask[t].stage = "idle"
    BY <1>3 DEF Auditing!Begin
  <2>3. ASSUME NEW k \in IdemKey
        PROVE  /\ \A i \in 1..Len(auditFile) : AuditingGood(i, k)' <=> AuditingGood(i, k)
               /\ \A u \in Task : u # t => (AuditingOwes(u, k)' <=> AuditingOwes(u, k))
               /\ AuditingOwes(t, k)' => k = j
               /\ attempts'[k] = IF k = j THEN attempts[k] + 1 ELSE attempts[k]
    BY <1>0, <2>1, <2>2 DEF AuditingGood, Auditing!Verifies, AuditingOwes
  <2>4. ASSUME NEW k \in IdemKey, k = j
        PROVE  /\ attempts'[k] > 0
               /\ attempts[k] > 0 => attempts'[k] > 1
               /\ attempts[k] > 1 => attempts'[k] > 1
    BY <1>0, <2>3, <2>4
  <2> QED BY <2>2, <2>3, <2>4 DEF AuditingOnceInv
<1>4. ASSUME NEW t \in Task, Auditing!Lock(t) PROVE AuditingOnceInv'
  <2>1. \A u \in Task, k \in IdemKey : AuditingOwes(u, k)' => AuditingOwes(u, k)
    BY <1>4, AuditingLockMoves DEF AuditingOwes, AuditingWriterInv
  <2> QED BY <1>1, <1>4, <2>1 DEF Auditing!Lock
<1>5. ASSUME NEW t \in Task, Auditing!Write(t) PROVE AuditingOnceInv'
  <2>0. PICK n \in Nat : n = Len(auditFile')
    BY <1>5, AuditingWriteLines
  <2>1. /\ auditTask[t].next \in {1, 2} /\ auditTask[t].stage = "write"
        /\ auditTask[t].key \in IdemKey
        /\ auditTask'[t].stage = "write" /\ auditTask'[t].key = auditTask[t].key
        /\ auditTask'[t].next = auditTask[t].next + 1
        /\ \A u \in Task : u # t => auditTask'[u] = auditTask[u]
    BY <1>5, AuditingWriteNext, AuditingWriterMoves, AuditingWriteMoves
  <2>2. attempts' = attempts
    BY <1>5 DEF Auditing!Write
  <2>3. /\ n \in Nat /\ n > 0
        /\ \A i \in 1..n : i # n => i \in 1..Len(auditFile) /\ auditFile'[i] = auditFile[i]
    BY <1>5, <2>0, AuditingWriteLines
  <2>4. \A k \in IdemKey : \A i \in 1..n : i # n /\ AuditingGood(i, k)' => i \in 1..Len(auditFile) /\ AuditingGood(i, k)
    BY <2>3 DEF AuditingGood, Auditing!Verifies
  <2>5. \A u \in Task, k \in IdemKey : AuditingOwes(u, k)' => AuditingOwes(u, k)
    BY <2>1 DEF AuditingOwes
  <2>6. \A k \in IdemKey : AuditingGood(n, k)' => AuditingOwes(t, k) /\ ~AuditingOwes(t, k)'
    <3>1. CASE auditTask[t].next = 1
      <4>1. ~Auditing!Verifies(auditFile'[n])
        BY <1>5, <2>0, <3>1, AuditingWriteLines
      <4> QED BY <4>1 DEF AuditingGood, Auditing!Verifies
    <3>2. CASE auditTask[t].next = 2
      <4>1. Auditing!Verifies(auditFile'[n]) => auditFile'[n][1].key = auditTask[t].key
        BY <1>5, <2>0, <3>2, AuditingWriteLines
      <4>2. \A k \in IdemKey : AuditingGood(n, k)' => k = auditTask[t].key
        BY <4>1 DEF AuditingGood, Auditing!Verifies
      <4> QED BY <2>1, <3>2, <4>2 DEF AuditingOwes
    <3> QED BY <2>1, <3>1, <3>2
  <2>7. ASSUME NEW k \in IdemKey
        PROVE  /\ \A u \in Task : AuditingOwes(u, k)' => attempts'[k] > 0
               /\ \A i \in 1..n : AuditingGood(i, k)' => attempts'[k] > 0
    BY <2>2, <2>4, <2>5, <2>6 DEF AuditingOnceInv
  <2>8. ASSUME NEW k \in IdemKey, NEW u \in Task, NEW v \in Task, u # v,
               AuditingOwes(u, k)', AuditingOwes(v, k)'
        PROVE  attempts'[k] > 1
    BY <2>2, <2>5, <2>8 DEF AuditingOnceInv
  <2>9. ASSUME NEW k \in IdemKey, NEW u \in Task, NEW i \in 1..n, AuditingOwes(u, k)',
               AuditingGood(i, k)'
        PROVE  attempts'[k] > 1
    <3>1. CASE i = n
      <4>1. u # t /\ AuditingOwes(u, k) /\ AuditingOwes(t, k)
        BY <2>5, <2>6, <2>9, <3>1
      <4> QED BY <2>2, <4>1 DEF AuditingOnceInv
    <3>2. CASE i # n
      <4>1. i \in 1..Len(auditFile) /\ AuditingGood(i, k) /\ AuditingOwes(u, k)
        BY <2>4, <2>5, <2>9, <3>2
      <4> QED BY <2>2, <4>1 DEF AuditingOnceInv
    <3> QED BY <3>1, <3>2
  <2>10. ASSUME NEW k \in IdemKey, NEW i \in 1..n, NEW j \in 1..n, i # j,
                AuditingGood(i, k)', AuditingGood(j, k)'
         PROVE  attempts'[k] > 1
    <3>1. CASE i # n /\ j # n
      <4>1. i \in 1..Len(auditFile) /\ AuditingGood(i, k) /\ j \in 1..Len(auditFile)
             /\ AuditingGood(j, k)
        BY <2>4, <2>10, <3>1
      <4> QED BY <2>2, <2>10, <4>1 DEF AuditingOnceInv
    <3>2. CASE i = n
      <4>1. j \in 1..Len(auditFile) /\ AuditingGood(j, k) /\ AuditingOwes(t, k)
        BY <2>4, <2>6, <2>10, <3>2
      <4> QED BY <2>2, <4>1 DEF AuditingOnceInv
    <3>3. CASE j = n
      <4>1. i \in 1..Len(auditFile) /\ AuditingGood(i, k) /\ AuditingOwes(t, k)
        BY <2>4, <2>6, <2>10, <3>3
      <4> QED BY <2>2, <4>1 DEF AuditingOnceInv
    <3> QED BY <3>1, <3>2, <3>3
  <2> QED BY <2>0, <2>7, <2>8, <2>9, <2>10 DEF AuditingOnceInv
<1>6. ASSUME NEW t \in Task, Auditing!WriteEnd(t) \/ Auditing!Fail(t)
      PROVE  AuditingOnceInv'
  <2>1. \A u \in Task, k \in IdemKey : AuditingOwes(u, k)' => AuditingOwes(u, k)
    BY <1>6, AuditingEndMoves DEF AuditingOwes
  <2> QED BY <1>1, <1>6, <2>1 DEF Auditing!WriteEnd, Auditing!Fail
<1>7. ASSUME NEW t \in Task, Auditing!Commit(t) PROVE AuditingOnceInv'
  <2>1. \A u \in Task, k \in IdemKey : AuditingOwes(u, k)' => AuditingOwes(u, k)
    BY <1>7, AuditingCommitMoves DEF AuditingOwes
  <2> QED BY <1>1, <1>7, <2>1 DEF Auditing!Commit
<1>8. CASE UNCHANGED Auditing!vars
  BY <1>1, <1>8 DEF Auditing!vars, AuditingOwes
<1> QED BY <1>2, <1>3, <1>4, <1>5, <1>6, <1>7, <1>8 DEF Auditing!Next

LEMMA AuditingCutStep ==
    ASSUME Auditing!Parameters
    PROVE  AuditingTypes /\ AuditingWriterInv /\ AuditingCutInv /\ [Auditing!Next]_(Auditing!vars) => AuditingCutInv'
<1> SUFFICES ASSUME AuditingTypes, AuditingWriterInv, AuditingCutInv,
                    [Auditing!Next]_(Auditing!vars), cuts' = 0
             PROVE  AuditingCutInv'
  BY DEF AuditingCutInv
<1>0. Len(auditFile) \in Nat /\ cuts \in Nat
  BY DEF AuditingTypes, Auditing!Parameters
<1>1. ASSUME NEW t \in Task, cuts = 0, UNCHANGED <<auditFile, ended, lock>>,
             auditTask'[t].stage # "write", \A u \in Task : u # t => auditTask'[u] = auditTask[u]
      PROVE  AuditingCutInv'
  BY <1>1 DEF AuditingCutInv, AuditingComplete, Auditing!Verifies
<1>2. CASE Auditing!Crash
  BY <1>0, <1>2 DEF Auditing!Crash
<1>3. ASSUME NEW t \in Task, Auditing!Begin(t) PROVE AuditingCutInv'
  BY <1>1, <1>3, AuditingBeginMoves DEF Auditing!Begin
<1>4. ASSUME NEW t \in Task, Auditing!Lock(t) PROVE AuditingCutInv'
  <2>1. /\ ~lock /\ lock' /\ UNCHANGED <<auditFile, ended, cuts>>
        /\ auditTask[t].stage = "append" /\ auditTask[t].next = 1
        /\ \A u \in Task : auditTask[u].stage # "write"
    BY <1>4 DEF Auditing!Lock, AuditingWriterInv
  <2>2. auditTask'[t].next = 1 /\ \A u \in Task : u # t => auditTask'[u] = auditTask[u]
    BY <1>4, <2>1, AuditingLockMoves
  <2> QED BY <2>1, <2>2 DEF AuditingCutInv, AuditingComplete, Auditing!Verifies
<1>5. ASSUME NEW t \in Task, Auditing!Write(t) PROVE AuditingCutInv'
  <2>1. /\ auditTask[t].next \in {1, 2} /\ auditTask[t].stage = "write"
        /\ auditTask'[t].next = auditTask[t].next + 1
        /\ \A u \in Task : u # t => auditTask'[u] = auditTask[u]
    BY <1>5, AuditingWriteNext, AuditingWriterMoves
  <2>2. lock /\ lock' = lock /\ cuts = 0 /\ \A u \in Task : u # t => auditTask[u].stage # "write"
    BY <1>5, <2>1 DEF Auditing!Write, AuditingWriterInv
  <2>3. /\ Len(auditFile') \in Nat /\ ~ended'
        /\ \A i \in 1..Len(auditFile') :
              i # Len(auditFile')
                 => i \in 1..Len(auditFile) /\ auditFile'[i] = auditFile[i] /\ AuditingComplete(i)
    BY <1>5, AuditingWriteLines
  <2>4. \A i \in 1..Len(auditFile') : AuditingComplete(i)' => Auditing!Verifies(auditFile'[i])
    BY <2>2, <2>3 DEF AuditingComplete, AuditingCutInv
  <2>5. Len(auditFile'[Len(auditFile')]) = auditTask[t].next
    <3>1. CASE auditTask[t].next = 1
      BY <1>5, <2>1, <2>2, <3>1, AuditingWriteLines DEF AuditingCutInv
    <3>2. CASE auditTask[t].next = 2
      <4>1. /\ Len(auditFile') = Len(auditFile)
            /\ Len(auditFile'[Len(auditFile)]) = Len(auditFile[Len(auditFile)]) + 1
        BY <1>5, <3>2, AuditingWriteLines
      <4>2. auditTask[t].next # 1
        BY <3>2
      <4>3. Len(auditFile[Len(auditFile)]) = auditTask[t].next - 1
        BY <2>1, <2>2, <4>2, Zenon DEF AuditingCutInv
      <4> QED BY <3>2, <4>1, <4>3
    <3> QED BY <2>1, <3>1, <3>2
  <2>6. auditTask'[t].next # 1
         /\ Len(auditFile'[Len(auditFile')]) = auditTask'[t].next - 1
    BY <2>1, <2>5
  <2> QED BY <2>1, <2>2, <2>4, <2>6 DEF AuditingCutInv, Auditing!Verifies
<1>6. ASSUME NEW t \in Task, Auditing!WriteEnd(t) PROVE AuditingCutInv'
  <2> DEFINE n == Len(auditFile)
  <2>1. /\ n \in Nat /\ n > 0 /\ ~ended /\ ended' /\ auditFile' = auditFile
        /\ auditTask[t].stage = "write" /\ auditTask[t].next = 3
        /\ Len(auditFile[n]) = 2 => Auditing!Verifies(auditFile[n])
    BY <1>6, AuditingEndLine
  <2>2. cuts = 0 /\ \A u \in Task : u # t => auditTask'[u] = auditTask[u]
    BY <1>6, AuditingEndMoves DEF Auditing!WriteEnd
  <2>3. auditTask'[t].stage # "write" /\ \A u \in Task : u # t => auditTask[u].stage # "write"
    BY <1>6, <2>1, AuditingEndMoves DEF AuditingWriterInv
  <2>4. Auditing!Verifies(auditFile[n])
    <3>1. Len(auditFile[n]) = auditTask[t].next - 1
      BY <2>1, <2>2 DEF AuditingCutInv
    <3> QED BY <2>1, <3>1
  <2>5. \A i \in 1..n : i # n => AuditingComplete(i)
    BY <2>1 DEF AuditingComplete
  <2>6. \A i \in 1..n : Auditing!Verifies(auditFile[i])
    BY <2>2, <2>4, <2>5 DEF AuditingCutInv
  <2> QED BY <2>1, <2>2, <2>3, <2>6 DEF AuditingCutInv, Auditing!Verifies
<1>7. ASSUME NEW t \in Task, Auditing!Fail(t) PROVE AuditingCutInv'
  BY <1>0, <1>7 DEF Auditing!Fail
<1>8. ASSUME NEW t \in Task, Auditing!Commit(t) PROVE AuditingCutInv'
  BY <1>1, <1>8, AuditingCommitMoves
<1>9. CASE UNCHANGED Auditing!vars
  BY <1>9 DEF Auditing!vars, AuditingCutInv, AuditingComplete, Auditing!Verifies
<1> QED BY <1>2, <1>3, <1>4, <1>5, <1>6, <1>7, <1>8, <1>9 DEF Auditing!Next

AuditingAllInv == AuditingTypes /\ AuditingWriterInv /\ AuditingCountInv
    /\ AuditingLineInv /\ AuditingAckInv /\ AuditingOnceInv /\ AuditingCutInv

LEMMA AuditingAllInvInit ==
    ASSUME Auditing!Parameters
    PROVE  Auditing!Init => AuditingAllInv
<1> SUFFICES ASSUME Auditing!Init PROVE AuditingAllInv
  OBVIOUS
<1>1. /\ auditFile = <<>> /\ Len(auditFile) = 0 /\ ended = TRUE /\ 1..Len(auditFile) = {}
      /\ \A t \in Task : auditTask[t].stage = "idle"
      /\ \A k \in IdemKey : acked[k] = 0
  <2>1. auditFile = <<>> /\ Len(<<>>) = 0 /\ 1..0 = {} /\ ended = TRUE
    BY DEF Auditing!Init
  <2>2. \A t \in Task : auditTask[t].stage = "idle"
    BY DEF Auditing!Init, Auditing!Idle
  <2>3. \A k \in IdemKey : acked[k] = 0
    BY DEF Auditing!Init
  <2> QED BY <2>1, <2>2, <2>3
<1>2. \A k \in IdemKey : AuditingRecorded(k) = {}
  BY <1>1 DEF AuditingRecorded
<1>3. AuditingAckInv
  BY <1>1, <1>2, FS_EmptySet DEF AuditingAckInv
<1>4. AuditingLineInv /\ AuditingOnceInv /\ AuditingCutInv
  BY <1>1 DEF AuditingLineInv, AuditingOnceInv, AuditingCutInv, AuditingOwes
<1> QED BY <1>3, <1>4, AuditingInitInv DEF AuditingAllInv

LEMMA AuditingAllInvStep ==
    ASSUME Auditing!Parameters
    PROVE  AuditingAllInv /\ [Auditing!Next]_(Auditing!vars) => AuditingAllInv'
BY AuditingTypeStep, AuditingWriterStep, AuditingCountStep, AuditingLineStep,
   AuditingAckStep, AuditingOnceStep, AuditingCutStep DEF AuditingAllInv

\* A count stays within the bound, as no more is acknowledged than was begun.
LEMMA AuditingTypeCorrect ==
    ASSUME Auditing!Parameters
    PROVE  Auditing!Init /\ [][Auditing!Next]_(Auditing!vars) => []Auditing!TypeOK
<1>1. AuditingAllInv => Auditing!TypeOK
  <2> SUFFICES ASSUME AuditingAllInv PROVE Auditing!TypeOK
    OBVIOUS
  <2>1. AuditingTypes /\ AuditingCountInv
    BY DEF AuditingAllInv
  <2>2. acked \in [IdemKey -> 0..MaxAttempts]
    <3>1. ASSUME NEW k \in IdemKey PROVE acked[k] \in 0..MaxAttempts
      <4>1. acked[k] \in Nat /\ attempts[k] \in 0..MaxAttempts /\ MaxAttempts \in Nat
        BY <2>1 DEF AuditingTypes, Auditing!Parameters
      <4>2. IsFiniteSet(AuditingPending(k))
             /\ acked[k] + Cardinality(AuditingPending(k)) <= attempts[k]
        BY <2>1 DEF AuditingCountInv
      <4>3. Cardinality(AuditingPending(k)) \in Nat
        BY <4>2, FS_CardinalityType
      <4> QED BY <4>1, <4>2, <4>3
    <3>2. acked \in [IdemKey -> Nat]
      BY <2>1 DEF AuditingTypes
    <3> QED BY <3>1, <3>2
  <2>3. Len(Auditing!Parts) = 3
    BY DEF Auditing!Parts
  <2> QED BY <2>1, <2>2, <2>3 DEF AuditingTypes, Auditing!TypeOK, AuditingPiece,
             AuditingAppender
<1> QED BY <1>1, AuditingAllInvInit, AuditingAllInvStep, PTL

\* What the scan finds, when it finds nothing wrong.
LEMMA AuditingScanFinds ==
    ASSUME AuditingTypes, Auditing!Scan.ok, NEW k \in IdemKey
    PROVE  Auditing!Count(k) = Cardinality({i \in 1..Len(auditFile) : AuditingGood(i, k)})
<1>1. \A i \in 1..Len(auditFile) : Auditing!Verifies(auditFile[i])
  BY DEF Auditing!Scan
<1>2. Auditing!Scan.keys = [i \in 1..Len(auditFile) |-> auditFile[i][1].key]
  BY <1>1 DEF Auditing!Scan
<1>3. Len(Auditing!Scan.keys) = Len(auditFile)
  BY <1>2 DEF AuditingTypes
<1>4. {i \in 1..Len(Auditing!Scan.keys) : Auditing!Scan.keys[i] = k} = {i \in 1..Len(auditFile) : AuditingGood(i, k)}
  BY <1>1, <1>2, <1>3 DEF AuditingGood
<1> QED BY <1>4, AuditingCardinality DEF Auditing!Count

\* Where nothing is longer than a record, each acknowledged record has its line.
LEMMA AuditingCompleteIfVerified ==
    ASSUME Auditing!Parameters
    PROVE  Auditing!Init /\ [][Auditing!Next]_(Auditing!vars)
              => []Auditing!VerifiedIsComplete
<1>1. AuditingAllInv => Auditing!VerifiedIsComplete
  <2> SUFFICES ASSUME AuditingAllInv, Auditing!Scan.ok, NEW k \in IdemKey
               PROVE  Auditing!Count(k) >= acked[k]
    BY DEF Auditing!VerifiedIsComplete
  <2>1. AuditingTypes /\ AuditingAckInv
    BY DEF AuditingAllInv
  <2>2. \A i \in 1..Len(auditFile) : Auditing!Verifies(auditFile[i]) /\ Len(auditFile[i]) = 2
    BY DEF Auditing!Scan, Auditing!Verifies
  <2>3. acked[k] \in Nat /\ acked[k] <= Cardinality(AuditingRecorded(k))
    <3>0. ~(2 > 2)
      OBVIOUS
    <3>1. \A i \in 1..Len(auditFile) : ~(Len(auditFile[i]) > 2)
      BY <2>2, <3>0, Zenon
    <3>2. acked[k] <= Cardinality(AuditingRecorded(k))
      BY <2>1, <3>1, Zenon DEF AuditingAckInv
    <3>3. acked[k] \in Nat
      BY <2>1 DEF AuditingTypes
    <3> QED BY <3>2, <3>3
  <2>4. LET G == {i \in 1..Len(auditFile) : AuditingGood(i, k)}
        IN  IsFiniteSet(G) /\ AuditingRecorded(k) \subseteq G
    <3>1. IsFiniteSet(1..Len(auditFile))
      BY <2>1, FS_Interval DEF AuditingTypes
    <3> QED BY <3>1, FS_Subset DEF AuditingRecorded
  <2>5. /\ Cardinality(AuditingRecorded(k)) <= Auditing!Count(k)
        /\ Cardinality(AuditingRecorded(k)) \in Nat /\ Auditing!Count(k) \in Nat
    BY <2>1, <2>4, AuditingScanFinds, FS_Subset, FS_CardinalityType
  <2> QED BY <2>3, <2>5
<1> QED BY <1>1, AuditingAllInvInit, AuditingAllInvStep, PTL

LEMMA AuditingBadIfCut ==
    ASSUME Auditing!Parameters
    PROVE  Auditing!Init /\ [][Auditing!Next]_(Auditing!vars)
           => []Auditing!FailsOnlyAfterCut
<1>1. AuditingAllInv => Auditing!FailsOnlyAfterCut
  <2> SUFFICES ASSUME AuditingAllInv, ~lock, ~Auditing!Scan.ok, cuts = 0 PROVE FALSE
    <3>1. AuditingAllInv => cuts \in Nat
      BY DEF AuditingAllInv, AuditingTypes
    <3> QED BY <3>1 DEF Auditing!FailsOnlyAfterCut
  <2>1. ended /\ \A i \in 1..Len(auditFile) : AuditingComplete(i) => Auditing!Verifies(auditFile[i])
    BY DEF AuditingAllInv, AuditingCutInv
  <2>2. \A i \in 1..Len(auditFile) : Auditing!Verifies(auditFile[i])
    BY <2>1 DEF AuditingComplete
  <2> QED BY <2>2 DEF Auditing!Scan
<1> QED BY <1>1, AuditingAllInvInit, AuditingAllInvStep, PTL

LEMMA AuditingTwiceIfRetried ==
    ASSUME Auditing!Parameters
    PROVE  Auditing!Init /\ [][Auditing!Next]_(Auditing!vars)
              => []Auditing!DuplicateMeansRetried
<1>1. AuditingAllInv => Auditing!DuplicateMeansRetried
  <2> SUFFICES ASSUME AuditingAllInv, NEW k \in IdemKey, Auditing!Count(k) > 1
               PROVE  attempts[k] > 1
    BY DEF Auditing!DuplicateMeansRetried, Auditing!Duplicate
  <2> DEFINE G == {i \in 1..Len(auditFile) : AuditingGood(i, k)}
  <2>1. AuditingTypes /\ AuditingOnceInv
    BY DEF AuditingAllInv
  <2>2. Cardinality(G) > 1
    <3>1. Auditing!Scan.ok
      <4>1. CASE ~\A i \in 1..Len(auditFile) : Auditing!Verifies(auditFile[i])
        <5>1. Auditing!Scan.keys = <<>> /\ 1..Len(Auditing!Scan.keys) = {}
          BY <4>1 DEF Auditing!Scan
        <5>2. {i \in 1..Len(Auditing!Scan.keys) : Auditing!Scan.keys[i] = k} = {}
          BY <5>1
        <5>3. Auditing!Count(k) = 0
          BY <5>2, FS_EmptySet, AuditingCardinality DEF Auditing!Count
        <5> QED BY <5>3
      <4> QED BY <4>1 DEF Auditing!Scan
    <3> QED BY <2>1, <3>1, AuditingScanFinds
  <2>3. \E i, j \in G : i # j
    <3>1. ASSUME \A i, j \in G : i = j PROVE FALSE
      <4>1. G # {}
        BY <2>2, FS_EmptySet
      <4>2. PICK i \in G : G = {i}
        BY <3>1, <4>1
      <4>3. Cardinality(G) = 1
        BY <4>2, FS_Singleton
      <4> QED BY <2>2, <4>3
    <3> QED BY <3>1
  <2> QED BY <2>1, <2>3 DEF AuditingOnceInv
<1> QED BY <1>1, AuditingAllInvInit, AuditingAllInvStep, PTL

-----------------------------------------------------------------------------
(* Rewrite: for any rules, patterns, requests and values.                  *)

\* Finite sets are well-founded by inclusion, so that a set of numbers has a least one:
\* of the intervals up to its members one includes no other.
LEMMA RewritingLeast ==
    ASSUME NEW T \in SUBSET Nat, T # {}
    PROVE  \E n \in T : \A m \in T : n <= m
<1> DEFINE Below == {1..n : n \in T}
           R == StrictSubsetOrdering(Nat)
<1>1. \A n \in T : 1..n \in FiniteSubsetsOf(Nat)
  BY FS_Interval DEF FiniteSubsetsOf
<1>2. PICK s \in Below : \A t \in Below : ~(<<t, s>> \in R)
  <2>1. Below \subseteq FiniteSubsetsOf(Nat) /\ Below # {}
    BY <1>1
  <2>2. IsWellFoundedOn(R, FiniteSubsetsOf(Nat))
    BY FS_StrictSubsetOrderingWellFounded
  <2> HIDE DEF Below, R
  <2> QED BY <2>1, <2>2, WFMin
<1>3. PICK n \in T : s = 1..n
  BY <1>2
<1>4. ASSUME NEW m \in T, ~(n <= m) PROVE FALSE
  <2>1. 1..m \subseteq 1..n /\ 1..m # 1..n
    <3>1. n \in 1..n /\ n \notin 1..m
      BY <1>4
    <3> QED BY <3>1, <1>4
  <2>2. <<1..m, s>> \in R
    BY <2>1, <1>3 DEF StrictSubsetOrdering
  <2> QED BY <1>2, <2>2
<1> QED BY <1>4

\* Induction over the numbers, as a set that holds them all.
LEMMA RewritingInduction ==
    ASSUME NEW S \in SUBSET Nat, 0 \in S, \A n \in S : n + 1 \in S
    PROVE  S = Nat
<1> SUFFICES ASSUME S # Nat PROVE FALSE
  OBVIOUS
<1>1. PICK n \in Nat \ S : \A m \in Nat \ S : n <= m
  BY RewritingLeast
<1> QED BY <1>1

\* What is selected of the first n elements, if f says so for those before.
RewritingUptoBody(f, s, K, n) ==
    IF n = 0 THEN <<>> ELSE IF n \in K THEN Append(f[n - 1], s[n]) ELSE f[n - 1]

\* The recursive function of Rewriting!Selected exists.
LEMMA RewritingUptoExists ==
    ASSUME NEW s, NEW K
    PROVE  \A m \in Nat : \E f : f = [n \in 0..m |-> RewritingUptoBody(f, s, K, n)]
<1> DEFINE S == {m \in Nat : \E f : f = [n \in 0..m |-> RewritingUptoBody(f, s, K, n)]}
<1>1. 0 \in S
  <2> DEFINE f == [n \in 0..0 |-> <<>>]
  <2>1. f = [n \in 0..0 |-> RewritingUptoBody(f, s, K, n)]
    BY DEF RewritingUptoBody
  <2> QED BY <2>1
<1>2. ASSUME NEW m \in S PROVE m + 1 \in S
  <2>1. PICK f : f = [n \in 0..m |-> RewritingUptoBody(f, s, K, n)]
    OBVIOUS
  <2> DEFINE g == [n \in 0..(m + 1) |-> RewritingUptoBody(f, s, K, n)]
  <2>2. \A k \in 0..m : g[k] = f[k]
    <3> DEFINE h == [n \in 0..m |-> RewritingUptoBody(f, s, K, n)]
    <3>1. \A k \in 0..m : g[k] = h[k]
      OBVIOUS
    <3>2. h = f
      BY <2>1, Zenon
    <3> QED BY <3>1, <3>2, Zenon
  <2>3. \A n \in 0..(m + 1) : RewritingUptoBody(f, s, K, n) = RewritingUptoBody(g, s, K, n)
    <3> HIDE DEF g
    <3> QED BY <2>2 DEF RewritingUptoBody
  <2>4. g = [n \in 0..(m + 1) |-> RewritingUptoBody(g, s, K, n)]
    <3>1. g = [n \in 0..(m + 1) |-> RewritingUptoBody(f, s, K, n)]
      OBVIOUS
    <3> HIDE DEF g
    <3> QED BY <2>3, <3>1
  <2>5. m + 1 \in Nat
    OBVIOUS
  <2> QED BY <2>4, <2>5, Zenon
<1>3. S = Nat
  <2>1. S \in SUBSET Nat
    OBVIOUS
  <2> HIDE DEF S
  <2> QED BY <1>1, <1>2, <2>1, RewritingInduction
<1> QED BY <1>3, Zenon

\* Rewriting!Selected is what it says.
LEMMA RewritingSelectedDef ==
    ASSUME NEW s, NEW K, Len(s) \in Nat
    PROVE  \E f : /\ f = [n \in 0..Len(s) |-> RewritingUptoBody(f, s, K, n)]
                  /\ Rewriting!Selected(s, K) = f[Len(s)]
<1> DEFINE upto == CHOOSE f : f = [n \in 0..Len(s) |-> RewritingUptoBody(f, s, K, n)]
<1>1. upto = [n \in 0..Len(s) |-> RewritingUptoBody(upto, s, K, n)]
  <2>1. \A m \in Nat : \E f : f = [n \in 0..m |-> RewritingUptoBody(f, s, K, n)]
    BY RewritingUptoExists
  <2>2. \E f : f = [n \in 0..Len(s) |-> RewritingUptoBody(f, s, K, n)]
    BY <2>1, Zenon
  <2> QED BY <2>2, Zenon
<1>2. Rewriting!Selected(s, K) = upto[Len(s)]
  BY DEF Rewriting!Selected, RewritingUptoBody
<1> HIDE DEF upto
<1> QED BY <1>1, <1>2

\* g enumerates the kept positions of s up to n, in order, and t has their elements.
RewritingEnumerates(g, s, K, n, t) ==
    /\ g \in [1..Len(t) -> K \cap (1..n)]
    /\ \A j \in 1..Len(t) : t[j] = s[g[j]]
    /\ \A j, k \in 1..Len(t) : j < k => g[j] < g[k]
    /\ \A i \in K \cap (1..n) : \E j \in 1..Len(t) : g[j] = i

\* One more that is kept.
LEMMA RewritingEnumeratesMore ==
    ASSUME NEW S, NEW s \in Seq(S), NEW K, NEW n \in Nat, n + 1 \in 1..Len(s),
           n + 1 \in K,
           NEW t \in Seq(S), NEW g, RewritingEnumerates(g, s, K, n, t)
    PROVE  /\ Append(t, s[n + 1]) \in Seq(S)
           /\ \E h : RewritingEnumerates(h, s, K, n + 1, Append(t, s[n + 1]))
<1>1. s[n + 1] \in S /\ Len(t) \in Nat
  OBVIOUS
<1> DEFINE u == Append(t, s[n + 1])
           h == [j \in 1..(Len(t) + 1) |-> IF j = Len(t) + 1 THEN n + 1 ELSE g[j]]
<1>2. /\ u \in Seq(S) /\ Len(u) = Len(t) + 1 /\ u[Len(t) + 1] = s[n + 1]
      /\ \A j \in 1..Len(t) : u[j] = t[j]
  BY <1>1
<1> HIDE DEF u
<1>3. \A j \in 1..Len(t) : h[j] = g[j] /\ g[j] \in K \cap (1..n)
  BY <1>1 DEF RewritingEnumerates
<1>4. h[Len(t) + 1] = n + 1
  BY <1>1
<1>5. h \in [1..Len(u) -> K \cap (1..(n + 1))]
  <2>1. \A j \in 1..(Len(t) + 1) : h[j] \in K \cap (1..(n + 1))
    <3> HIDE DEF h
    <3>1. n + 1 \in 1..(n + 1) /\ 1..n \subseteq 1..(n + 1)
      OBVIOUS
    <3>2. \A j \in 1..(Len(t) + 1) : j \in 1..Len(t) \/ j = Len(t) + 1
      BY <1>1
    <3> QED BY <1>3, <1>4, <3>1, <3>2
  <2> QED BY <1>2, <2>1
<1> HIDE DEF h
<1>6. \A j \in 1..Len(u) : j \in 1..Len(t) \/ j = Len(t) + 1
  BY <1>1, <1>2
<1>7. \A j \in 1..Len(u) : u[j] = s[h[j]]
  BY <1>2, <1>3, <1>4, <1>6 DEF RewritingEnumerates
<1>8. ASSUME NEW j \in 1..Len(u), NEW k \in 1..Len(u), j < k PROVE h[j] < h[k]
  <2>1. j \in 1..Len(t)
    BY <1>1, <1>2, <1>8
  <2>2. h[j] \in 1..n
    BY <1>3, <2>1
  <2>3. CASE k \in 1..Len(t)
    BY <1>3, <1>8, <2>1, <2>3 DEF RewritingEnumerates
  <2>4. CASE k = Len(t) + 1
    BY <1>4, <2>2, <2>4
  <2> QED BY <1>6, <2>3, <2>4
<1>9. ASSUME NEW i \in K \cap (1..(n + 1)) PROVE \E j \in 1..Len(u) : h[j] = i
  <2>1. CASE i = n + 1
    BY <1>1, <1>2, <1>4, <2>1
  <2>2. CASE i \in 1..n
    <3>1. PICK j \in 1..Len(t) : g[j] = i
      BY <2>2 DEF RewritingEnumerates
    <3> QED BY <1>1, <1>2, <1>3, <3>1
  <2> QED BY <2>1, <2>2
<1>10. RewritingEnumerates(h, s, K, n + 1, u)
  BY <1>5, <1>7, <1>8, <1>9 DEF RewritingEnumerates
<1> QED BY <1>2, <1>10 DEF u

\* What is selected: the kept elements, in their order.
LEMMA RewritingSelectedEnumerates ==
    ASSUME NEW S, NEW s \in Seq(S), NEW K
    PROVE  /\ Rewriting!Selected(s, K) \in Seq(S)
           /\ \E g : RewritingEnumerates(g, s, K, Len(s), Rewriting!Selected(s, K))
<1>1. Len(s) \in Nat
  OBVIOUS
<1>2. PICK f : /\ f = [n \in 0..Len(s) |-> RewritingUptoBody(f, s, K, n)]
               /\ Rewriting!Selected(s, K) = f[Len(s)]
  BY <1>1, RewritingSelectedDef
<1>3. \A n \in 0..Len(s) : f[n] = RewritingUptoBody(f, s, K, n)
  <2> DEFINE h == [n \in 0..Len(s) |-> RewritingUptoBody(f, s, K, n)]
  <2>1. \A n \in 0..Len(s) : h[n] = RewritingUptoBody(f, s, K, n)
    OBVIOUS
  <2>2. h = f
    BY <1>2, Zenon
  <2> QED BY <2>1, <2>2, Zenon
<1> DEFINE Good(n) == f[n] \in Seq(S) /\ \E g : RewritingEnumerates(g, s, K, n, f[n])
           N == {n \in Nat : n <= Len(s) => Good(n)}
<1>4. 0 \in N
  <2>1. f[0] = <<>>
    BY <1>1, <1>3 DEF RewritingUptoBody
  <2>2. RewritingEnumerates(<<>>, s, K, 0, <<>>)
    BY DEF RewritingEnumerates
  <2>3. Good(0)
    BY <2>1, <2>2, EmptySeq
  <2> QED BY <2>3, Zenon
<1>5. ASSUME NEW n \in N PROVE n + 1 \in N
  <2>1. SUFFICES ASSUME n + 1 <= Len(s) PROVE Good(n + 1)
    OBVIOUS
  <2>2. n \in 0..Len(s) /\ n + 1 \in 0..Len(s) /\ n + 1 \in 1..Len(s) /\ (n + 1) - 1 = n
    BY <1>1, <2>1
  <2>3. Good(n)
    BY <2>2
  <2>4. PICK g : RewritingEnumerates(g, s, K, n, f[n])
    BY <2>3
  <2>5. CASE n + 1 \in K
    <3>1. f[n + 1] = Append(f[n], s[n + 1])
      <4>1. n + 1 # 0
        OBVIOUS
      <4> QED BY <1>3, <2>2, <2>5, <4>1, Zenon DEF RewritingUptoBody
    <3> QED BY <2>2, <2>3, <2>4, <2>5, <3>1, RewritingEnumeratesMore
  <2>6. CASE n + 1 \notin K
    <3>1. f[n + 1] = f[n]
      BY <1>3, <2>2, <2>6 DEF RewritingUptoBody
    <3>2. K \cap (1..(n + 1)) = K \cap (1..n)
      BY <2>6
    <3>3. RewritingEnumerates(g, s, K, n + 1, f[n])
      BY <2>4, <3>2 DEF RewritingEnumerates
    <3> QED BY <2>3, <3>1, <3>3
  <2> QED BY <2>5, <2>6
<1>6. N = Nat
  <2>1. N \in SUBSET Nat
    OBVIOUS
  <2> HIDE DEF N
  <2> QED BY <1>4, <1>5, <2>1, RewritingInduction
<1>7. Good(Len(s))
  BY <1>1, <1>6
<1> QED BY <1>2, <1>7

\* The rules that fire.
RewritingHits(list, p, ctx) == {i \in DOMAIN list : Rewriting!Fires(list[i], p, ctx)}
RewritingKind(rule) == IF rule.redirect THEN "redirect" ELSE "rewritten"

\* The first rule that fires decides.
LEMMA RewritingFirstDecides ==
    ASSUME NEW list \in Seq(Rewriting!Rule), NEW p, NEW ctx
    PROVE  /\ RewritingHits(list, p, ctx) = {}
                 => Rewriting!Applied(list, p, ctx) = Rewriting!Unchanged
           /\ \A m \in RewritingHits(list, p, ctx) :
                (\A i \in RewritingHits(list, p, ctx) : m <= i)
                => Rewriting!Applied(list, p, ctx) = [kind |-> RewritingKind(list[m]), rule |-> m]
           /\ RewritingHits(list, p, ctx) # {} =>
                \E m \in RewritingHits(list, p, ctx) : \A i \in RewritingHits(list, p, ctx) : m <= i
<1> DEFINE hits == RewritingHits(list, p, ctx)
<1>1. hits \in SUBSET Nat
  BY DEF RewritingHits
<1>2. ASSUME NEW m \in hits, \A i \in hits : m <= i
      PROVE  Rewriting!Min(hits) = m
  <2>1. \A x \in hits : (\A y \in hits : x <= y) => x = m
    <3> HIDE DEF hits
    <3> QED BY <1>1, <1>2
  <2> HIDE DEF hits
  <2>2. \E x \in hits : \A y \in hits : x <= y
    BY <1>2
  <2> QED BY <2>1, <2>2 DEF Rewriting!Min
<1>3. Rewriting!Applied(list, p, ctx) =
        IF hits = {} THEN Rewriting!Unchanged
        ELSE [kind |-> RewritingKind(list[Rewriting!Min(hits)]), rule |-> Rewriting!Min(hits)]
  BY DEF Rewriting!Applied, RewritingHits, RewritingKind
<1>4. hits # {} => \E m \in hits : \A i \in hits : m <= i
  <2> HIDE DEF hits
  <2> QED BY <1>1, RewritingLeast
<1> QED BY <1>2, <1>3, <1>4

\* What was answered is what the rules say of the request.
RewritingDecidedInv ==
    /\ path = None => outcome = Rewriting!Unchanged
    /\ path # None => outcome = Rewriting!Applied(rules, path, context)

LEMMA RewritingRewriteInvInit ==
    ASSUME Rewriting!Parameters
    PROVE  Rewriting!Init => Rewriting!TypeOK /\ RewritingDecidedInv
<1> SUFFICES ASSUME Rewriting!Init PROVE Rewriting!TypeOK /\ RewritingDecidedInv
  OBVIOUS
<1>1. rules \in Seq(Rewriting!Rule) /\ Len(rules) = 0
       /\ context \in [Rewriting!Known -> Value \cup {None}]
  BY DEF Rewriting!Init, Rewriting!Nobody
<1>2. Len(rules) <= MaxRules /\ outcome.rule \in 0..Len(rules)
      /\ outcome.kind \in {"unchanged", "rewritten", "redirect"}
  BY <1>1 DEF Rewriting!Init, Rewriting!Unchanged, Rewriting!Parameters
<1> QED BY <1>1, <1>2 DEF Rewriting!Init, Rewriting!TypeOK, RewritingDecidedInv

LEMMA RewritingRewriteInvStep ==
    ASSUME Rewriting!Parameters
    PROVE  Rewriting!TypeOK /\ RewritingDecidedInv /\ [Rewriting!Next]_(Rewriting!vars)
              => Rewriting!TypeOK' /\ RewritingDecidedInv'
<1> SUFFICES ASSUME Rewriting!TypeOK, RewritingDecidedInv,
                    [Rewriting!Next]_(Rewriting!vars)
             PROVE  Rewriting!TypeOK' /\ RewritingDecidedInv'
  OBVIOUS
<1>1. CASE Rewriting!AddRule
  <2>1. PICK r \in Rewriting!Rule : rules' = Append(rules, r)
    BY <1>1 DEF Rewriting!AddRule
  <2>2. rules' \in Seq(Rewriting!Rule) /\ Len(rules') = Len(rules) + 1
    BY <2>1 DEF Rewriting!TypeOK
  <2>3. Len(rules') <= MaxRules /\ 0 \in 0..Len(rules')
    BY <1>1, <2>2 DEF Rewriting!AddRule, Rewriting!TypeOK, Rewriting!Parameters
  <2>4. context' \in [Rewriting!Known -> Value \cup {None}]
    BY <1>1 DEF Rewriting!AddRule, Rewriting!Nobody
  <2>5. outcome'.rule = 0 /\ outcome'.kind = "unchanged"
    BY <1>1 DEF Rewriting!AddRule, Rewriting!Unchanged
  <2> QED BY <1>1, <2>2, <2>3, <2>4, <2>5 DEF Rewriting!AddRule, Rewriting!TypeOK,
             RewritingDecidedInv
<1>2. CASE Rewriting!Ask
  <2>1. /\ rules' = rules /\ path' \in Request /\ path' # None
        /\ context' \in [Rewriting!Known -> Value \cup {None}]
        /\ outcome' = Rewriting!Applied(rules, path', context')
    BY <1>2 DEF Rewriting!Ask, Rewriting!Parameters
  <2>2. outcome'.kind \in {"unchanged", "rewritten", "redirect"}
         /\ outcome'.rule \in 0..Len(rules)
    <3> DEFINE hits == RewritingHits(rules, path', context')
    <3>1. CASE hits = {}
      <4>1. outcome' = Rewriting!Unchanged
        BY <2>1, <3>1, RewritingFirstDecides DEF Rewriting!TypeOK
      <4> QED BY <4>1 DEF Rewriting!Unchanged, Rewriting!TypeOK
    <3>2. CASE hits # {}
      <4>1. PICK m \in hits : outcome' = [kind |-> RewritingKind(rules[m]), rule |-> m]
        BY <2>1, <3>2, RewritingFirstDecides DEF Rewriting!TypeOK
      <4>2. m \in 0..Len(rules)
        BY DEF RewritingHits, Rewriting!TypeOK
      <4> QED BY <4>1, <4>2 DEF RewritingKind
    <3> QED BY <3>1, <3>2
  <2> QED BY <2>1, <2>2 DEF Rewriting!TypeOK, RewritingDecidedInv
<1>3. CASE UNCHANGED Rewriting!vars
  BY <1>3 DEF Rewriting!vars, Rewriting!TypeOK, RewritingDecidedInv
<1> QED BY <1>1, <1>2, <1>3 DEF Rewriting!Next

LEMMA RewritingRewriteMeans ==
    ASSUME Rewriting!Parameters, Rewriting!TypeOK, RewritingDecidedInv
    PROVE  Rewriting!FailsClosed /\ Rewriting!OthersUnharmed
<1>0. rules \in Seq(Rewriting!Rule) /\ Len(rules) \in Nat
  BY DEF Rewriting!TypeOK
<1>1. Rewriting!FailsClosed
  <2> SUFFICES ASSUME outcome.rule # 0, NEW c \in rules[outcome.rule].conditions
               PROVE  c.variable \in Rewriting!Known /\ context[c.variable] # None
                       /\ c.pattern # None
    BY DEF Rewriting!FailsClosed
  <2>1. path # None /\ outcome = Rewriting!Applied(rules, path, context)
         /\ outcome # Rewriting!Unchanged
    BY DEF RewritingDecidedInv, Rewriting!Unchanged
  <2>2. PICK m \in RewritingHits(rules, path, context) : outcome = [kind |-> RewritingKind(rules[m]), rule |-> m]
    BY <1>0, <2>1, RewritingFirstDecides
  <2>3. Rewriting!ConditionsMatch(rules[outcome.rule].conditions, context)
    BY <2>2 DEF RewritingHits, Rewriting!Fires
  <2> QED BY <2>3 DEF Rewriting!ConditionsMatch, Rewriting!Resolved
<1>2. Rewriting!OthersUnharmed
  <2> DEFINE K == {i \in DOMAIN rules : rules[i].pattern # None}
             t == Rewriting!Selected(rules, K)
             all == RewritingHits(rules, path, context)
             left == RewritingHits(t, path, context)
  <2> SUFFICES ASSUME path # None
               PROVE  outcome.kind = Rewriting!Applied(t, path, context).kind
    BY DEF Rewriting!OthersUnharmed
  <2>1. outcome = Rewriting!Applied(rules, path, context)
    BY DEF RewritingDecidedInv
  <2>2. t \in Seq(Rewriting!Rule) /\ \E g : RewritingEnumerates(g, rules, K, Len(rules), t)
    BY <1>0, RewritingSelectedEnumerates
  <2> HIDE DEF t
  <2>3. PICK g : RewritingEnumerates(g, rules, K, Len(rules), t)
    BY <2>2
  <2>4. DOMAIN rules = 1..Len(rules) /\ DOMAIN t = 1..Len(t) /\ Len(t) \in Nat
    BY <1>0, <2>2
  <2>5. all \subseteq K \cap (1..Len(rules))
    BY <2>4 DEF RewritingHits, Rewriting!Fires
  <2>6. \A j \in 1..Len(t) : g[j] \in 1..Len(rules) /\ t[j] = rules[g[j]]
    BY <2>3 DEF RewritingEnumerates
  <2>7. \A j \in left : j \in 1..Len(t) /\ g[j] \in all
    BY <2>4, <2>6 DEF RewritingHits
  <2>8. \A i \in all : \E j \in left : g[j] = i
    BY <2>3, <2>4, <2>5, <2>6 DEF RewritingHits, RewritingEnumerates
  <2>9. CASE all = {}
    <3>1. left = {}
      BY <2>7, <2>9
    <3> QED BY <1>0, <2>1, <2>2, <2>9, <3>1, RewritingFirstDecides
  <2>10. CASE all # {}
    <3>1. PICK m \in all : \A i \in all : m <= i
      BY <1>0, <2>10, RewritingFirstDecides
    <3>2. outcome = [kind |-> RewritingKind(rules[m]), rule |-> m]
      BY <1>0, <2>1, <3>1, RewritingFirstDecides
    <3>3. PICK j \in left : g[j] = m
      BY <2>8
    <3>4. ASSUME NEW k \in left PROVE j <= k
      <4>1. j \in 1..Len(t) /\ k \in 1..Len(t) /\ g[k] \in all
        BY <2>7
      <4>2. m <= g[k] /\ m \in Nat /\ g[k] \in Nat
        BY <2>4, <3>1, <4>1 DEF RewritingHits
      <4>3. ~(k < j)
        <5>1. k < j => g[k] < g[j]
          BY <2>3, <4>1 DEF RewritingEnumerates
        <5> QED BY <3>3, <4>2, <5>1
      <4> QED BY <2>4, <4>1, <4>3
    <3>5. Rewriting!Applied(t, path, context) = [kind |-> RewritingKind(t[j]), rule |-> j]
      BY <2>2, <3>4, RewritingFirstDecides
    <3>6. t[j] = rules[m]
      BY <2>6, <2>7, <3>3
    <3> QED BY <3>2, <3>5, <3>6
  <2> QED BY <2>9, <2>10
<1> QED BY <1>1, <1>2

\* The rules, the request and the answer keep their types.
LEMMA RewritingTypeCorrect ==
    ASSUME Rewriting!Parameters
    PROVE  Rewriting!Init /\ [][Rewriting!Next]_(Rewriting!vars) => []Rewriting!TypeOK
BY RewritingRewriteInvInit, RewritingRewriteInvStep, PTL

\* A rule with a condition that cannot be evaluated does not decide, and one that does
\* not compile is as good as absent.
LEMMA RewritingRulesHold ==
    ASSUME Rewriting!Parameters
    PROVE  Rewriting!Init /\ [][Rewriting!Next]_(Rewriting!vars)
              => [](Rewriting!FailsClosed /\ Rewriting!OthersUnharmed)
BY RewritingRewriteInvInit, RewritingRewriteInvStep, RewritingRewriteMeans, PTL

-----------------------------------------------------------------------------
(* ConfigImport: for any texts, conditions and number of lines.            *)

ImportingReadRule == [conditions : SUBSET Cond, stood : SUBSET Cond]
ImportingAccumulator ==
    [one : [Importing!Field -> Text \cup {None}], rules : Seq(ImportingReadRule),
     auth : {None} \cup [realm : Text \cup {None}, user_file : Text],
     digest : BOOLEAN, allow : SUBSET Text, deny : SUBSET Text]

ImportingImportTypes ==
    /\ dialect \in {"apache", "nginx"} /\ acc \in ImportingAccumulator
    /\ pending \subseteq Cond /\ skipping \in BOOLEAN /\ named \in Text \cup {None}
    /\ lines \in 0..MaxLines /\ stood \subseteq Cond /\ oneLine \in BOOLEAN

\* A rule that comes now takes the conditions that the text sets for it: of Apache those
\* that are pending, of Nginx those of the block that is skipped.
ImportingPendingInv ==
    ~oneLine =>
      /\ \A i \in DOMAIN acc.rules : acc.rules[i].conditions = acc.rules[i].stood
      /\ dialect = "apache" => pending = stood
      /\ dialect = "nginx" /\ pending # {} => skipping /\ pending = stood

ImportingImportInv == ImportingImportTypes /\ ImportingPendingInv
    /\ Importing!GuardedAsWritten

LEMMA ImportingImportInvInit ==
    ASSUME Importing!Parameters
    PROVE  Importing!Init => ImportingImportInv
<1> SUFFICES ASSUME Importing!Init PROVE ImportingImportInv
  OBVIOUS
<1>1. acc \in ImportingAccumulator /\ DOMAIN acc.rules = {}
  <2>1. <<>> \in Seq(ImportingReadRule)
         /\ [f \in Importing!Field |-> None] \in [Importing!Field -> Text \cup {None}]
    OBVIOUS
  <2> QED BY <2>1 DEF Importing!Init, ImportingAccumulator
<1>2. 0 \in 0..MaxLines
  BY DEF Importing!Parameters
<1> QED BY <1>1, <1>2 DEF Importing!Init, ImportingImportInv, ImportingImportTypes,
           ImportingPendingInv, Importing!GuardedAsWritten

\* A line changes fields other than the rules.
LEMMA ImportingOtherFields ==
    ASSUME acc \in ImportingAccumulator
    PROVE  /\ \A f \in Importing!Field, x \in Text : [acc EXCEPT !.one[f] = Importing!Kept(f, x)] \in ImportingAccumulator
           /\ \A x \in Text : [acc EXCEPT !.allow = @ \cup {x}] \in ImportingAccumulator
           /\ \A x \in Text : [acc EXCEPT !.deny = @ \cup {x}] \in ImportingAccumulator
           /\ \A b \in BOOLEAN : [acc EXCEPT !.digest = b] \in ImportingAccumulator
           /\ \A x \in Text, n \in Text \cup {None} :
                 [acc EXCEPT !.auth = [realm |-> n, user_file |-> x]] \in ImportingAccumulator
<1>1. \A f \in Importing!Field, x \in Text : Importing!Kept(f, x) \in Text \cup {None}
  BY DEF ImportingAccumulator, Importing!Kept
<1>2. ASSUME NEW f \in Importing!Field, NEW x \in Text
      PROVE  [acc EXCEPT !.one[f] = Importing!Kept(f, x)] \in ImportingAccumulator
  <2>1. PICK y \in Text \cup {None} : y = Importing!Kept(f, x)
    BY <1>1
  <2>2. [acc EXCEPT !.one[f] = y] \in ImportingAccumulator
    BY DEF ImportingAccumulator
  <2> QED BY <2>1, <2>2
<1>3. ASSUME NEW x \in Text
      PROVE  /\ [acc EXCEPT !.allow = @ \cup {x}] \in ImportingAccumulator
             /\ [acc EXCEPT !.deny = @ \cup {x}] \in ImportingAccumulator
  BY DEF ImportingAccumulator
<1>4. \A b \in BOOLEAN : [acc EXCEPT !.digest = b] \in ImportingAccumulator
  BY DEF ImportingAccumulator
<1>5. \A x \in Text, n \in Text \cup {None} :
         [acc EXCEPT !.auth = [realm |-> n, user_file |-> x]] \in ImportingAccumulator
  BY DEF ImportingAccumulator
<1> QED BY <1>2, <1>3, <1>4, <1>5

\* A rule is added with the conditions that it is given.
LEMMA ImportingRuleAdded ==
    ASSUME acc \in ImportingAccumulator, NEW cs \in SUBSET Cond, stood \subseteq Cond,
           Importing!WithRule(cs)
    PROVE  /\ acc' \in ImportingAccumulator
           /\ \A i \in DOMAIN acc'.rules :
                \/ i \in DOMAIN acc.rules /\ acc'.rules[i] = acc.rules[i]
                \/ acc'.rules[i] = [conditions |-> cs, stood |-> stood]
<1> DEFINE r == [conditions |-> cs, stood |-> stood]
           more == Append(acc.rules, r)
<1>1. acc.rules \in Seq(ImportingReadRule) /\ r \in ImportingReadRule
  BY DEF ImportingAccumulator, ImportingReadRule
<1> HIDE DEF r
<1>2. /\ more \in Seq(ImportingReadRule) /\ Len(acc.rules) \in Nat
      /\ DOMAIN more = 1..(Len(acc.rules) + 1) /\ DOMAIN acc.rules = 1..Len(acc.rules)
      /\ \A i \in 1..Len(acc.rules) : more[i] = acc.rules[i]
      /\ more[Len(acc.rules) + 1] = r
  BY <1>1
<1>3. acc' = [acc EXCEPT !.rules = more]
  BY DEF Importing!WithRule, r
<1> HIDE DEF more
<1>4. acc' \in ImportingAccumulator /\ acc'.rules = more
  BY <1>2, <1>3 DEF ImportingAccumulator
<1>5. \A i \in DOMAIN more : i \in DOMAIN acc.rules \/ i = Len(acc.rules) + 1
  BY <1>2
<1> QED BY <1>2, <1>4, <1>5 DEF r

\* The lines that leave the rules and their conditions as they are.
LEMMA ImportingPlainLine ==
    ASSUME Importing!Parameters, ImportingImportInv, Importing!Reads(dialect),
           acc' \in ImportingAccumulator, acc'.rules = acc.rules, named' \in Text \cup {None},
           UNCHANGED <<dialect, skipping, result, oneLine, pending, stood>>
    PROVE  ImportingImportInv'
<1>1. lines' \in 0..MaxLines
  BY DEF Importing!Reads, ImportingImportInv, ImportingImportTypes, Importing!Parameters
<1> QED BY <1>1 DEF ImportingImportInv, ImportingImportTypes, ImportingPendingInv,
           Importing!GuardedAsWritten, Importing!Reads

LEMMA ImportingDirectiveStep ==
    ASSUME Importing!Parameters, ImportingImportInv, Importing!Directive
    PROVE  ImportingImportInv'
<1>1. acc \in ImportingAccumulator /\ named \in Text \cup {None}
       /\ dialect \in {"apache", "nginx"}
  BY DEF ImportingImportInv, ImportingImportTypes
<1>2. /\ Importing!Reads(dialect)
      /\ UNCHANGED <<dialect, skipping, result, oneLine, pending, stood>>
      /\ named' = named
  BY DEF Importing!Directive, Importing!Apache, Importing!Nginx, Importing!Outside,
     Importing!Reads
<1>3. acc' \in ImportingAccumulator
  BY <1>1, ImportingOtherFields DEF Importing!Directive
<1>4. acc'.rules = acc.rules
  BY <1>1 DEF Importing!Directive, ImportingAccumulator
<1> QED BY <1>1, <1>2, <1>3, <1>4, ImportingPlainLine

LEMMA ImportingAuthenticationStep ==
    ASSUME Importing!Parameters, ImportingImportInv, Importing!Authentication
    PROVE  ImportingImportInv'
<1>1. acc \in ImportingAccumulator /\ named \in Text \cup {None}
       /\ dialect \in {"apache", "nginx"}
  BY DEF ImportingImportInv, ImportingImportTypes
<1>2. Importing!Reads(dialect)
       /\ UNCHANGED <<dialect, skipping, result, oneLine, pending, stood>>
  BY DEF Importing!Authentication, Importing!Apache, Importing!Nginx, Importing!Outside,
     Importing!Reads
<1>3. acc' \in ImportingAccumulator /\ named' \in Text \cup {None}
  BY <1>1, ImportingOtherFields DEF Importing!Authentication
<1>4. acc'.rules = acc.rules
  BY <1>1 DEF Importing!Authentication, ImportingAccumulator
<1> QED BY <1>2, <1>3, <1>4, ImportingPlainLine

LEMMA ImportingRewriteCondStep ==
    ASSUME Importing!Parameters, ImportingImportInv, Importing!RewriteCond
    PROVE  ImportingImportInv'
<1>1. PICK c \in Cond : pending' = pending \cup {c} /\ stood' = stood \cup {c}
  BY DEF Importing!RewriteCond
<1>2. lines' \in 0..MaxLines /\ dialect = "apache" /\ result' = None
  BY DEF Importing!RewriteCond, Importing!Apache, Importing!Reads, ImportingImportInv,
     ImportingImportTypes, Importing!Parameters
<1>3. UNCHANGED <<dialect, skipping, oneLine, acc, named>>
  BY DEF Importing!RewriteCond, Importing!Apache
<1> QED BY <1>1, <1>2, <1>3 DEF ImportingImportInv, ImportingImportTypes,
           ImportingPendingInv, Importing!GuardedAsWritten

LEMMA ImportingRewriteRuleStep ==
    ASSUME Importing!Parameters, ImportingImportInv, Importing!RewriteRule
    PROVE  ImportingImportInv'
<1>1. lines' \in 0..MaxLines /\ dialect = "apache" /\ result' = None
  BY DEF Importing!RewriteRule, Importing!Apache, Importing!Reads, ImportingImportInv,
     ImportingImportTypes, Importing!Parameters
<1>2. UNCHANGED <<dialect, skipping, oneLine, named>> /\ pending' = {} /\ stood' = {}
  BY DEF Importing!RewriteRule, Importing!Apache
<1>3. /\ acc' \in ImportingAccumulator
      /\ ~oneLine => \A i \in DOMAIN acc'.rules :
                       acc'.rules[i].conditions = acc'.rules[i].stood
  <2>1. CASE Importing!WithRule(pending)
    <3>1. /\ acc \in ImportingAccumulator /\ pending \in SUBSET Cond
          /\ stood \subseteq Cond
          /\ ~oneLine => pending = stood
      BY <1>1 DEF ImportingImportInv, ImportingImportTypes, ImportingPendingInv
    <3>2. /\ acc' \in ImportingAccumulator
          /\ \A i \in DOMAIN acc'.rules :
               \/ i \in DOMAIN acc.rules /\ acc'.rules[i] = acc.rules[i]
               \/ acc'.rules[i] = [conditions |-> pending, stood |-> stood]
      BY <2>1, <3>1, ImportingRuleAdded
    <3> QED BY <3>1, <3>2 DEF ImportingImportInv, ImportingPendingInv
  <2>2. CASE UNCHANGED acc
    BY <2>2 DEF ImportingImportInv, ImportingImportTypes, ImportingPendingInv
  <2> QED BY <2>1, <2>2 DEF Importing!RewriteRule
<1> QED BY <1>1, <1>2, <1>3 DEF ImportingImportInv, ImportingImportTypes,
           ImportingPendingInv, Importing!GuardedAsWritten

LEMMA ImportingIfStep ==
    ASSUME Importing!Parameters, ImportingImportInv, Importing!If \/ Importing!IfOnOneLine
    PROVE  ImportingImportInv'
<1>1. /\ lines' \in 0..MaxLines /\ dialect = "nginx" /\ result' = None
      /\ UNCHANGED <<dialect, acc, named>> /\ ~skipping
  BY DEF Importing!If, Importing!IfOnOneLine, Importing!Nginx, Importing!Reads,
     ImportingImportInv, ImportingImportTypes, Importing!Parameters
<1>2. /\ pending' \subseteq Cond /\ stood' \subseteq Cond /\ skipping' \in BOOLEAN
      /\ oneLine' \in BOOLEAN
  BY DEF Importing!If, Importing!IfOnOneLine, ImportingImportInv, ImportingImportTypes
<1>3. ~oneLine' => ~oneLine /\ (pending' # {} => skipping' /\ pending' = stood')
  BY <1>1 DEF Importing!If, Importing!IfOnOneLine, ImportingImportInv, ImportingPendingInv
<1> QED BY <1>1, <1>2, <1>3 DEF ImportingImportInv, ImportingImportTypes,
           ImportingPendingInv, Importing!GuardedAsWritten

LEMMA ImportingReturnStep ==
    ASSUME Importing!Parameters, ImportingImportInv, Importing!Return
    PROVE  ImportingImportInv'
<1>1. /\ lines' \in 0..MaxLines /\ dialect = "nginx" /\ result' = None
      /\ UNCHANGED <<dialect, named, skipping, stood, oneLine>>
  BY DEF Importing!Return, Importing!Nginx, Importing!Reads, ImportingImportInv,
     ImportingImportTypes, Importing!Parameters
<1>2. CASE Importing!WithRule(pending) /\ pending' = {} /\ skipping /\ pending # {}
  <2>1. /\ acc' \in ImportingAccumulator
        /\ ~oneLine => \A i \in DOMAIN acc'.rules :
                         acc'.rules[i].conditions = acc'.rules[i].stood
    <3>1. /\ acc \in ImportingAccumulator /\ pending \in SUBSET Cond
          /\ stood \subseteq Cond
          /\ ~oneLine => pending = stood
      BY <1>1, <1>2 DEF ImportingImportInv, ImportingImportTypes, ImportingPendingInv
    <3>2. /\ acc' \in ImportingAccumulator
          /\ \A i \in DOMAIN acc'.rules :
               \/ i \in DOMAIN acc.rules /\ acc'.rules[i] = acc.rules[i]
               \/ acc'.rules[i] = [conditions |-> pending, stood |-> stood]
      BY <1>2, <3>1, ImportingRuleAdded
    <3> QED BY <3>1, <3>2 DEF ImportingImportInv, ImportingPendingInv
  <2> QED BY <1>1, <1>2, <2>1 DEF ImportingImportInv, ImportingImportTypes,
             ImportingPendingInv, Importing!GuardedAsWritten
<1>3. CASE UNCHANGED <<acc, pending>>
  BY <1>1, <1>3 DEF ImportingImportInv, ImportingImportTypes, ImportingPendingInv,
     Importing!GuardedAsWritten
<1> QED BY <1>2, <1>3 DEF Importing!Return

LEMMA ImportingBuildStep ==
    ASSUME Importing!Parameters, ImportingImportInv, Importing!Build
    PROVE  ImportingImportInv'
<1>1. UNCHANGED <<dialect, acc, pending, skipping, named, lines, stood, oneLine>>
      /\ result'.rules \in {acc.rules, <<>>}
  BY DEF Importing!Build
<1>2. DOMAIN <<>> = {}
  OBVIOUS
<1> QED BY <1>1, <1>2 DEF ImportingImportInv, ImportingImportTypes, ImportingPendingInv,
           Importing!GuardedAsWritten

LEMMA ImportingImportInvStep ==
    ASSUME Importing!Parameters
    PROVE  ImportingImportInv /\ [Importing!Next]_(Importing!vars) => ImportingImportInv'
<1> SUFFICES ASSUME ImportingImportInv, [Importing!Next]_(Importing!vars)
             PROVE  ImportingImportInv'
  OBVIOUS
<1>1. CASE Importing!Skipped \/ Importing!Closing
  <2>1. /\ lines' \in 0..MaxLines /\ dialect = "nginx" /\ result' = None
        /\ UNCHANGED <<dialect, acc, named, oneLine>>
    BY <1>1 DEF Importing!Skipped, Importing!Closing, Importing!Nginx, Importing!Reads,
       ImportingImportInv, ImportingImportTypes, Importing!Parameters
  <2>2. \/ UNCHANGED <<pending, skipping, stood>>
        \/ skipping' = FALSE /\ pending' = {} /\ stood' = {}
    BY <1>1 DEF Importing!Skipped, Importing!Closing
  <2> QED BY <2>1, <2>2 DEF ImportingImportInv, ImportingImportTypes, ImportingPendingInv,
             Importing!GuardedAsWritten
<1>2. CASE UNCHANGED Importing!vars
  BY <1>2 DEF Importing!vars, ImportingImportInv, ImportingImportTypes,
     ImportingPendingInv, Importing!GuardedAsWritten
<1> QED BY <1>1, <1>2, ImportingDirectiveStep, ImportingAuthenticationStep,
           ImportingRewriteCondStep, ImportingRewriteRuleStep,
           ImportingIfStep, ImportingReturnStep, ImportingBuildStep DEF Importing!Next

LEMMA ImportingImportTypesSuffice == ImportingImportInv => Importing!TypeOK
<1> SUFFICES ASSUME ImportingImportInv PROVE Importing!TypeOK
  OBVIOUS
<1>1. acc.rules \in Seq(ImportingReadRule) /\ acc \in ImportingAccumulator
  BY DEF ImportingImportInv, ImportingImportTypes, ImportingAccumulator
<1>2. \A i \in DOMAIN acc.rules : acc.rules[i] \in ImportingReadRule
  BY <1>1
<1> QED BY <1>1, <1>2 DEF ImportingImportInv, ImportingImportTypes, ImportingAccumulator,
           ImportingReadRule, Importing!TypeOK

\* What is read of a file keeps its types.
LEMMA ImportingTypeCorrect ==
    ASSUME Importing!Parameters
    PROVE  Importing!Init /\ [][Importing!Next]_(Importing!vars) => []Importing!TypeOK
BY ImportingImportInvInit, ImportingImportInvStep, ImportingImportTypesSuffice, PTL

\* Every rule comes with the conditions that the text sets for it.
LEMMA ImportingGuarded ==
    ASSUME Importing!Parameters
    PROVE  Importing!Init /\ [][Importing!Next]_(Importing!vars)
           => []Importing!GuardedAsWritten
<1>1. ImportingImportInv => Importing!GuardedAsWritten
  BY DEF ImportingImportInv
<1> QED BY <1>1, ImportingImportInvInit, ImportingImportInvStep, PTL

-----------------------------------------------------------------------------
(* The composition: a step of it is a step of one part and none of the others. *)

LEMMA NoticingMoves == Spec => Noticing!Spec
<1>1. Init => Noticing!Init
  BY DEF Init
<1>2. [Next]_vars => [Noticing!Next]_(Noticing!vars)
  <2>1. UNCHANGED noticeVars => UNCHANGED Noticing!vars
    BY DEF noticeVars, Noticing!vars
  <2>2. Next => Noticing!Next \/ UNCHANGED noticeVars
    BY DEF Next
  <2>3. UNCHANGED vars => UNCHANGED noticeVars
    BY DEF vars
  <2> QED BY <2>1, <2>2, <2>3
<1> QED BY <1>1, <1>2, PTL DEF Spec, Noticing!Spec

LEMMA ExchangingMoves == Spec => Exchanging!Spec
<1>1. Init => Exchanging!Init
  BY DEF Init
<1>2. [Next]_vars => [Exchanging!Next]_(Exchanging!vars)
  <2>1. UNCHANGED quicVars => UNCHANGED Exchanging!vars
    BY DEF quicVars, Exchanging!vars
  <2>2. Next => Exchanging!Next \/ UNCHANGED quicVars
    BY DEF Next
  <2>3. UNCHANGED vars => UNCHANGED quicVars
    BY DEF vars
  <2> QED BY <2>1, <2>2, <2>3
<1> QED BY <1>1, <1>2, PTL DEF Spec, Exchanging!Spec

LEMMA ReadingMoves == Spec => Reading!Spec
<1>1. Init => Reading!Init
  BY DEF Init
<1>2. [Next]_vars => [Reading!Next]_(Reading!vars)
  <2>1. UNCHANGED readerVars => UNCHANGED Reading!vars
    BY DEF readerVars, Reading!vars
  <2>2. Next => Reading!Next \/ UNCHANGED readerVars
    BY DEF Next
  <2>3. UNCHANGED vars => UNCHANGED readerVars
    BY DEF vars
  <2> QED BY <2>1, <2>2, <2>3
<1> QED BY <1>1, <1>2, PTL DEF Spec, Reading!Spec

LEMMA WritingMoves == Spec => Writing!Spec
<1>1. Init => Writing!Init
  BY DEF Init
<1>2. [Next]_vars => [Writing!Next]_(Writing!vars)
  <2>1. UNCHANGED dualVars => UNCHANGED Writing!vars
    BY DEF dualVars, Writing!vars
  <2>2. Next => Writing!Next \/ UNCHANGED dualVars
    BY DEF Next
  <2>3. UNCHANGED vars => UNCHANGED dualVars
    BY DEF vars
  <2> QED BY <2>1, <2>2, <2>3
<1> QED BY <1>1, <1>2, PTL DEF Spec, Writing!Spec

LEMMA CopyingMoves == Spec => Copying!Init /\ [][Copying!Next]_(Copying!vars)
<1>1. Init => Copying!Init
  BY DEF Init
<1>2. [Next]_vars => [Copying!Next]_(Copying!vars)
  <2>1. UNCHANGED copyVars => UNCHANGED Copying!vars
    BY DEF copyVars, Copying!vars
  <2>2. Next => Copying!Next \/ UNCHANGED copyVars
    BY DEF Next
  <2>3. UNCHANGED vars => UNCHANGED copyVars
    BY DEF vars
  <2> QED BY <2>1, <2>2, <2>3
<1> QED BY <1>1, <1>2, PTL DEF Spec

LEMMA AuditingMoves == Spec => Auditing!Init /\ [][Auditing!Next]_(Auditing!vars)
<1>1. Init => Auditing!Init
  BY DEF Init
<1>2. [Next]_vars => [Auditing!Next]_(Auditing!vars)
  <2>1. UNCHANGED auditVars => UNCHANGED Auditing!vars
    BY DEF auditVars, Auditing!vars
  <2>2. Next => Auditing!Next \/ UNCHANGED auditVars
    BY DEF Next
  <2>3. UNCHANGED vars => UNCHANGED auditVars
    BY DEF vars
  <2> QED BY <2>1, <2>2, <2>3
<1> QED BY <1>1, <1>2, PTL DEF Spec

LEMMA RewritingMoves == Spec => Rewriting!Init /\ [][Rewriting!Next]_(Rewriting!vars)
<1>1. Init => Rewriting!Init
  BY DEF Init
<1>2. [Next]_vars => [Rewriting!Next]_(Rewriting!vars)
  <2>1. UNCHANGED rewriteVars => UNCHANGED Rewriting!vars
    BY DEF rewriteVars, Rewriting!vars
  <2>2. Next => Rewriting!Next \/ UNCHANGED rewriteVars
    BY DEF Next
  <2>3. UNCHANGED vars => UNCHANGED rewriteVars
    BY DEF vars
  <2> QED BY <2>1, <2>2, <2>3
<1> QED BY <1>1, <1>2, PTL DEF Spec

LEMMA ImportingMoves == Spec => Importing!Init /\ [][Importing!Next]_(Importing!vars)
<1>1. Init => Importing!Init
  BY DEF Init
<1>2. [Next]_vars => [Importing!Next]_(Importing!vars)
  <2>1. UNCHANGED importVars => UNCHANGED Importing!vars
    BY DEF importVars, Importing!vars
  <2>2. Next => Importing!Next \/ UNCHANGED importVars
    BY DEF Next
  <2>3. UNCHANGED vars => UNCHANGED importVars
    BY DEF vars
  <2> QED BY <2>1, <2>2, <2>3
<1> QED BY <1>1, <1>2, PTL DEF Spec

\* Whatever the network loses, reorders, damages or breaks: a redundant notice is
\* handed out once and only if it was sent, an acknowledged request is taken, and
\* only the network makes one be taken twice.
THEOREM TakenAsSent == Spec => []TakenOnce
<1>1. Noticing!HandedOnce /\ Noticing!KnownWasSent /\ Exchanging!AckedIsTaken
      /\ Exchanging!DoubledOnlyIfBroken => TakenOnce
  BY DEF TakenOnce
<1> QED BY <1>1, Assumptions, NoticingMoves, NoticingEachKeyOnce,
           NoticingDamageIsHarmless,
           ExchangingMoves, ExchangingAcknowledgedIsTaken,
           ExchangingDoublesAreTheNetworks, PTL

\* A reader is told that it is refused only if a key that it was issued itself, in
\* this call, expired before it was used.
THEOREM RefusedOnItsOwn == Spec => []RefusedWithOwnKey
<1>1. Reading!RefusedWithOwnKey => RefusedWithOwnKey
  BY DEF RefusedWithOwnKey
<1> QED BY <1>1, Assumptions, ReadingMoves, ReadingRefusedOnItsOwn, PTL

\* The two stores differ in a name only while it is being written or after a write
\* of it that did not report success or met another, also when a request of such a
\* write is taken late; and aruaru-db never holds an address that PostgreSQL never had.
THEOREM NoSilentDivergence == Spec => []StoresAgreeOrTell
<1>1. Writing!DivergenceReported /\ Writing!AuthorityFirst => StoresAgreeOrTell
  BY DEF StoresAgreeOrTell
<1> QED BY <1>1, WritingMoves, WritingDivergenceIsReported, WritingAuthorityComesFirst, PTL

\* What a run reported as copied can be had back as it was, and every file that a
\* run was to copy is reported on, whatever fails and whenever it is killed.
THEOREM CopiesCanBeHad == Spec => []CopiesKept
<1>1. Copying!KeptForGood /\ Copying!EveryFileTold => CopiesKept
  BY DEF CopiesKept
<1> QED BY <1>1, Assumptions, CopyingMoves, CopyingCopiesStay, CopyingAllTold, PTL

\* A log that verifies holds a record for each append that returned Ok; one that does
\* not was cut by an error or a crash; a duplicate is a commit that was tried again.
THEOREM ScanTellsTheTruth == Spec => []ScanIsTrue
<1>1. Auditing!VerifiedIsComplete /\ Auditing!FailsOnlyAfterCut
      /\ Auditing!DuplicateMeansRetried => ScanIsTrue
  BY DEF ScanIsTrue
<1> QED BY <1>1, Assumptions, AuditingMoves, AuditingCompleteIfVerified, AuditingBadIfCut,
           AuditingTwiceIfRetried, PTL

\* A rule with a condition that cannot be evaluated never decides, one whose pattern does
\* not compile changes the answer to no request, and what was read of a configuration
\* has every rule under the conditions that its text sets.
THEOREM RulesStayAsWritten == Spec => []RulesAsWritten
<1>1. (Rewriting!FailsClosed /\ Rewriting!OthersUnharmed) /\ Importing!GuardedAsWritten
        => RulesAsWritten
  BY DEF RulesAsWritten
<1> QED BY <1>1, Assumptions, RewritingMoves, RewritingRulesHold, ImportingMoves,
           ImportingGuarded, PTL

\* Every part keeps its types, the ones proved in UpkeepProofs among them.
THEOREM TypesKept == Spec => []TypeOK
<1>1. Spec => []Watching!TypeOK /\ []Issuing!TypeOK
  BY Assumptions, WatchingMoves, WatchingTypeCorrect, IssuingMoves, IssuingTypeCorrect,
     PTL
<1>2. Spec => []Announcing!TypeOK /\ []Zoning!TypeOK /\ []Telling!TypeOK
  BY Assumptions, AnnouncingMoves, AnnouncingTypeCorrect, ZoningMoves, ZoningTypeCorrect,
     TellingMoves, TellingTypeCorrect, PTL
<1>3. Spec => []Updating!TypeOK /\ []Starting!TypeOK
  BY Assumptions, UpdatingMoves, UpdatingTypeCorrect, StartingMoves, StartingTypeCorrect,
     PTL
<1>4. Spec => []Filing!TypeOK
  BY Assumptions, FilingMoves, FilingWrittenStays, PTL
<1>5. Spec => []Copying!TypeOK /\ []Auditing!TypeOK
  BY Assumptions, CopyingMoves, CopyingTypeCorrect, AuditingMoves, AuditingTypeCorrect,
     PTL
<1>6. Spec => []Noticing!TypeOK /\ []Reading!TypeOK
  BY Assumptions, NoticingMoves, NoticingTypeCorrect, ReadingMoves, ReadingTypeCorrect,
     PTL
<1>7. Spec => []Exchanging!TypeOK /\ []Writing!TypeOK
  BY ExchangingMoves, ExchangingTypeCorrect, WritingMoves, WritingTypeCorrect, PTL
<1>8. Spec => []Rewriting!TypeOK /\ []Importing!TypeOK
  BY Assumptions, RewritingMoves, RewritingTypeCorrect, ImportingMoves,
     ImportingTypeCorrect, PTL
<1>9. /\ Watching!TypeOK /\ Issuing!TypeOK /\ Announcing!TypeOK /\ Zoning!TypeOK
      /\ Telling!TypeOK /\ Updating!TypeOK /\ Starting!TypeOK /\ Filing!TypeOK
      /\ Copying!TypeOK /\ Auditing!TypeOK /\ Noticing!TypeOK /\ Reading!TypeOK
      /\ Exchanging!TypeOK /\ Writing!TypeOK /\ Rewriting!TypeOK /\ Importing!TypeOK
      => TypeOK
  BY DEF TypeOK
<1> QED BY <1>1, <1>2, <1>3, <1>4, <1>5, <1>6, <1>7, <1>8, <1>9, PTL
=============================================================================
