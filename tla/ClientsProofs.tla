---------------------------- MODULE ClientsProofs ----------------------------
(***************************************************************************)
(* What the clients of the API get, proved for any number of them: the     *)
(* tabs of the channel for validation reports (InterfaceChannel), and      *)
(* those that call language models or change the settings of their tenant  *)
(* (LlmCalls, TenantSettings).  The two have nothing in common but that.   *)
(***************************************************************************)
EXTENDS InterfaceChannel, LlmCalls, FiniteSetTheorems, TLAPS

-----------------------------------------------------------------------------
(* The channel of reports *)

MaybeReport == Report \cup {NoReport}
SendingType == [report : MaybeReport, left : SUBSET Tabs]

(* Sending types, shared by all broadcasts. *)
LEMMA NothingLeftType == NothingLeft \in SendingType /\ NothingLeft.left = {}
BY DEF NothingLeft, SendingType, MaybeReport

LEMMA RestType ==
    ASSUME ChannelTypeOK, NEW p \in Loops, NEW done
    PROVE  Rest(p, done) \in SendingType
<1>1. sending[p].report \in MaybeReport /\ sending[p].left \in SUBSET Tabs
  BY DEF ChannelTypeOK, MaybeReport
<1>2. QED
  BY <1>1, NothingLeftType DEF Rest, SendingType

LEMMA ShowType ==
    ASSUME ChannelTypeOK, NEW clients, NEW report \in MaybeReport, ShowTo(clients, report)
    PROVE  shown' \in [Tabs -> MaybeReport]
BY DEF ChannelTypeOK, ShowTo, MaybeReport

LEMMA BroadcastType ==
    ASSUME ChannelTypeOK, NEW p \in Loops, NEW report \in Report, Broadcast(p, report)
    PROVE  /\ last' \in MaybeReport
           /\ shown' \in [Tabs -> MaybeReport]
           /\ sending' \in [Loops -> SendingType]
           /\ stalled' \in BOOLEAN
           /\ channelFaults' \in 0..MaxChannelFaults
<1>0. report \in MaybeReport
  BY DEF MaybeReport
<1>1. last' \in MaybeReport
  BY <1>0 DEF Broadcast
<1>2. CASE ShowTo(online, report) /\ UNCHANGED <<sending, stalled, channelFaults>>
  BY <1>0, <1>1, <1>2, ShowType DEF ChannelTypeOK, SendingType, MaybeReport
<1>3. CASE \E served \in (SUBSET online) \ {{}, online} :
             /\ ChannelFault
             /\ ShowTo(served, report)
             /\ sending' = [sending EXCEPT ![p] = [report |-> report, left |-> online \ served]]
             /\ stalled' = TRUE
  <2>1. PICK served \in SUBSET online :
           /\ ChannelFault
           /\ ShowTo(served, report)
           /\ sending' = [sending EXCEPT ![p] = [report |-> report, left |-> online \ served]]
           /\ stalled' = TRUE
    BY <1>3
  <2>2. [report |-> report, left |-> online \ served] \in SendingType
    BY <1>0 DEF SendingType, ChannelTypeOK
  <2>3. sending' \in [Loops -> SendingType]
    BY <2>1, <2>2 DEF ChannelTypeOK, SendingType, MaybeReport
  <2>4. channelFaults' \in 0..MaxChannelFaults
    BY <2>1, ChannelAssumption DEF ChannelTypeOK, ChannelFault
  <2>5. QED
    BY <1>0, <1>1, <2>1, <2>3, <2>4, ShowType
<1>4. QED
  BY <1>2, <1>3 DEF Broadcast

LEMMA ChannelTypeInit == ChannelInit => ChannelTypeOK
<1> SUFFICES ASSUME ChannelInit
             PROVE  ChannelTypeOK
  OBVIOUS
<1>1. connects \in [Tabs -> 0..MaxConnects] /\ channelFaults \in 0..MaxChannelFaults
  BY ChannelAssumption DEF ChannelInit
<1>2. sending \in [Loops -> SendingType]
  BY NothingLeftType DEF ChannelInit
<1>3. inbox \in [Tabs -> Seq(Report)]
  BY DEF ChannelInit
<1>4. QED
  BY <1>1, <1>2, <1>3 DEF ChannelInit, FeedInit, ChannelTypeOK, SendingType, MaybeReport

LEMMA DropType ==
    ASSUME ChannelTypeOK, NEW gone \in SUBSET Tabs, Drop(gone)
    PROVE  /\ online' \in SUBSET Tabs /\ listening' \in SUBSET online'
           /\ inbox' \in [Tabs -> Seq(Report)]
           /\ polled' \in [Tabs -> MaybeReport]
           /\ sending' \in [Loops -> SendingType]
           /\ shown' \in [Tabs -> MaybeReport]
<1>1. online' \in SUBSET Tabs /\ listening' \in SUBSET online'
  BY DEF Drop, ChannelTypeOK
<1>2. inbox' \in [Tabs -> Seq(Report)]
  BY DEF Drop, ChannelTypeOK
<1>3. polled' \in [Tabs -> MaybeReport]
  BY DEF Drop, ChannelTypeOK, MaybeReport
<1>5. sending' \in [Loops -> SendingType]
  BY RestType, NothingLeftType DEF Drop
<1>6. NoReport \in MaybeReport
  BY DEF MaybeReport
<1>7. QED
  BY <1>1, <1>2, <1>3, <1>5, <1>6, ShowType DEF Drop

LEMMA ChannelTypeNext == ChannelTypeOK /\ [ChannelNext]_channelVars => ChannelTypeOK'
<1> SUFFICES ASSUME ChannelTypeOK, [ChannelNext]_channelVars
             PROVE  ChannelTypeOK'
  OBVIOUS
<1> USE ChannelAssumption
<1>1. ASSUME NEW r \in Report, Store(r)
      PROVE  ChannelTypeOK'
  BY <1>1 DEF ChannelTypeOK, Store, StoreReport
<1>2. ASSUME NEW r \in Report, Publish(r)
      PROVE  ChannelTypeOK'
  <2>1. inbox' \in [Tabs -> Seq(Report)]
    <3>1. \A k \in Tabs : inbox[k] \in Seq(Report) /\ Append(inbox[k], r) \in Seq(Report)
      BY DEF ChannelTypeOK
    <3>2. QED
      BY <1>2, <3>1 DEF Publish, ChannelTypeOK
  <2>2. channelFaults' \in 0..MaxChannelFaults
    BY <1>2 DEF ChannelTypeOK, Publish, ChannelFault
  <2>3. QED
    BY <1>2, <2>1, <2>2 DEF ChannelTypeOK, Publish, CloseReport
<1>3. CASE Expire
  BY <1>3 DEF ChannelTypeOK, Expire, ExpireLatest, ChannelFault
<1>4. ASSUME NEW k \in Tabs, Connect(k)
      PROVE  ChannelTypeOK'
  <2>1. shown' \in [Tabs -> MaybeReport]
    BY <1>4, ShowType DEF Connect, ChannelTypeOK, MaybeReport
  <2>2. connects' \in [Tabs -> 0..MaxConnects]
    BY <1>4 DEF Connect, ChannelTypeOK
  <2>3. QED
    BY <1>4, <2>1, <2>2 DEF ChannelTypeOK, Connect, redisVars, feedVars, MaybeReport
<1>5. ASSUME NEW k \in Tabs, Leave(k)
      PROVE  ChannelTypeOK'
  BY <1>5, DropType DEF ChannelTypeOK, Leave, feedVars, MaybeReport, SendingType
<1>6. CASE Restart
  BY <1>6, DropType DEF ChannelTypeOK, Restart, feedVars, MaybeReport, SendingType, ChannelFault
<1>7. ASSUME NEW k \in Tabs, Subscribe(k)
      PROVE  ChannelTypeOK'
  BY <1>7 DEF ChannelTypeOK, Subscribe, redisVars, feedVars
<1>8. ASSUME NEW k \in Tabs, Deliver(k)
      PROVE  ChannelTypeOK'
  <2>1. inbox[k] \in Seq(Report) /\ inbox[k] # <<>>
    BY <1>8 DEF Deliver, ChannelTypeOK
  <2>2. Head(inbox[k]) \in Report /\ Tail(inbox[k]) \in Seq(Report)
    BY <2>1
  <2>3. inbox' \in [Tabs -> Seq(Report)]
    BY <1>8, <2>2 DEF Deliver, ChannelTypeOK
  <2>4. <<k, "subscribe">> \in Loops
    BY DEF Loops
  <2>5. Broadcast(<<k, "subscribe">>, Head(inbox[k]))
    BY <1>8 DEF Deliver
  <2>6. QED
    BY <1>8, <2>2, <2>3, <2>4, <2>5, BroadcastType
       DEF Deliver, ChannelTypeOK, feedVars, MaybeReport, SendingType
<1>9. ASSUME NEW k \in Tabs, DropSubscription(k)
      PROVE  ChannelTypeOK'
  BY <1>9 DEF ChannelTypeOK, DropSubscription, feedVars, ChannelFault
<1>10. ASSUME NEW k \in Tabs, PollRead(k)
       PROVE  ChannelTypeOK'
  BY <1>10 DEF ChannelTypeOK, PollRead, redisVars, feedVars
<1>11. ASSUME NEW k \in Tabs, PollSend(k)
       PROVE  ChannelTypeOK'
  <2>1. polled[k] \in Report
    BY <1>11 DEF PollSend, ChannelTypeOK
  <2>2. polled' \in [Tabs -> MaybeReport]
    BY <1>11 DEF PollSend, ChannelTypeOK, MaybeReport
  <2>3. <<k, "poll">> \in Loops
    BY DEF Loops
  <2>4. CASE polled[k] # last
    <3>1. Broadcast(<<k, "poll">>, polled[k])
      BY <1>11, <2>4 DEF PollSend
    <3>2. QED
      BY <1>11, <2>1, <2>2, <2>3, <3>1, BroadcastType
         DEF PollSend, ChannelTypeOK, redisVars, feedVars, MaybeReport, SendingType
  <2>5. CASE polled[k] = last
    BY <1>11, <2>2, <2>5 DEF PollSend, ChannelTypeOK, redisVars, feedVars, MaybeReport
  <2>6. QED
    BY <2>4, <2>5
<1>12. ASSUME NEW p \in Loops, Resume(p)
       PROVE  ChannelTypeOK'
  <2>1. PICK served : /\ ShowTo(served, sending[p].report)
                      /\ sending' = [sending EXCEPT ![p] = Rest(p, served)]
    BY <1>12 DEF Resume
  <2>2. sending[p].report \in MaybeReport
    BY DEF ChannelTypeOK, MaybeReport
  <2>3. sending \in [Loops -> SendingType]
    BY DEF ChannelTypeOK, SendingType, MaybeReport
  <2>4. sending' \in [Loops -> SendingType]
    BY <2>1, <2>3, RestType
  <2>5. shown' \in [Tabs -> MaybeReport]
    BY <2>1, <2>2, ShowType
  <2>6. QED
    BY <1>12, <2>4, <2>5 DEF Resume, ChannelTypeOK, redisVars, feedVars, MaybeReport, SendingType
<1>13. CASE UNCHANGED channelVars
  BY <1>13 DEF ChannelTypeOK, channelVars, feedVars
<1>14. QED
  BY <1>1, <1>2, <1>3, <1>4, <1>5, <1>6, <1>7, <1>8, <1>9, <1>10, <1>11, <1>12, <1>13
     DEF ChannelNext, Loop

(* Type correctness of the channel, whatever the reports and the tabs: a client
   that is not registered has no subscription. *)
THEOREM ChannelTypeCorrect == ChannelSpec => []ChannelTypeOK
BY ChannelTypeInit, ChannelTypeNext, PTL DEF ChannelSpec

-----------------------------------------------------------------------------
(* The tabs agree *)

(* Without a suspended broadcast, none is half-way: only Broadcast shows reports. *)
AgreeInv == ~stalled => /\ \A k \in online : shown[k] = last
                        /\ \A p \in Loops : Idle(p)

LEMMA AgreeInit == ChannelInit => AgreeInv
BY NothingLeftType DEF ChannelInit, AgreeInv, Idle

(* A broadcast that is not suspended leaves everyone with the report. *)
LEMMA BroadcastAgrees ==
    ASSUME ChannelTypeOK, AgreeInv, NEW p \in Loops, NEW report,
           Broadcast(p, report), UNCHANGED online
    PROVE  AgreeInv'
<1> SUFFICES ASSUME ~stalled'
             PROVE  /\ \A k \in online : shown'[k] = last'
                    /\ \A q \in Loops : Idle(q)'
  BY DEF AgreeInv
<1>1. /\ last' = report /\ ShowTo(online, report)
      /\ UNCHANGED <<sending, stalled>>
  BY DEF Broadcast
<1>2. \A k \in online : shown'[k] = last'
  BY <1>1 DEF ShowTo, ChannelTypeOK
<1>3. QED
  BY <1>1, <1>2 DEF AgreeInv, Idle

LEMMA AgreeNext == ChannelTypeOK /\ AgreeInv /\ [ChannelNext]_channelVars => AgreeInv'
<1> SUFFICES ASSUME ChannelTypeOK, AgreeInv, [ChannelNext]_channelVars
             PROVE  AgreeInv'
  OBVIOUS
<1>1. ASSUME UNCHANGED <<online, last, sending, shown, stalled>>
      PROVE  AgreeInv'
  BY <1>1 DEF AgreeInv, Idle
<1>2. ASSUME NEW k \in Tabs, Connect(k)
      PROVE  AgreeInv'
  <2>1. /\ online' = online \cup {k} /\ ShowTo({k}, last)
        /\ UNCHANGED <<last, sending, stalled>>
    BY <1>2 DEF Connect
  <2>2. ASSUME ~stalled
        PROVE  \A j \in online' : shown'[j] = last'
    BY <2>1, <2>2 DEF AgreeInv, ShowTo, ChannelTypeOK
  <2>3. QED
    BY <2>1, <2>2 DEF AgreeInv, Idle
<1>3. ASSUME NEW gone \in SUBSET Tabs, Drop(gone), UNCHANGED stalled,
             last' = last \/ gone = Tabs
      PROVE  AgreeInv'
  <2>1. online' = online \ gone /\ ShowTo(gone, NoReport)
    BY <1>3 DEF Drop
  <2>2. ASSUME ~stalled
        PROVE  \A j \in online' : shown'[j] = last'
    BY <1>3, <2>1, <2>2 DEF AgreeInv, ShowTo, ChannelTypeOK
  <2>3. ASSUME ~stalled, NEW p \in Loops
        PROVE  Idle(p)'
    <3>1. sending[p].left = {}
      BY <2>3 DEF AgreeInv, Idle
    <3>2. sending'[p] = NothingLeft
      BY <1>3, <3>1 DEF Drop, Rest
    <3>3. QED
      BY <3>2, NothingLeftType DEF Idle
  <2>4. QED
    BY <1>3, <2>2, <2>3 DEF AgreeInv
<1>4. ASSUME NEW k \in Tabs, Leave(k)
      PROVE  AgreeInv'
  BY <1>3, <1>4 DEF Leave
<1>5. CASE Restart
  BY <1>3, <1>5 DEF Restart
<1>6. ASSUME NEW k \in Tabs, Deliver(k)
      PROVE  AgreeInv'
  BY <1>6, BroadcastAgrees DEF Deliver, Loops
<1>7. ASSUME NEW k \in Tabs, PollSend(k)
      PROVE  AgreeInv'
  BY <1>1, <1>7, BroadcastAgrees DEF PollSend, Loops
<1>8. ASSUME NEW p \in Loops, Resume(p)
      PROVE  AgreeInv'
  <2>1. stalled
    <3>0. \E served \in SUBSET sending[p].left : served # {}
      BY <1>8 DEF Resume
    <3>1. sending[p].left # {}
      BY <3>0
    <3>2. QED
      BY <3>1 DEF AgreeInv, Idle
  <2>2. QED
    BY <1>8, <2>1 DEF Resume, AgreeInv
<1>9. ASSUME \/ \E r \in Report : Store(r) \/ Publish(r)
             \/ Expire
             \/ \E k \in Tabs : Subscribe(k) \/ PollRead(k) \/ DropSubscription(k)
             \/ UNCHANGED channelVars
      PROVE  AgreeInv'
  BY <1>1, <1>9 DEF Store, Publish, Expire, Subscribe, PollRead, DropSubscription, channelVars
<1>10. QED
  BY <1>2, <1>4, <1>5, <1>6, <1>7, <1>8, <1>9 DEF ChannelNext, Loop

(* All connected tabs show the report the channel remembers, for any number of
   tabs, reports, reconnections and failures, as long as no client suspends a
   broadcast. *)
THEOREM ConnectedTabsAgree == ChannelSpec => []TabsAgree
<1>1. AgreeInv => TabsAgree
  BY DEF AgreeInv, TabsAgree
<1>2. QED
  BY <1>1, AgreeInit, AgreeNext, ChannelTypeCorrect, PTL DEF ChannelSpec

-----------------------------------------------------------------------------
(* What the tabs show *)
Told == stored \cup {NoReport}

(* On each way to a tab there is nothing but reports that were stored. *)
ToldInv ==
    /\ latest \in Told /\ pending \subseteq stored
    /\ last \in Told
    /\ \A k \in Tabs : inbox[k] \in Seq(stored) /\ polled[k] \in Told /\ shown[k] \in Told
    /\ \A p \in Loops : sending[p].report \in Told

LEMMA ToldInit == ChannelInit => ToldInv
BY DEF ChannelInit, FeedInit, ToldInv, Told, Loops, NothingLeft

LEMMA ShowTold ==
    ASSUME ChannelTypeOK, ToldInv, NEW clients, NEW report \in Told, ShowTo(clients, report)
    PROVE  \A k \in Tabs : shown'[k] \in Told
BY DEF ToldInv, ShowTo

(* What is left of a broadcast, and a broadcast itself *)
LEMMA RestTold ==
    ASSUME ToldInv, NEW p \in Loops, NEW done
    PROVE  Rest(p, done).report \in Told
BY DEF ToldInv, Told, Rest, NothingLeft

LEMMA BroadcastTold ==
    ASSUME ChannelTypeOK, ToldInv, NEW p \in Loops, NEW report \in Told, Broadcast(p, report)
    PROVE  /\ last' \in Told
           /\ \A k \in Tabs : shown'[k] \in Told
           /\ \A q \in Loops : sending'[q].report \in Told
<1>1. last' \in Told
  BY DEF Broadcast
<1>2. \A k \in Tabs : shown'[k] \in Told
  BY ShowTold DEF Broadcast
<1>3. CASE UNCHANGED sending
  BY <1>1, <1>2, <1>3 DEF ToldInv
<1>4. CASE \E left : sending' = [sending EXCEPT ![p] = [report |-> report, left |-> left]]
  <2>1. \A q \in Loops : sending'[q].report \in Told
    BY <1>4 DEF ToldInv, ChannelTypeOK
  <2>2. QED
    BY <1>1, <1>2, <2>1
<1>5. QED
  BY <1>3, <1>4 DEF Broadcast

LEMMA ToldNext == ChannelTypeOK /\ ToldInv /\ [ChannelNext]_channelVars => ToldInv'
<1> SUFFICES ASSUME ChannelTypeOK, ToldInv, [ChannelNext]_channelVars
             PROVE  ToldInv'
  OBVIOUS
<1>1. ASSUME NEW r \in Report, Store(r)
      PROVE  ToldInv'
  <2>1. stored' = stored \cup {r} /\ latest' = r /\ pending' = pending \cup {r}
    BY <1>1 DEF Store, StoreReport
  <2>2. \A k \in Tabs : inbox[k] \in Seq(stored')
    BY <2>1 DEF ToldInv
  <2>3. QED
    BY <1>1, <2>1, <2>2 DEF ToldInv, Told, Store
<1>2. ASSUME NEW r \in Report, Publish(r)
      PROVE  ToldInv'
  <2>1. r \in stored /\ pending' \subseteq stored /\ UNCHANGED <<latest, stored>>
    BY <1>2 DEF Publish, CloseReport, ToldInv
  <2>2. ASSUME NEW k \in Tabs
        PROVE  inbox'[k] \in Seq(stored)
    <3>1. inbox[k] \in Seq(stored)
      BY DEF ToldInv
    <3>2. Append(inbox[k], r) \in Seq(stored)
      BY <2>1, <3>1
    <3>3. inbox'[k] \in {inbox[k], Append(inbox[k], r)}
      BY <1>2 DEF Publish
    <3>4. QED
      BY <3>1, <3>2, <3>3
  <2>3. QED
    BY <1>2, <2>1, <2>2 DEF ToldInv, Told, Publish
<1>3. CASE Expire
  BY <1>3 DEF Expire, ExpireLatest, ToldInv, Told
<1>4. ASSUME NEW gone \in SUBSET Tabs, Drop(gone), UNCHANGED feedVars, last' \in Told
      PROVE  ToldInv'
  <2>1. \A k \in Tabs : shown'[k] \in Told
    BY <1>4, ShowTold DEF Drop, Told
  <2>2. \A p \in Loops : sending'[p].report \in Told
    <3>1. ASSUME NEW p \in Loops
          PROVE  sending'[p].report \in Told
      <4>1. sending'[p] \in {NothingLeft, Rest(p, gone)}
        BY <1>4 DEF Drop
      <4>2. QED
        BY <4>1, RestTold DEF NothingLeft, Told
    <3>2. QED
      BY <3>1
  <2>3. \A k \in Tabs : inbox'[k] \in Seq(stored) /\ polled'[k] \in Told
    BY <1>4 DEF Drop, ToldInv, Told
  <2>4. QED
    BY <1>4, <2>1, <2>2, <2>3 DEF ToldInv, Told, feedVars
<1>5. ASSUME NEW k \in Tabs, Leave(k)
      PROVE  ToldInv'
  BY <1>4, <1>5 DEF Leave, ToldInv
<1>6. CASE Restart
  BY <1>4, <1>6 DEF Restart, Told
<1>7. ASSUME NEW k \in Tabs, Connect(k)
      PROVE  ToldInv'
  <2>1. \A j \in Tabs : shown'[j] \in Told
    BY <1>7, ShowTold DEF Connect, ToldInv
  <2>2. QED
    BY <1>7, <2>1 DEF Connect, ToldInv, Told, redisVars, feedVars
<1>8. ASSUME NEW p \in Loops, Resume(p)
      PROVE  ToldInv'
  <2>1. PICK served : /\ ShowTo(served, sending[p].report)
                      /\ sending' = [sending EXCEPT ![p] = Rest(p, served)]
    BY <1>8 DEF Resume
  <2>2. \A j \in Tabs : shown'[j] \in Told
    BY <2>1, ShowTold DEF ToldInv
  <2>3. \A q \in Loops : sending'[q].report \in Told
    BY <2>1, RestTold DEF ToldInv, ChannelTypeOK
  <2>4. QED
    BY <1>8, <2>2, <2>3 DEF Resume, ToldInv, Told, redisVars, feedVars
<1>9. ASSUME NEW k \in Tabs, Deliver(k)
      PROVE  ToldInv'
  <2>1. inbox[k] \in Seq(stored) /\ inbox[k] # <<>>
    BY <1>9 DEF Deliver, ToldInv
  <2>2. Head(inbox[k]) \in stored /\ Tail(inbox[k]) \in Seq(stored)
    BY <2>1
  <2>3. <<k, "subscribe">> \in Loops
    BY DEF Loops
  <2>4. /\ last' \in Told
        /\ \A j \in Tabs : shown'[j] \in Told
        /\ \A q \in Loops : sending'[q].report \in Told
    BY <1>9, <2>2, <2>3, BroadcastTold DEF Deliver, Told
  <2>5. \A j \in Tabs : inbox'[j] \in Seq(stored)
    BY <1>9, <2>2 DEF Deliver, ToldInv, ChannelTypeOK
  <2>6. QED
    BY <1>9, <2>4, <2>5 DEF Deliver, ToldInv, Told, feedVars
<1>10. ASSUME NEW k \in Tabs, PollSend(k)
       PROVE  ToldInv'
  <2>1. <<k, "poll">> \in Loops /\ polled[k] \in Told
    BY DEF Loops, ToldInv
  <2>2. /\ last' \in Told
        /\ \A j \in Tabs : shown'[j] \in Told
        /\ \A q \in Loops : sending'[q].report \in Told
    <3>1. CASE Broadcast(<<k, "poll">>, polled[k])
      BY <2>1, <3>1, BroadcastTold
    <3>2. CASE UNCHANGED <<last, sending, shown>>
      BY <3>2 DEF ToldInv
    <3>3. QED
      BY <1>10, <3>1, <3>2 DEF PollSend
  <2>3. \A j \in Tabs : polled'[j] \in Told
    BY <1>10 DEF PollSend, ToldInv, Told, ChannelTypeOK
  <2>4. QED
    BY <1>10, <2>2, <2>3 DEF PollSend, ToldInv, Told, redisVars, feedVars
<1>11. ASSUME NEW k \in Tabs, PollRead(k)
       PROVE  ToldInv'
  <2>1. \A j \in Tabs : polled'[j] \in Told
    BY <1>11 DEF PollRead, ToldInv, ChannelTypeOK
  <2>2. QED
    BY <1>11, <2>1 DEF PollRead, ToldInv, Told, redisVars, feedVars
<1>12. ASSUME NEW k \in Tabs, Subscribe(k)
       PROVE  ToldInv'
  BY <1>12 DEF Subscribe, ToldInv, Told, redisVars, feedVars
<1>13. ASSUME NEW k \in Tabs, DropSubscription(k)
       PROVE  ToldInv'
  <2>1. \A j \in Tabs : inbox'[j] \in Seq(stored)
    BY <1>13 DEF DropSubscription, ToldInv, ChannelTypeOK
  <2>2. QED
    BY <1>13, <2>1 DEF DropSubscription, ToldInv, Told, feedVars
<1>14. CASE UNCHANGED channelVars
  BY <1>14 DEF channelVars, feedVars, ToldInv, Told
<1>15. QED
  BY <1>1, <1>2, <1>3, <1>5, <1>6, <1>7, <1>8, <1>9, <1>10, <1>11, <1>12, <1>13, <1>14
     DEF ChannelNext, Loop

(* What a tab shows was stored under the latest key before, for any number of tabs and
   whatever happens to their connections, subscriptions and broadcasts and to the
   process (the subscribe and poll loops, and the replay on connecting). *)
THEOREM TabsShowStored ==
    ChannelSpec => [](\A k \in Tabs : shown[k] # NoReport => shown[k] \in stored)
<1>1. ToldInv => \A k \in Tabs : shown[k] # NoReport => shown[k] \in stored
  BY DEF ToldInv, Told
<1>2. QED
  BY <1>1, ToldInit, ToldNext, ChannelTypeCorrect, PTL DEF ChannelSpec

-----------------------------------------------------------------------------
(* The calls to language models, and the settings of a tenant *)

SettingLabels == {"insert", "store", "upsert", "write"}
CallLabels == {"respond", "template", "rate", "count", "model", "output", "usage", "finish"}

(* Where a request stands, it has been asked, and it has what it needs there *)
Stands(r) ==
    /\ pc[r] # "done" => told[r] = "none"
    /\ pc[r] # "idle" => call[r] \in Calls
    /\ pc[r] \in SettingLabels => Path(r) \in SettingPaths
    /\ pc[r] = "store" =>
        /\ Path(r) \in {"update", "delete"} /\ row[r] \in TemplateRow
        /\ template[Target(r)].state # "none"
    /\ pc[r] \in {"upsert", "write"} => Path(r) \in {"post_budget", "put_budget"}
    /\ pc[r] \in CallLabels => Path(r) \in LlmPaths
    /\ pc[r] = "respond" => Path(r) = "stream"
    /\ pc[r] \in {"template", "usage", "finish"} => Path(r) # "stream"
    /\ pc[r] = "usage" => Target(r) # NoTemplate
    /\ pc[r] \in {"idle"} \cup (CallLabels \ {"finish"}) => row[r] = NoRow
    /\ pc[r] = "finish" /\ row[r] # NoRow =>
        Target(r) # NoTemplate /\ template[Target(r)].state # "none"

(* It is going to write to its template *)
Writing(r) == pc[r] = "store" \/ (pc[r] = "finish" /\ row[r] # NoRow)

SettingTypes ==
    /\ call \in [Requests -> Calls \cup {NoCall}]
    /\ pc \in [Requests -> Labels]
    /\ told \in [Requests -> Answers]
    /\ row \in [Requests -> TemplateRow \cup {NoRow}]
    /\ before \in [Requests -> Budget] /\ loaded \in [Requests -> Budget]
    /\ template \in [Templates -> TemplateRow]
    /\ budget \in Budget /\ lastSet \in Budget
    /\ open \subseteq Requests \X Columns /\ overlapped \subseteq Requests \X Columns
    /\ written \subseteq Requests \X Columns
    /\ named \in [Requests -> Nat]
    /\ faults \in 0 .. MaxFaults

CallTypes ==
    /\ counter \in Nat
    /\ round \in [Requests -> Rounds]
    /\ seen \in [Requests -> Nat]
    /\ broken \subseteq Requests
    /\ source \in [Requests -> {"none", "llm", "llama"}]
    /\ logged \subseteq Requests \X {"input", "output"} \X {"allowed", "redacted", "blocked"}
    /\ holds \in [Requests -> SUBSET Secrets]
    /\ reached \subseteq Requests
    /\ admitted \subseteq AskType /\ crowded \subseteq AskType
    /\ checking \subseteq AskType /\ refused \subseteq AskType

Standing == SettingTypes /\ \A r \in Requests : Stands(r)

LEMMA TypesAre == TypeOK <=> SettingTypes /\ CallTypes
BY DEF TypeOK, SettingTypes, CallTypes

(* What was asked *)
LEMMA CallsAre ==
    ASSUME NEW c \in Calls
    PROVE  /\ c \in Call /\ c # NoCall
           /\ c.path \in SettingPaths \cup LlmPaths
           /\ c.template \in Templates \cup {NoTemplate}
           /\ c.changes \subseteq Changes /\ c.clean \in BOOLEAN /\ c.llama \in BOOLEAN
           /\ c.answer \in Text /\ c.answer.holds \subseteq Secrets
           /\ c.path \in {"update", "delete"} => c.template \in Templates
           /\ c.path = "post_budget" => c.changes = Fields
<1>1. c \in Call /\ c # NoCall
  BY SettingsAssumption
<1>2. c.answer \in Text
  BY <1>1 DEF Call
<1>3. c.answer.holds \subseteq Secrets
  BY <1>2 DEF Text
<1>4. QED
  BY <1>1, <1>2, <1>3, SettingsAssumption DEF Call

LEMMA Asked ==
    ASSUME Standing, NEW r \in Requests, pc[r] # "idle"
    PROVE  /\ call[r] \in Calls
           /\ Path(r) \in SettingPaths \cup LlmPaths
           /\ Target(r) \in Templates \cup {NoTemplate}
           /\ call[r].changes \subseteq Changes
           /\ Path(r) \in {"update", "delete"} => Target(r) \in Templates
           /\ Path(r) = "post_budget" => call[r].changes = Fields
<1>1. call[r] \in Calls
  BY DEF Standing, Stands
<1>2. QED
  BY <1>1, CallsAre DEF Path, Target

LEMMA ColumnsAre ==
    /\ \A t \in Templates : <<"usage", t>> \in Columns /\ <<"version", t>> \in Columns
    /\ <<"budget", NoTemplate>> \in Columns
BY DEF Columns

LEMMA Moves ==
    ASSUME pc \in [Requests -> Labels], NEW r \in Requests, NEW l \in Labels, Goto(r, l)
    PROVE  /\ pc' \in [Requests -> Labels] /\ pc'[r] = l
           /\ \A q \in Requests : q # r => pc'[q] = pc[q]
BY DEF Goto

LEMMA Ends ==
    ASSUME SettingTypes, NEW r \in Requests, NEW a \in Answers, End(r, a)
    PROVE  /\ pc' \in [Requests -> Labels] /\ pc'[r] = "done"
           /\ \A q \in Requests : q # r => pc'[q] = pc[q]
           /\ told' \in [Requests -> Answers] /\ told'[r] = a
           /\ \A q \in Requests : q # r => told'[q] = told[q]
           /\ open' \subseteq open /\ overlapped' = overlapped
           /\ \A q \in Requests, x \in Columns : <<q, x>> \in open' <=> (<<q, x>> \in open /\ q # r)
<1>1. "done" \in Labels
  BY DEF Labels
<1>2. /\ pc' \in [Requests -> Labels] /\ pc'[r] = "done"
      /\ \A q \in Requests : q # r => pc'[q] = pc[q]
  BY <1>1, Moves DEF End, SettingTypes
<1>3. /\ told' \in [Requests -> Answers] /\ told'[r] = a
      /\ \A q \in Requests : q # r => told'[q] = told[q]
  BY DEF End, Tell, SettingTypes
<1>4. /\ open' \subseteq open /\ overlapped' = overlapped
      /\ \A q \in Requests, x \in Columns : <<q, x>> \in open' <=> (<<q, x>> \in open /\ q # r)
  BY DEF End, Closed
<1>5. QED
  BY <1>2, <1>3, <1>4

LEMMA Openings ==
    ASSUME SettingTypes, NEW r \in Requests, NEW x \in Columns, Opening(r, x)
    PROVE  /\ open' = open \cup {<<r, x>>}
           /\ open' \subseteq Requests \X Columns
           /\ overlapped \subseteq overlapped' /\ overlapped' \subseteq Requests \X Columns
           /\ \A q \in Requests : q # r /\ <<q, x>> \in open =>
                <<q, x>> \in overlapped' /\ <<r, x>> \in overlapped'
<1>1. \A q \in Requests : q # r /\ <<q, x>> \in open =>
        <<q, x>> \in {o \in open : o[2] = x /\ o[1] # r}
  OBVIOUS
<1>2. QED
  BY <1>1 DEF Opening, SettingTypes

(* A request stands where it stood as long as it does not move, and no template
   vanishes *)
LEMMA OthersStand ==
    ASSUME NEW q \in Requests, Stands(q),
           pc'[q] = pc[q], told'[q] = told[q], call'[q] = call[q], row'[q] = row[q],
           Writing(q) =>
                (template[Target(q)].state # "none" => template'[Target(q)].state # "none")
    PROVE  Stands(q)'
BY DEF Stands, Path, Target, Writing
-----------------------------------------------------------------------------
(* What is counted up, and the budget *)

(* What each request has read and not written yet *)
Holding(r, x) ==
    \/ pc[r] = "store" /\ "text" \in call[r].changes /\ x = <<"version", Target(r)>>
    \/ pc[r] = "finish" /\ row[r] # NoRow /\ x = <<"usage", Target(r)>>
    \/ pc[r] \in {"upsert", "write"} /\ x = <<"budget", NoTemplate>>

Opened ==
    /\ \A r \in Requests, x \in Columns : <<r, x>> \in open <=> Holding(r, x)
    /\ \A r, s \in Requests, x \in Columns :
            r # s /\ <<r, x>> \in open /\ <<s, x>> \in open => <<r, x>> \in overlapped
    /\ \A r \in Requests, x \in Columns : <<r, x>> \in written => pc[r] = "done"

Usage(t) == <<"usage", t>>
Version(t) == <<"version", t>>
TheBudget == <<"budget", NoTemplate>>

UsageOf(t) ==
    /\ Cardinality(Alone(Usage(t))) <= template[t].usage
    /\ template[t].usage <= Cardinality(Writers(Usage(t)))
    /\ \A r \in Requests : <<r, Usage(t)>> \in open =>
        /\ Cardinality(Alone(Usage(t))) <= row[r].usage
        /\ row[r].usage <= Cardinality(Writers(Usage(t)))

VersionOf(t) ==
    /\ template[t].state = "none" => template[t].usage = 0 /\ template[t].version = 0
    /\ \A w \in Alone(Version(t)) :
        /\ named[w] <= template[t].version
        /\ \A r \in Requests : <<r, Version(t)>> \in open => named[w] <= row[r].version
        /\ \A v \in Alone(Version(t)) : v # w => named[v] # named[w]

BudgetOf ==
    /\ \A f \in Fields : budget[f] # lastSet[f] => <<lastSet[f], TheBudget>> \in overlapped
    /\ \A r \in Requests :
        /\ pc[r] \in {"upsert", "write"} /\ Path(r) = "put_budget" =>
            \A f \in Fields : before[r][f] # lastSet[f] => <<lastSet[f], TheBudget>> \in overlapped
        /\ pc[r] = "write" /\ <<r, TheBudget>> \notin overlapped => loaded[r] = budget

SettingsInv == Opened /\ BudgetOf /\ \A t \in Templates : UsageOf(t) /\ VersionOf(t)

LEMMA WritersFinite ==
    ASSUME NEW x
    PROVE  /\ IsFiniteSet(Writers(x)) /\ Cardinality(Writers(x)) \in Nat
           /\ IsFiniteSet(Alone(x)) /\ Cardinality(Alone(x)) \in Nat
<1>1. Writers(x) \subseteq Requests /\ Alone(x) \subseteq Requests
  BY DEF Writers, Alone
<1>2. IsFiniteSet(Writers(x)) /\ IsFiniteSet(Alone(x))
  BY <1>1, FS_Subset, SettingsAssumption
<1>3. QED
  BY <1>2, FS_CardinalityType

(* Who is alone stays so only as long as nobody overlaps *)
LEMMA FewerAlone ==
    ASSUME NEW x, UNCHANGED written, overlapped \subseteq overlapped'
    PROVE  /\ Alone(x)' \subseteq Alone(x) /\ Writers(x)' = Writers(x)
           /\ Cardinality(Alone(x)') <= Cardinality(Alone(x))
           /\ Cardinality(Alone(x)') \in Nat
<1>1. Alone(x)' \subseteq Alone(x) /\ Writers(x)' = Writers(x)
  BY DEF Alone, Writers
<1>2. QED
  BY <1>1, WritersFinite, FS_Subset, FS_CardinalityType

(* The others keep what they hold; what the one that moves has opened overlaps with
   who has opened the same *)
LEMMA OpenedNext ==
    ASSUME Opened, NEW r \in Requests, pc[r] # "done",
           \A q \in Requests : q # r =>
                pc'[q] = pc[q] /\ call'[q] = call[q] /\ row'[q] = row[q],
           \A q \in Requests, x \in Columns :
                q # r => (<<q, x>> \in open' <=> <<q, x>> \in open),
           \A x \in Columns : <<r, x>> \in open' <=> Holding(r, x)',
           overlapped \subseteq overlapped',
           \A q \in Requests, x \in Columns :
                q # r /\ <<q, x>> \in open /\ <<r, x>> \in open' =>
                    <<q, x>> \in overlapped' /\ <<r, x>> \in overlapped',
           \A q \in Requests, x \in Columns :
                <<q, x>> \in written' => <<q, x>> \in written \/ pc'[q] = "done"
    PROVE  Opened'
<1>1. ASSUME NEW q \in Requests, NEW x \in Columns
      PROVE  <<q, x>> \in open' <=> Holding(q, x)'
  <2>1. CASE q = r
    BY <2>1
  <2>2. CASE q # r
    BY <2>2 DEF Opened, Holding, Target
  <2>3. QED
    BY <2>1, <2>2
<1>2. ASSUME NEW p \in Requests, NEW q \in Requests, NEW x \in Columns,
             p # q, <<p, x>> \in open', <<q, x>> \in open'
      PROVE  <<p, x>> \in overlapped'
  <2>1. CASE p = r \/ q = r
    BY <1>2, <2>1
  <2>2. CASE p # r /\ q # r
    BY <1>2, <2>2 DEF Opened
  <2>3. QED
    BY <2>1, <2>2
<1>3. ASSUME NEW q \in Requests, NEW x \in Columns, <<q, x>> \in written'
      PROVE  pc'[q] = "done"
  BY <1>3 DEF Opened
<1>4. QED
  BY <1>1, <1>2, <1>3 DEF Opened

(* What is held of a template is a row of it *)
LEMMA HeldRows ==
    ASSUME Standing, Opened, NEW r \in Requests, NEW t \in Templates,
           NEW x \in {Usage(t), Version(t)}, <<r, x>> \in open
    PROVE  row[r] \in TemplateRow /\ Target(r) = t
<1>1. x \in Columns /\ x # TheBudget /\ x[2] = t
  <2>1. /\ Usage(t) # TheBudget /\ Version(t) # TheBudget
        /\ Usage(t)[2] = t /\ Version(t)[2] = t
    BY DEF Usage, Version, TheBudget
  <2>2. Usage(t) \in Columns /\ Version(t) \in Columns
    BY ColumnsAre DEF Usage, Version
  <2>3. QED
    BY <2>1, <2>2
<1>2. Holding(r, x)
  BY <1>1 DEF Opened
<1>3. QED
  BY <1>1, <1>2 DEF Holding, TheBudget, Standing, Stands, SettingTypes

(* Whoever holds a column of a template holds the row it read, and read it now if it
   did not hold it before *)
HoldersRead(t, x) ==
    \A q \in Requests : <<q, x>> \in open' =>
        \/ <<q, x>> \in open /\ row'[q] = row[q]
        \/ row'[q] = template[t]

LEMMA UsageUnwritten ==
    ASSUME Standing, Opened, NEW t \in Templates, UsageOf(t),
           template'[t].usage = template[t].usage,
           Writers(Usage(t))' = Writers(Usage(t)), Alone(Usage(t))' \subseteq Alone(Usage(t)),
           HoldersRead(t, Usage(t))
    PROVE  UsageOf(t)'
<1> DEFINE alone == Cardinality(Alone(Usage(t)))
           alone1 == Cardinality(Alone(Usage(t))')
           writers == Cardinality(Writers(Usage(t)))
<1>1. template[t].usage \in Nat
  BY DEF Standing, SettingTypes, TemplateRow
<1>2. /\ alone1 \in Nat /\ alone \in Nat /\ alone1 <= alone
  BY WritersFinite, FS_Subset, FS_CardinalityType
<1>3. alone <= template[t].usage /\ template[t].usage <= writers
  BY DEF UsageOf
<1>4. ASSUME NEW q \in Requests, <<q, Usage(t)>> \in open'
      PROVE  alone <= row'[q].usage /\ row'[q].usage <= writers
  BY <1>3, <1>4 DEF UsageOf, HoldersRead
<1>5. \A n \in Int : alone <= n => alone1 <= n
  BY <1>2
<1>6. ASSUME NEW q \in Requests, <<q, Usage(t)>> \in open'
      PROVE  alone1 <= row'[q].usage /\ row'[q].usage <= writers
  <2>1. \/ <<q, Usage(t)>> \in open /\ row'[q] = row[q]
        \/ row'[q] = template[t]
    BY <1>6 DEF HoldersRead
  <2>2. <<q, Usage(t)>> \in open => row[q] \in TemplateRow
    BY HeldRows
  <2>3. row'[q].usage \in Int
    BY <1>1, <2>1, <2>2 DEF TemplateRow
  <2>4. QED
    BY <1>4, <1>5, <1>6, <2>3
<1>7. alone1 <= template[t].usage
  BY <1>1, <1>3, <1>5
<1>8. QED
  BY <1>2, <1>3, <1>6, <1>7 DEF UsageOf, Usage

LEMMA VersionUnwritten ==
    ASSUME Standing, NEW t \in Templates, VersionOf(t), template'[t] \in TemplateRow,
           template[t].version <= template'[t].version,
           template'[t].state = "none" => template'[t] = template[t],
           Alone(Version(t))' \subseteq Alone(Version(t)),
           \A w \in Alone(Version(t))' : named'[w] = named[w],
           HoldersRead(t, Version(t))
    PROVE  VersionOf(t)'
<1>1. /\ template[t].version \in Nat /\ template'[t].version \in Nat
      /\ \A w \in Alone(Version(t)) : named[w] \in Nat
  BY DEF Standing, SettingTypes, TemplateRow, Alone, Writers
<1>2. ASSUME NEW w \in Alone(Version(t))'
      PROVE  named'[w] <= template'[t].version
  <2>1. named'[w] = named[w] /\ named[w] \in Nat /\ named[w] <= template[t].version
    BY <1>1, <1>2 DEF VersionOf
  <2>2. QED
    BY <1>1, <2>1
<1>3. ASSUME NEW w \in Alone(Version(t))', NEW q \in Requests, <<q, Version(t)>> \in open'
      PROVE  named'[w] <= row'[q].version
  BY <1>3 DEF VersionOf, HoldersRead
<1>4. template'[t].state = "none" => template'[t].usage = 0 /\ template'[t].version = 0
  BY DEF VersionOf
<1>5. \A v, w \in Alone(Version(t))' : v # w => named'[v] # named'[w]
  BY DEF VersionOf
<1>6. QED
  BY <1>2, <1>3, <1>4, <1>5 DEF VersionOf, Version

(* A request that reads, moves or ends, and writes nothing *)
LEMMA Unwritten ==
    ASSUME Standing, Opened, \A t \in Templates : UsageOf(t) /\ VersionOf(t),
           UNCHANGED <<template, written, named>>, overlapped \subseteq overlapped',
           \A t \in Templates : HoldersRead(t, Usage(t)) /\ HoldersRead(t, Version(t))
    PROVE  \A t \in Templates : UsageOf(t)' /\ VersionOf(t)'
<1> TAKE t \in Templates
<1>1. /\ Writers(Usage(t))' = Writers(Usage(t))
      /\ Alone(Usage(t))' \subseteq Alone(Usage(t))
      /\ Alone(Version(t))' \subseteq Alone(Version(t))
  BY FewerAlone
<1>2. UsageOf(t)'
  BY <1>1, UsageUnwritten
<1>3. template[t] \in TemplateRow /\ template[t].version <= template[t].version
  BY DEF Standing, SettingTypes, TemplateRow
<1>4. VersionOf(t)'
  BY <1>1, <1>3, VersionUnwritten
<1>5. QED
  BY <1>2, <1>4

LEMMA BudgetUnwritten ==
    ASSUME BudgetOf, UNCHANGED <<budget, lastSet>>, overlapped \subseteq overlapped',
           \A q \in Requests :
                /\ pc'[q] \in {"upsert", "write"} /\ call'[q].path = "put_budget" =>
                    \/ /\ pc[q] \in {"upsert", "write"} /\ Path(q) = "put_budget"
                       /\ before'[q] = before[q]
                    \/ before'[q] = budget
                /\ pc'[q] = "write" =>
                    \/ pc[q] = "write" /\ loaded'[q] = loaded[q]
                    \/ loaded'[q] = budget
    PROVE  BudgetOf'
<1>1. \A f \in Fields : budget'[f] # lastSet'[f] => <<lastSet'[f], TheBudget>> \in overlapped'
  BY DEF BudgetOf
<1>2. ASSUME NEW q \in Requests, pc'[q] \in {"upsert", "write"}, Path(q)' = "put_budget",
             NEW f \in Fields, before'[q][f] # lastSet'[f]
      PROVE  <<lastSet'[f], TheBudget>> \in overlapped'
  BY <1>1, <1>2 DEF BudgetOf, Path
<1>3. ASSUME NEW q \in Requests, pc'[q] = "write", <<q, TheBudget>> \notin overlapped'
      PROVE  loaded'[q] = budget'
  BY <1>3 DEF BudgetOf
<1>4. QED
  BY <1>1, <1>2, <1>3 DEF BudgetOf, TheBudget

(* A step of r that writes nothing to the templates and the budget *)
Advancing(r) ==
    /\ pc[r] # "done"
    /\ UNCHANGED <<template, budget, written, named, lastSet>>
    /\ SettingTypes' /\ Stands(r)'
    /\ \A q \in Requests : q # r =>
        /\ pc'[q] = pc[q] /\ told'[q] = told[q] /\ call'[q] = call[q] /\ row'[q] = row[q]
        /\ before'[q] = before[q] /\ loaded'[q] = loaded[q]
    /\ \A q \in Requests, x \in Columns : q # r => (<<q, x>> \in open' <=> <<q, x>> \in open)
    /\ \A x \in Columns : <<r, x>> \in open' <=> Holding(r, x)'
    /\ overlapped \subseteq overlapped'
    /\ \A q \in Requests, x \in Columns :
            q # r /\ <<q, x>> \in open /\ <<r, x>> \in open' =>
                <<q, x>> \in overlapped' /\ <<r, x>> \in overlapped'
    /\ \A t \in Templates : \A x \in {Usage(t), Version(t)} : <<r, x>> \in open' =>
            \/ <<r, x>> \in open /\ row'[r] = row[r]
            \/ row'[r] = template[t]
    /\ pc'[r] \in {"upsert", "write"} /\ call'[r].path = "put_budget" =>
            \/ /\ pc[r] \in {"upsert", "write"} /\ Path(r) = "put_budget"
               /\ before'[r] = before[r]
            \/ before'[r] = budget
    /\ pc'[r] = "write" =>
            \/ pc[r] = "write" /\ loaded'[r] = loaded[r]
            \/ loaded'[r] = budget

SettingsHold == Standing /\ SettingsInv

LEMMA Advances ==
    ASSUME SettingsHold, NEW r \in Requests, Advancing(r)
    PROVE  SettingsHold'
<1> USE DEF SettingsHold, SettingsInv
<1>1. Opened'
  BY OpenedNext DEF Advancing
<1>2. \A t \in Templates : HoldersRead(t, Usage(t)) /\ HoldersRead(t, Version(t))
  <2> TAKE t \in Templates
  <2>1. Usage(t) \in Columns /\ Version(t) \in Columns
    BY ColumnsAre DEF Usage, Version
  <2>2. ASSUME NEW q \in Requests, NEW x \in {Usage(t), Version(t)}, <<q, x>> \in open'
        PROVE  \/ <<q, x>> \in open /\ row'[q] = row[q]
               \/ row'[q] = template[t]
    <3>1. CASE q = r
      BY <2>2, <3>1 DEF Advancing
    <3>2. CASE q # r
      BY <2>1, <2>2, <3>2 DEF Advancing
    <3>3. QED
      BY <3>1, <3>2
  <2>3. QED
    BY <2>2 DEF HoldersRead
<1>3. \A t \in Templates : UsageOf(t)' /\ VersionOf(t)'
  BY <1>2, Unwritten DEF Advancing
<1>4. BudgetOf'
  <2>1. ASSUME NEW q \in Requests
        PROVE  /\ pc'[q] \in {"upsert", "write"} /\ call'[q].path = "put_budget" =>
                    \/ /\ pc[q] \in {"upsert", "write"} /\ Path(q) = "put_budget"
                       /\ before'[q] = before[q]
                    \/ before'[q] = budget
               /\ pc'[q] = "write" =>
                    \/ pc[q] = "write" /\ loaded'[q] = loaded[q]
                    \/ loaded'[q] = budget
    <3>1. CASE q = r
      BY <3>1 DEF Advancing
    <3>2. CASE q # r
      BY <3>2 DEF Advancing, Path
    <3>3. QED
      BY <3>1, <3>2
  <2>2. QED
    BY <2>1, BudgetUnwritten DEF Advancing
<1>5. ASSUME NEW q \in Requests
      PROVE  Stands(q)'
  <2>1. CASE q = r
    BY <2>1 DEF Advancing
  <2>2. CASE q # r
    BY <2>2, OthersStand DEF Advancing, Standing
  <2>3. QED
    BY <2>1, <2>2
<1>6. Standing'
  BY <1>5 DEF Standing, Advancing
<1>7. QED
  BY <1>1, <1>3, <1>4, <1>6

(* The three ways to go on: to end, to move, and to move with a column read *)
LEMMA EndsAdvance ==
    ASSUME SettingsHold, NEW r \in Requests, NEW a \in Answers, pc[r] # "done", End(r, a),
           UNCHANGED <<template, budget, written, named, lastSet, row, before, loaded>>,
           call' \in [Requests -> Calls \cup {NoCall}], call'[r] \in Calls,
           \A q \in Requests : q # r => call'[q] = call[q],
           faults' \in 0 .. MaxFaults
    PROVE  Advancing(r)
<1> USE DEF SettingsHold, SettingsInv, Standing
<1>1. /\ pc' \in [Requests -> Labels] /\ pc'[r] = "done"
      /\ \A q \in Requests : q # r => pc'[q] = pc[q]
      /\ told' \in [Requests -> Answers] /\ told'[r] = a
      /\ \A q \in Requests : q # r => told'[q] = told[q]
      /\ open' \subseteq open /\ overlapped' = overlapped
      /\ \A q \in Requests, x \in Columns : <<q, x>> \in open' <=> (<<q, x>> \in open /\ q # r)
  BY Ends
<1>2. SettingTypes'
  BY <1>1 DEF SettingTypes
<1>3. Stands(r)'
  BY <1>1 DEF Stands, SettingLabels, CallLabels
<1>4. \A x \in Columns : <<r, x>> \notin open' /\ ~Holding(r, x)'
  BY <1>1 DEF Holding
<1>5. \A t \in Templates : \A x \in {Usage(t), Version(t)} : <<r, x>> \notin open'
  BY <1>4, ColumnsAre DEF Usage, Version
<1>6. QED
  BY <1>1, <1>2, <1>3, <1>4, <1>5 DEF Advancing

LEMMA MovesAdvance ==
    ASSUME SettingsHold, NEW r \in Requests, NEW l \in Labels, pc[r] # "done", Goto(r, l),
           UNCHANGED <<told, before, open, overlapped>>,
           UNCHANGED <<template, budget, written, named, lastSet>>,
           call' \in [Requests -> Calls \cup {NoCall}],
           row' \in [Requests -> TemplateRow \cup {NoRow}],
           \A q \in Requests : q # r =>
                call'[q] = call[q] /\ row'[q] = row[q] /\ loaded'[q] = loaded[q],
           loaded' \in [Requests -> Budget], faults' \in 0 .. MaxFaults,
           Stands(r)',
           \A x \in Columns :
                (Holding(r, x)' <=> Holding(r, x)) /\ (Holding(r, x) => row'[r] = row[r]),
           l \in {"upsert", "write"} => pc[r] \in {"upsert", "write"} /\ UNCHANGED call,
           l = "write" => loaded'[r] = budget
    PROVE  Advancing(r)
<1> USE DEF SettingsHold, SettingsInv, Standing
<1>1. /\ pc' \in [Requests -> Labels] /\ pc'[r] = l
      /\ \A q \in Requests : q # r => pc'[q] = pc[q]
  BY Moves DEF SettingTypes
<1>2. SettingTypes'
  BY <1>1 DEF SettingTypes
<1>3. \A x \in Columns : <<r, x>> \in open' <=> Holding(r, x)'
  BY DEF Opened
<1>4. \A q \in Requests, x \in Columns : q # r /\ <<q, x>> \in open /\ <<r, x>> \in open =>
        <<q, x>> \in overlapped /\ <<r, x>> \in overlapped
  BY DEF Opened
<1>5. \A t \in Templates : \A x \in {Usage(t), Version(t)} :
            <<r, x>> \in open => row'[r] = row[r]
  <2> TAKE t \in Templates
  <2> TAKE x \in {Usage(t), Version(t)}
  <2>1. x \in Columns
    BY ColumnsAre DEF Usage, Version
  <2>2. QED
    BY <2>1 DEF Opened
<1>6. QED
  BY <1>1, <1>2, <1>3, <1>4, <1>5 DEF Advancing, Path

LEMMA OpensAdvance ==
    ASSUME SettingsHold, NEW r \in Requests, NEW l \in Labels, NEW y \in Columns,
           pc[r] # "done", Goto(r, l), Opening(r, y),
           UNCHANGED <<told, loaded, template, budget, written, named, lastSet>>,
           call' \in [Requests -> Calls \cup {NoCall}],
           row' \in [Requests -> TemplateRow \cup {NoRow}], before' \in [Requests -> Budget],
           \A q \in Requests : q # r =>
                call'[q] = call[q] /\ row'[q] = row[q] /\ before'[q] = before[q],
           faults' \in 0 .. MaxFaults,
           Stands(r)', l # "write",
           \A x \in Columns : ~Holding(r, x) /\ (Holding(r, x)' <=> x = y),
           \A t \in Templates : y \in {Usage(t), Version(t)} => row'[r] = template[t],
           l = "upsert" /\ call'[r].path = "put_budget" => before'[r] = budget
    PROVE  Advancing(r)
<1> USE DEF SettingsHold, SettingsInv, Standing
<1>1. /\ pc' \in [Requests -> Labels] /\ pc'[r] = l
      /\ \A q \in Requests : q # r => pc'[q] = pc[q]
  BY Moves DEF SettingTypes
<1>2. /\ open' = open \cup {<<r, y>>}
      /\ open' \subseteq Requests \X Columns
      /\ overlapped \subseteq overlapped' /\ overlapped' \subseteq Requests \X Columns
      /\ \A q \in Requests : q # r /\ <<q, y>> \in open =>
                <<q, y>> \in overlapped' /\ <<r, y>> \in overlapped'
  BY Openings
<1>3. SettingTypes'
  BY <1>1, <1>2 DEF SettingTypes
<1>4. \A x \in Columns : <<r, x>> \notin open
  BY DEF Opened
<1>5. \A x \in Columns : <<r, x>> \in open' <=> x = y
  BY <1>2, <1>4
<1>6. \A q \in Requests, x \in Columns : q # r => (<<q, x>> \in open' <=> <<q, x>> \in open)
  BY <1>2
<1>7. \A q \in Requests, x \in Columns :
            q # r /\ <<q, x>> \in open /\ <<r, x>> \in open' =>
                <<q, x>> \in overlapped' /\ <<r, x>> \in overlapped'
  BY <1>2, <1>5
<1>8. \A t \in Templates : \A x \in {Usage(t), Version(t)} :
            <<r, x>> \in open' => row'[r] = template[t]
  <2> TAKE t \in Templates
  <2> TAKE x \in {Usage(t), Version(t)}
  <2>1. x \in Columns
    BY ColumnsAre DEF Usage, Version
  <2>2. QED
    BY <1>5, <2>1
<1>9. \A x \in Columns : <<r, x>> \in open' <=> Holding(r, x)'
  BY <1>5
<1>10. QED
  BY <1>1, <1>2, <1>3, <1>6, <1>7, <1>8, <1>9 DEF Advancing
-----------------------------------------------------------------------------
(* The steps of the settings *)

LEMMA FaultIs == Fault /\ faults \in 0 .. MaxFaults => faults' \in 0 .. MaxFaults
BY SettingsAssumption DEF Fault

LEMMA SettingOpens ==
    ASSUME SettingsHold, NEW r \in Requests, OpenSetting(r)
    PROVE  Advancing(r)
<1> USE DEF SettingsHold, Standing
<1>1. PICK c \in Calls :
        /\ call' = [call EXCEPT ![r] = c]
        /\ \/ (CreatePrompt(r, c) \/ GetPrompt(r, c) \/ PostBudget(r, c)) /\ UNCHANGED before
           \/ GetBudget(r, c)
  BY DEF OpenSetting
<1>2. /\ pc[r] = "idle" /\ told[r] = "none" /\ row[r] = NoRow
      /\ UNCHANGED <<loaded, template, budget, written, named, lastSet, faults>>
  BY DEF OpenSetting, At, Stands
<1>3. /\ call' \in [Requests -> Calls \cup {NoCall}] /\ call'[r] = c
      /\ \A q \in Requests : q # r => call'[q] = call[q]
      /\ faults' \in 0 .. MaxFaults
  BY <1>1, <1>2 DEF SettingTypes
<1>4. /\ c.path \in {"update", "delete"} => c.template \in Templates
      /\ c.template \in Templates => template[c.template] \in TemplateRow
  BY CallsAre DEF SettingTypes
<1>5. \A x \in Columns : ~Holding(r, x)
  BY <1>2 DEF Holding
<1>6. ASSUME NEW a \in Answers, End(r, a), UNCHANGED <<row, before>>
      PROVE  Advancing(r)
  BY <1>2, <1>3, <1>6, EndsAdvance
<1>7. ASSUME NEW l \in Labels, Goto(r, l)
      PROVE  pc'[r] = l
  BY <1>7 DEF Goto, SettingTypes
<1>8. {"conflict", "not_found"} \subseteq Answers /\ SettingLabels \subseteq Labels
  BY DEF Answers, Labels, SettingLabels
<1>9. CASE CreatePrompt(r, c) /\ UNCHANGED before
  <2>1. CASE End(r, "conflict")
    BY <1>6, <1>8, <1>9, <2>1 DEF CreatePrompt
  <2>2. CASE Goto(r, "insert") /\ UNCHANGED <<told, open, overlapped>>
    <3>1. c.path = "create" /\ UNCHANGED <<row, before>> /\ pc'[r] = "insert"
      BY <1>7, <1>8, <1>9, <2>2 DEF CreatePrompt, SettingLabels
    <3>2. Stands(r)'
      BY <1>2, <1>3, <2>2, <3>1 DEF Stands, SettingLabels, CallLabels, SettingPaths, Path
    <3>3. \A x \in Columns : ~Holding(r, x)'
      BY <3>1 DEF Holding
    <3>4. "insert" \in Labels
      BY <1>8 DEF SettingLabels
    <3>5. QED
      BY <1>2, <1>3, <1>5, <2>2, <3>1, <3>2, <3>3, <3>4, MovesAdvance DEF SettingTypes
  <2>3. QED
    BY <1>9, <2>1, <2>2 DEF CreatePrompt
<1>10. CASE GetPrompt(r, c) /\ UNCHANGED before
  <2>1. CASE template[c.template].state = "none"
    BY <1>6, <1>8, <1>10, <2>1 DEF GetPrompt
  <2>2. CASE template[c.template].state # "none"
    <3>1. /\ c.path \in {"update", "delete"} /\ c.template \in Templates
          /\ row' = [row EXCEPT ![r] = template[c.template]]
          /\ Goto(r, "store") /\ UNCHANGED told
          /\ IF "text" \in c.changes THEN Opening(r, <<"version", c.template>>)
                                     ELSE UNCHANGED <<open, overlapped>>
      BY <1>4, <1>10, <2>2 DEF GetPrompt
    <3>2. "store" \in Labels /\ pc'[r] = "store"
      BY <1>7, <1>8, <3>1 DEF SettingLabels
    <3>3. /\ row' \in [Requests -> TemplateRow \cup {NoRow}]
          /\ row'[r] = template[c.template]
          /\ \A q \in Requests : q # r => row'[q] = row[q]
      BY <1>4, <3>1 DEF SettingTypes
    <3>4. Stands(r)'
      BY <1>2, <1>3, <1>4, <2>2, <3>1, <3>2, <3>3
         DEF Stands, SettingLabels, CallLabels, SettingPaths, Path, Target
    <3>5. CASE "text" \in c.changes
      <4> DEFINE y == <<"version", c.template>>
      <4>1. y \in Columns /\ \A t \in Templates : y \in {Usage(t), Version(t)} => t = c.template
        BY <3>1, ColumnsAre DEF Usage, Version
      <4>2. \A x \in Columns : Holding(r, x)' <=> x = y
        BY <1>3, <3>2, <3>5 DEF Holding, Target
      <4>3. Opening(r, y)
        BY <3>1, <3>5
      <4>4. before' \in [Requests -> Budget]
        BY <1>10 DEF SettingTypes
      <4> HIDE DEF y
      <4>5. QED
        BY <1>2, <1>3, <1>5, <1>10, <3>1, <3>2, <3>3, <3>4, <4>1, <4>2, <4>3, <4>4, OpensAdvance
    <3>6. CASE "text" \notin c.changes
      <4>1. \A x \in Columns : ~Holding(r, x)'
        BY <1>3, <3>2, <3>6 DEF Holding
      <4>2. UNCHANGED <<open, overlapped>>
        BY <3>1, <3>6
      <4>3. QED
        BY <1>2, <1>3, <1>5, <1>10, <3>1, <3>2, <3>3, <3>4, <4>1, <4>2, MovesAdvance
           DEF SettingTypes
    <3>7. QED
      BY <3>5, <3>6
  <2>3. QED
    BY <2>1, <2>2
<1>11. CASE (PostBudget(r, c) /\ UNCHANGED before) \/ GetBudget(r, c)
  <2>1. CASE End(r, "not_found") /\ UNCHANGED <<row, before>>
    BY <1>6, <1>8, <2>1
  <2>2. CASE /\ Goto(r, "upsert") /\ Opening(r, <<"budget", NoTemplate>>)
             /\ UNCHANGED <<told, row>>
             /\ \/ c.path = "post_budget" /\ UNCHANGED before
                \/ c.path = "put_budget" /\ before' = [before EXCEPT ![r] = budget]
    <3> DEFINE y == <<"budget", NoTemplate>>
    <3>1. "upsert" \in Labels /\ pc'[r] = "upsert"
      BY <1>7, <1>8, <2>2 DEF SettingLabels
    <3>2. /\ before' \in [Requests -> Budget]
          /\ \A q \in Requests : q # r => before'[q] = before[q]
          /\ c.path = "put_budget" => before'[r] = budget
      BY <2>2 DEF SettingTypes
    <3>3. Stands(r)'
      BY <1>2, <1>3, <2>2, <3>1
         DEF Stands, SettingLabels, CallLabels, SettingPaths, Path, Target
    <3>4. y \in Columns /\ \A t \in Templates : y \notin {Usage(t), Version(t)}
      BY ColumnsAre DEF Usage, Version
    <3>5. \A x \in Columns : Holding(r, x)' <=> x = y
      BY <3>1 DEF Holding
    <3>6. Opening(r, y)
      BY <2>2
    <3> HIDE DEF y
    <3>7. row' \in [Requests -> TemplateRow \cup {NoRow}] /\ row' = row
      BY <2>2 DEF SettingTypes
    <3>8. QED
      BY <1>2, <1>3, <1>5, <2>2, <3>1, <3>2, <3>3, <3>4, <3>5, <3>6, <3>7, OpensAdvance
  <2>3. QED
    BY <1>11, <2>1, <2>2 DEF PostBudget, GetBudget
<1>12. QED
  BY <1>1, <1>9, <1>10, <1>11

LEMMA SettingLoads ==
    ASSUME SettingsHold, NEW r \in Requests, LoadBudget(r)
    PROVE  Advancing(r)
<1> USE DEF SettingsHold, Standing
<1>1. /\ pc[r] = "upsert" /\ loaded' = [loaded EXCEPT ![r] = budget] /\ Goto(r, "write")
      /\ UNCHANGED <<call, told, row, before, template, budget, faults>>
      /\ UNCHANGED <<open, overlapped, written, named, lastSet>>
  BY DEF LoadBudget, At, history
<1>2. "write" \in Labels /\ pc'[r] = "write"
  BY <1>1 DEF Labels, Goto, SettingTypes
<1>3. /\ loaded' \in [Requests -> Budget] /\ loaded'[r] = budget
      /\ \A q \in Requests : q # r => loaded'[q] = loaded[q]
  BY <1>1 DEF SettingTypes
<1>4. Stands(r)'
  BY <1>1, <1>2 DEF Stands, SettingLabels, CallLabels, Path
<1>5. \A x \in Columns : Holding(r, x)' <=> Holding(r, x)
  BY <1>1, <1>2 DEF Holding, Target
<1>6. /\ call' \in [Requests -> Calls \cup {NoCall}]
      /\ row' \in [Requests -> TemplateRow \cup {NoRow}] /\ faults' \in 0 .. MaxFaults
  BY <1>1 DEF SettingTypes
<1>7. QED
  BY <1>1, <1>2, <1>3, <1>4, <1>5, <1>6, MovesAdvance

LEMMA SettingEnds ==
    ASSUME SettingsHold, NEW r \in Requests, SettingFails(r)
    PROVE  Advancing(r)
<1> USE DEF SettingsHold, Standing
<1>1. /\ pc[r] \in SettingLabels /\ Fault /\ End(r, "error")
      /\ UNCHANGED <<call, row, before, loaded, template, budget, written, named, lastSet>>
  BY DEF SettingFails, SettingLabels
<1>2. call[r] \in Calls /\ pc[r] # "done" /\ "error" \in Answers
  BY <1>1 DEF Stands, SettingLabels, Answers
<1>3. faults' \in 0 .. MaxFaults /\ call' \in [Requests -> Calls \cup {NoCall}]
  BY <1>1, FaultIs DEF SettingTypes
<1>4. QED
  BY <1>1, <1>2, <1>3, EndsAdvance

(* A request that ends with a write *)
LEMMA EndsWriting ==
    ASSUME SettingsHold, NEW r \in Requests, NEW a \in Answers, End(r, a),
           pc[r] \notin {"idle", "done"}, UNCHANGED <<call, row, before, loaded>>,
           template' \in [Templates -> TemplateRow],
           \A t \in Templates : template[t].state # "none" => template'[t].state # "none",
           written' \subseteq Requests \X Columns,
           \A q \in Requests, x \in Columns : <<q, x>> \in written' =>
                <<q, x>> \in written \/ q = r,
           named' \in [Requests -> Nat], budget' \in Budget, lastSet' \in Budget,
           faults' \in 0 .. MaxFaults
    PROVE  /\ Standing' /\ Opened'
           /\ \A t \in Templates : HoldersRead(t, Usage(t)) /\ HoldersRead(t, Version(t))
           /\ overlapped' = overlapped /\ pc'[r] = "done"
           /\ \A q \in Requests : q # r => pc'[q] = pc[q]
           /\ \A x \in Columns : <<r, x>> \notin open'
           /\ open' \subseteq open
           /\ UNCHANGED <<budget, lastSet>> => BudgetOf'
<1> USE DEF SettingsHold, SettingsInv, Standing
<1>1. /\ pc' \in [Requests -> Labels] /\ pc'[r] = "done"
      /\ \A q \in Requests : q # r => pc'[q] = pc[q]
      /\ told' \in [Requests -> Answers] /\ told'[r] = a
      /\ \A q \in Requests : q # r => told'[q] = told[q]
      /\ open' \subseteq open /\ overlapped' = overlapped
      /\ \A q \in Requests, x \in Columns : <<q, x>> \in open' <=> (<<q, x>> \in open /\ q # r)
  BY Ends
<1>2. SettingTypes'
  BY <1>1 DEF SettingTypes
<1>3. Stands(r)'
  <2>1. call[r] \in Calls
    BY DEF Stands
  <2>2. QED
    BY <1>1, <2>1 DEF Stands, SettingLabels, CallLabels
<1>4. ASSUME NEW q \in Requests, q # r
      PROVE  Stands(q)'
  <2>1. pc[q] = "store" => Target(q) \in Templates
    BY Asked DEF Stands
  <2>3. pc[q] = "finish" /\ row[q] # NoRow => Target(q) \in Templates
    BY Asked DEF Stands
  <2>2. QED
    BY <1>1, <1>4, <2>1, <2>3, OthersStand DEF Writing
<1>5. Standing'
  BY <1>2, <1>3, <1>4
<1>6. Opened'
  <2>1. \A x \in Columns : <<r, x>> \in open' <=> Holding(r, x)'
    BY <1>1 DEF Holding
  <2>2. \A q \in Requests, x \in Columns :
            <<q, x>> \in written' => <<q, x>> \in written \/ pc'[q] = "done"
    BY <1>1
  <2>3. QED
    BY <1>1, <2>1, <2>2, OpenedNext
<1>7. \A t \in Templates : HoldersRead(t, Usage(t)) /\ HoldersRead(t, Version(t))
  BY <1>1 DEF HoldersRead
<1>8. UNCHANGED <<budget, lastSet>> => BudgetOf'
  <2>1. \A q \in Requests : pc'[q] \in {"upsert", "write"} => pc[q] = pc'[q]
    BY <1>1
  <2>2. QED
    BY <1>1, <2>1, BudgetUnwritten DEF Path
<1>9. QED
  BY <1>1, <1>5, <1>6, <1>7, <1>8

LEMMA SettingInserts ==
    ASSUME SettingsHold, NEW r \in Requests, InsertPrompt(r)
    PROVE  SettingsHold'
<1> USE DEF SettingsHold, Standing
<1>1. PICK t \in Templates :
        /\ template[t].state = "none"
        /\ IF Collides(t)
           THEN End(r, "error") /\ UNCHANGED template
           ELSE /\ End(r, "ok")
                /\ template' = [template EXCEPT ![t] =
                                  [state |-> "active", version |-> 1, usage |-> 0]]
  BY DEF InsertPrompt
<1>2. /\ pc[r] = "insert" /\ call[r] \in Calls
      /\ UNCHANGED <<call, row, before, loaded, budget, written, named, lastSet, faults>>
  BY DEF InsertPrompt, At, Stands
<1>3. /\ faults' \in 0 .. MaxFaults /\ call' \in [Requests -> Calls \cup {NoCall}]
      /\ {"ok", "error"} \subseteq Answers
  BY <1>2 DEF SettingTypes, Answers
<1>4. CASE Collides(t)
  <2>1. Advancing(r)
    BY <1>1, <1>2, <1>3, <1>4, EndsAdvance
  <2>2. QED
    BY <2>1, Advances
<1>5. CASE ~Collides(t)
  <2>1. /\ End(r, "ok")
        /\ template' = [template EXCEPT ![t] = [state |-> "active", version |-> 1, usage |-> 0]]
    BY <1>1, <1>5
  <2>2. /\ template' \in [Templates -> TemplateRow]
        /\ template'[t] = [state |-> "active", version |-> 1, usage |-> 0]
        /\ \A u \in Templates : u # t => template'[u] = template[u]
    BY <2>1 DEF SettingTypes, TemplateRow
  <2>3. \A u \in Templates : template[u].state # "none" => template'[u].state # "none"
    BY <1>1, <2>2
  <2>4. /\ written' \subseteq Requests \X Columns /\ named' \in [Requests -> Nat]
        /\ budget' \in Budget /\ lastSet' \in Budget
    BY <1>2 DEF SettingTypes
  <2>5. /\ Standing' /\ Opened' /\ overlapped' = overlapped /\ BudgetOf'
        /\ \A u \in Templates : HoldersRead(u, Usage(u)) /\ HoldersRead(u, Version(u))
    BY <1>2, <1>3, <2>1, <2>2, <2>3, <2>4, EndsWriting
  <2>6. \A x : Writers(x)' = Writers(x) /\ Alone(x)' = Alone(x)
    BY <1>2, <2>5 DEF Writers, Alone
  <2>7. ASSUME NEW u \in Templates
        PROVE  UsageOf(u)' /\ VersionOf(u)'
    <3>1. UsageOf(u) /\ VersionOf(u)
      BY DEF SettingsInv
    <3>2. u = t => template[u].usage = 0 /\ template[u].version = 0
      BY <1>1, <3>1 DEF VersionOf
    <3>3. template'[u].usage = template[u].usage
      BY <2>2, <3>2
    <3>4. template[u].version <= template'[u].version
      <4>1. template[u].version \in Nat
        BY DEF SettingTypes, TemplateRow
      <4>2. QED
        BY <2>2, <3>2, <4>1
    <3>5. template'[u].state = "none" => template'[u] = template[u]
      BY <2>2
    <3>6. UsageOf(u)'
      BY <2>5, <2>6, <3>1, <3>3, UsageUnwritten DEF SettingsInv
    <3>7. VersionOf(u)'
      BY <1>2, <2>2, <2>5, <2>6, <3>1, <3>4, <3>5, VersionUnwritten
    <3>8. QED
      BY <3>6, <3>7
  <2>8. QED
    BY <2>5, <2>7 DEF SettingsInv
<1>6. QED
  BY <1>4, <1>5

(* A new text: its version exceeds those of all updates that were alone *)
LEMMA VersionWritten ==
    ASSUME SettingsHold, Standing', NEW r \in Requests, NEW t \in Templates,
           pc[r] = "store", Target(r) = t, "text" \in call[r].changes,
           overlapped' = overlapped, open' = Closed(r), row' = row,
           written' = written \cup {<<r, Version(t)>>},
           template'[t].version = row[r].version + 1, template'[t].state # "none",
           named' = [named EXCEPT ![r] = row[r].version + 1]
    PROVE  VersionOf(t)'
<1> USE DEF SettingsHold, SettingsInv, Standing
<1>1. Version(t) \in Columns
  BY ColumnsAre DEF Version
<1>2. <<r, Version(t)>> \in open
  BY <1>1 DEF Opened, Holding, Version
<1>3. r \notin Alone(Version(t))
  BY <1>1 DEF Alone, Writers, Opened
<1>4. /\ row[r].version \in Nat
      /\ \A w \in Alone(Version(t)) : named[w] \in Nat /\ named[w] <= row[r].version
  BY <1>2 DEF VersionOf, Stands, TemplateRow, SettingTypes, Alone, Writers
<1>5. \A w \in Alone(Version(t)) : named'[w] = named[w] /\ w # r
  BY <1>3 DEF SettingTypes, Alone, Writers
<1>6. named'[r] = row[r].version + 1
  BY DEF SettingTypes
<1>7. Alone(Version(t))' \subseteq Alone(Version(t)) \cup {r}
  BY DEF Alone, Writers
<1>8. ASSUME NEW w \in Alone(Version(t))'
      PROVE  named'[w] <= row[r].version + 1
  BY <1>4, <1>5, <1>6, <1>7
<1>9. ASSUME NEW w \in Alone(Version(t))', NEW q \in Requests, <<q, Version(t)>> \in open'
      PROVE  named'[w] <= row[q].version
  <2>1. <<q, Version(t)>> \in open /\ q # r
    BY <1>9 DEF Closed
  <2>2. CASE w = r
    <3>1. r \notin {p \in Requests : <<p, Version(t)>> \in overlapped}
      BY <1>9, <2>2 DEF Alone
    <3>2. QED
      BY <1>1, <1>2, <2>1, <3>1 DEF Opened
  <2>3. CASE w # r
    BY <1>5, <1>7, <1>9, <2>1, <2>3 DEF VersionOf
  <2>4. QED
    BY <2>2, <2>3
<1>10. ASSUME NEW v \in Alone(Version(t))', NEW w \in Alone(Version(t))', v # w
       PROVE  named'[v] # named'[w]
  <2>1. \A u \in Alone(Version(t)) : named'[u] # named'[r]
    <3>1. \A m, n \in Nat : m <= n => m # n + 1
      OBVIOUS
    <3>2. QED
      BY <1>4, <1>5, <1>6, <3>1
  <2>2. v \in Alone(Version(t)) /\ w \in Alone(Version(t)) => named'[v] # named'[w]
    BY <1>5, <1>10 DEF VersionOf
  <2>3. QED
    BY <1>7, <1>10, <2>1, <2>2
<1>11. QED
  BY <1>8, <1>9, <1>10 DEF VersionOf, Version

LEMMA MergedIs ==
    ASSUME NEW r \in Requests, NEW now \in TemplateRow
    PROVE  LET state == IF Wanted(r) # row[r].state THEN Wanted(r) ELSE now.state
               version == IF "text" \in call[r].changes THEN row[r].version + 1
                          ELSE now.version
           IN  Merged(r, now) = [state |-> state, version |-> version, usage |-> now.usage]
<1> DEFINE state == IF Wanted(r) # row[r].state THEN Wanted(r) ELSE now.state
           version == IF "text" \in call[r].changes THEN row[r].version + 1 ELSE now.version
<1>1. now = [state |-> now.state, version |-> now.version, usage |-> now.usage]
  BY DEF TemplateRow
<1>2. Merged(r, now) = [now EXCEPT !.state = state, !.version = version]
  BY Zenon DEF Merged
<1> HIDE DEF state, version
<1>3. [now EXCEPT !.state = state, !.version = version] =
        [state |-> state, version |-> version, usage |-> now.usage]
  <2>1. DOMAIN now = {"state", "version", "usage"}
    BY <1>1
  <2>2. [now EXCEPT !.state = state, !.version = version] =
          [f \in {"state", "version", "usage"} |->
             IF f = "version" THEN version ELSE IF f = "state" THEN state ELSE now[f]]
    BY <2>1, Zenon
  <2>3. QED
    BY <2>2
<1>4. QED
  BY <1>2, <1>3 DEF state, version

LEMMA SettingStores ==
    ASSUME SettingsHold, NEW r \in Requests, StorePrompt(r)
    PROVE  SettingsHold'
<1> USE DEF SettingsHold, Standing
<1> DEFINE t == Target(r)
           new == Merged(r, template[t])
<1>1. /\ pc[r] = "store"
      /\ IF new.state = "active" /\ Collides(t)
         THEN End(r, "error") /\ UNCHANGED <<template, written, named>>
         ELSE /\ End(r, "ok")
              /\ template' = [template EXCEPT ![t] = new]
              /\ IF "text" \in call[r].changes
                 THEN /\ written' = written \cup {<<r, <<"version", t>>>>}
                      /\ named' = [named EXCEPT ![r] = new.version]
                 ELSE UNCHANGED <<written, named>>
      /\ UNCHANGED <<call, row, before, loaded, budget, lastSet, faults>>
  BY DEF StorePrompt, At
<1>2. /\ t \in Templates /\ row[r] \in TemplateRow /\ template[t] \in TemplateRow
      /\ call[r] \in Calls /\ template[t].state # "none"
  BY <1>1, Asked DEF Stands, SettingTypes
<1>3. /\ faults' \in 0 .. MaxFaults /\ call' \in [Requests -> Calls \cup {NoCall}]
      /\ {"ok", "error"} \subseteq Answers
  BY <1>1 DEF SettingTypes, Answers
<1>4. /\ new \in TemplateRow
      /\ new.usage = template[t].usage
      /\ new.version = IF "text" \in call[r].changes THEN row[r].version + 1
                       ELSE template[t].version
      /\ new.state # "none"
  <2>1. /\ Wanted(r) \in {"active", "archived"} \/ Wanted(r) = row[r].state
        /\ Wanted(r) \in {"none", "active", "archived"}
    BY <1>2 DEF Wanted, TemplateRow
  <2>2. /\ row[r].version + 1 \in Nat
        /\ template[t].state \in {"active", "archived"}
        /\ template[t].version \in Nat /\ template[t].usage \in Nat
    BY <1>2 DEF TemplateRow
  <2> DEFINE s == IF Wanted(r) # row[r].state THEN Wanted(r) ELSE template[t].state
             v == IF "text" \in call[r].changes THEN row[r].version + 1
                  ELSE template[t].version
  <2>3. new = [state |-> s, version |-> v, usage |-> template[t].usage]
    BY <1>2, MergedIs
  <2>4. s \in {"active", "archived"} /\ v \in Nat
    BY <2>1, <2>2
  <2>5. v = IF "text" \in call[r].changes THEN row[r].version + 1 ELSE template[t].version
    OBVIOUS
  <2> HIDE DEF s, v
  <2>6. QED
    BY <2>2, <2>3, <2>4, <2>5 DEF TemplateRow
<1> HIDE DEF new
<1>5. CASE new.state = "active" /\ Collides(t)
  <2>1. Advancing(r)
    BY <1>1, <1>2, <1>3, <1>5, EndsAdvance
  <2>2. QED
    BY <2>1, Advances
<1>6. CASE ~(new.state = "active" /\ Collides(t))
  <2>1. /\ End(r, "ok")
        /\ template' = [template EXCEPT ![t] = new]
        /\ IF "text" \in call[r].changes
           THEN /\ written' = written \cup {<<r, Version(t)>>}
                /\ named' = [named EXCEPT ![r] = row[r].version + 1]
           ELSE UNCHANGED <<written, named>>
    BY <1>1, <1>4, <1>6 DEF Version
  <2>2. /\ template' \in [Templates -> TemplateRow] /\ template'[t] = new
        /\ \A u \in Templates : u # t => template'[u] = template[u]
    BY <1>2, <1>4, <2>1 DEF SettingTypes
  <2>3. \A u \in Templates : template[u].state # "none" => template'[u].state # "none"
    BY <1>4, <2>2
  <2>4. row[r].version + 1 \in Nat
    BY <1>2 DEF TemplateRow
  <2>5. /\ written' \subseteq Requests \X Columns /\ named' \in [Requests -> Nat]
        /\ budget' \in Budget /\ lastSet' \in Budget
        /\ \A q \in Requests, x \in Columns : <<q, x>> \in written' =>
                <<q, x>> \in written \/ q = r
    <3>1. Version(t) \in Columns
      BY <1>2, ColumnsAre DEF Version
    <3>2. QED
      BY <1>1, <2>1, <2>4, <3>1 DEF SettingTypes
  <2>6. /\ Standing' /\ Opened' /\ overlapped' = overlapped /\ BudgetOf'
        /\ \A u \in Templates : HoldersRead(u, Usage(u)) /\ HoldersRead(u, Version(u))
    BY <1>1, <1>3, <2>1, <2>2, <2>3, <2>5, EndsWriting
  <2>7. \A u \in Templates : Usage(u) # Version(t) /\ (u # t => Version(u) # Version(t))
    BY DEF Usage, Version
  <2>8. ASSUME NEW u \in Templates
        PROVE  UsageOf(u)'
    <3>1. Writers(Usage(u))' = Writers(Usage(u)) /\ Alone(Usage(u))' = Alone(Usage(u))
      BY <2>1, <2>6, <2>7 DEF Writers, Alone
    <3>2. template'[u].usage = template[u].usage
      BY <1>4, <2>2
    <3>3. QED
      BY <2>6, <3>1, <3>2, UsageUnwritten DEF SettingsInv
  <2>9. ASSUME NEW u \in Templates
        PROVE  VersionOf(u)'
    <3>1. CASE u = t /\ "text" \in call[r].changes
      <4>1. /\ written' = written \cup {<<r, Version(t)>>}
            /\ named' = [named EXCEPT ![r] = row[r].version + 1]
            /\ template'[t].version = row[r].version + 1 /\ template'[t].state # "none"
        BY <1>4, <2>1, <2>2, <3>1
      <4>2. open' = Closed(r)
        BY <2>1 DEF End
      <4>3. QED
        BY <1>1, <1>2, <2>6, <3>1, <4>1, <4>2, VersionWritten
    <3>2. CASE u # t \/ "text" \notin call[r].changes
      <4>1. Alone(Version(u))' \subseteq Alone(Version(u))
        BY <2>1, <2>6, <2>7, <3>2 DEF Writers, Alone
      <4>2. \A w \in Alone(Version(u))' : named'[w] = named[w]
        <5>1. CASE "text" \notin call[r].changes
          BY <2>1, <5>1
        <5>2. CASE u # t /\ "text" \in call[r].changes
          <6>1. Version(u) \in Columns
            BY ColumnsAre DEF Version
          <6>2. r \notin Alone(Version(u))
            BY <1>1, <6>1 DEF Alone, Writers, SettingsInv, Opened
          <6>3. \A w \in Alone(Version(u)) : w \in Requests /\ w # r
            BY <6>2 DEF Alone, Writers
          <6>4. QED
            BY <2>1, <4>1, <5>2, <6>3 DEF SettingTypes
        <5>3. QED
          BY <3>2, <5>1, <5>2
      <4>3. /\ template'[u] \in TemplateRow
            /\ template'[u].state = "none" => template'[u] = template[u]
        BY <1>4, <2>2
      <4>4. template[u].version <= template'[u].version
        <5>1. template[u].version \in Nat
          BY DEF SettingTypes, TemplateRow
        <5>2. template'[u].version = template[u].version
          BY <1>4, <2>2, <3>2
        <5>3. QED
          BY <5>1, <5>2
      <4>5. QED
        BY <2>6, <4>1, <4>2, <4>3, <4>4, VersionUnwritten DEF SettingsInv
    <3>3. QED
      BY <3>1, <3>2
  <2>10. QED
    BY <2>6, <2>8, <2>9 DEF SettingsInv
<1>7. QED
  BY <1>5, <1>6

(* The fields that a request gives are its own; those it leaves alone are as it read
   them first, or nobody wrote them meanwhile *)
LEMMA SettingWrites ==
    ASSUME SettingsHold, NEW r \in Requests, WriteBudget(r)
    PROVE  SettingsHold'
<1> USE DEF SettingsHold, SettingsInv, Standing
<1>1. /\ pc[r] = "write"
      /\ UNCHANGED <<call, row, before, loaded, template, written, named, faults>>
  BY DEF WriteBudget, At
<1>2. /\ call[r] \in Calls /\ Path(r) \in {"post_budget", "put_budget"}
      /\ Path(r) = "post_budget" => call[r].changes = Fields
  BY <1>1, Asked DEF Stands
<1>3. /\ faults' \in 0 .. MaxFaults /\ call' \in [Requests -> Calls \cup {NoCall}]
      /\ {"ok", "error"} \subseteq Answers
  BY <1>1 DEF SettingTypes, Answers
<1>4. CASE End(r, "error") /\ UNCHANGED <<budget, lastSet>>
  <2>1. Advancing(r)
    BY <1>1, <1>2, <1>3, <1>4, EndsAdvance
  <2>2. QED
    BY <2>1, Advances
<1>5. CASE /\ End(r, "ok")
           /\ budget' = [f \in Fields |-> IF Given(r, f) # loaded[r][f]
                                          THEN Given(r, f) ELSE budget[f]]
           /\ lastSet' = [f \in Fields |-> IF f \in call[r].changes THEN r ELSE lastSet[f]]
  <2>1. /\ before[r] \in Budget /\ loaded[r] \in Budget /\ budget \in Budget
        /\ lastSet \in Budget
    BY DEF SettingTypes
  <2>2. \A f \in Fields : Given(r, f) \in Requests \cup {Unset}
    BY <2>1 DEF Given, Budget
  <2>3. budget' \in Budget /\ lastSet' \in Budget
    BY <1>5, <2>1, <2>2 DEF Budget
  <2>4. /\ template' \in [Templates -> TemplateRow] /\ named' \in [Requests -> Nat]
        /\ written' \subseteq Requests \X Columns
    BY <1>1 DEF SettingTypes
  <2>5. /\ Standing' /\ Opened' /\ overlapped' = overlapped /\ pc'[r] = "done"
        /\ \A t \in Templates : HoldersRead(t, Usage(t)) /\ HoldersRead(t, Version(t))
        /\ \A q \in Requests : q # r => pc'[q] = pc[q]
    BY <1>1, <1>3, <1>5, <2>3, <2>4, EndsWriting
  <2>6. \A t \in Templates : UsageOf(t)' /\ VersionOf(t)'
    BY <1>1, <2>5, Unwritten
  <2>7. TheBudget \in Columns /\ <<r, TheBudget>> \in open
    BY <1>1, ColumnsAre DEF TheBudget, Opened, Holding
  <2>8. ASSUME NEW q \in Requests, q # r, pc'[q] \in {"upsert", "write"}
        PROVE  <<q, TheBudget>> \in overlapped /\ <<r, TheBudget>> \in overlapped
    <3>1. <<q, TheBudget>> \in open
      BY <2>5, <2>7, <2>8 DEF TheBudget, Opened, Holding
    <3>2. QED
      BY <2>7, <2>8, <3>1 DEF Opened
  <2>9. ASSUME NEW f \in Fields, budget'[f] # lastSet'[f]
        PROVE  <<lastSet'[f], TheBudget>> \in overlapped
    <3>1. /\ budget'[f] = IF Given(r, f) # loaded[r][f] THEN Given(r, f) ELSE budget[f]
          /\ lastSet'[f] = IF f \in call[r].changes THEN r ELSE lastSet[f]
      BY <1>5
    <3>2. CASE f \in call[r].changes
      <4>1. lastSet'[f] = r /\ Given(r, f) = r
        BY <3>1, <3>2 DEF Given
      <4>2. loaded[r][f] = r /\ budget[f] # r
        BY <2>9, <3>1, <4>1
      <4>3. loaded[r] # budget
        BY <4>2
      <4>4. <<r, TheBudget>> \in overlapped
        BY <1>1, <4>3 DEF BudgetOf
      <4>5. QED
        BY <4>1, <4>4
    <3>3. CASE f \notin call[r].changes
      <4>1. lastSet'[f] = lastSet[f] /\ Given(r, f) = before[r][f] /\ Path(r) = "put_budget"
        BY <1>2, <3>1, <3>3 DEF Given
      <4>2. budget[f] # lastSet[f] \/ before[r][f] # lastSet[f]
        BY <2>9, <3>1, <4>1
      <4>3. QED
        BY <1>1, <4>1, <4>2 DEF BudgetOf
    <3>4. QED
      BY <3>2, <3>3
  <2>10. ASSUME NEW q \in Requests, pc'[q] \in {"upsert", "write"}, Path(q)' = "put_budget",
                NEW f \in Fields, before'[q][f] # lastSet'[f]
         PROVE  <<lastSet'[f], TheBudget>> \in overlapped
    <3>1. q # r
      BY <2>5, <2>10
    <3>2. CASE f \in call[r].changes
      BY <1>5, <2>8, <2>10, <3>1, <3>2
    <3>3. CASE f \notin call[r].changes
      <4>1. lastSet'[f] = lastSet[f] /\ before'[q] = before[q] /\ pc'[q] = pc[q]
            /\ Path(q) = "put_budget"
        BY <1>1, <1>5, <2>5, <2>10, <3>1, <3>3 DEF Path
      <4>2. QED
        BY <2>10, <4>1 DEF BudgetOf
    <3>4. QED
      BY <3>2, <3>3
  <2>11. ASSUME NEW q \in Requests, pc'[q] = "write", <<q, TheBudget>> \notin overlapped
         PROVE  loaded'[q] = budget'
    <3>1. q # r
      BY <2>5, <2>11
    <3>2. QED
      BY <2>8, <2>11, <3>1
  <2>12. BudgetOf'
    BY <2>5, <2>9, <2>10, <2>11 DEF BudgetOf, TheBudget
  <2>13. QED
    BY <2>5, <2>6, <2>12
<1>6. QED
  BY <1>4, <1>5 DEF WriteBudget

LEMMA SettingSteps ==
    ASSUME SettingsHold, NEW r \in Requests, SettingStep(r)
    PROVE  SettingsHold'
BY SettingOpens, SettingLoads, SettingEnds, SettingInserts, SettingStores, SettingWrites,
   Advances DEF SettingStep
-----------------------------------------------------------------------------
(* The steps of the calls, as far as the settings are concerned *)

(* Only the search of rag_query asks for types *)
Inferring(r) == pc[r] \in CallLabels /\ round[r] = "infer" => Path(r) = "rag"

LEMMA LabelsAre ==
    /\ CallLabels \subseteq Labels /\ "done" \in Labels /\ "idle" \notin CallLabels
    /\ "done" \notin CallLabels /\ SettingLabels \cap CallLabels = {}
    /\ SettingPaths \cap LlmPaths = {}
BY DEF Labels, CallLabels, SettingLabels, SettingPaths, LlmPaths

LEMMA AnswersAre ==
    {"none", "ok", "conflict", "not_found", "error", "blocked", "no_answer", "lost"} = Answers
BY DEF Answers

LEMMA CallMoves ==
    ASSUME SettingsHold, NEW r \in Requests, NEW l \in CallLabels, Goto(r, l),
           pc[r] \in {"idle"} \cup CallLabels, pc[r] = "finish" => l = "finish",
           UNCHANGED <<told, open, overlapped, row, before, loaded, template, budget>>,
           UNCHANGED <<written, named, lastSet>>,
           call' \in [Requests -> Calls \cup {NoCall}],
           \A q \in Requests : q # r => call'[q] = call[q],
           call'[r] \in Calls, pc[r] # "idle" => call'[r] = call[r],
           call'[r].path \in LlmPaths, l = "respond" => call'[r].path = "stream",
           l \in {"template", "usage", "finish"} => call'[r].path # "stream",
           l = "usage" => call'[r].template # NoTemplate,
           faults' \in 0 .. MaxFaults
    PROVE  Advancing(r)
<1> USE DEF SettingsHold, Standing
<1>1. l \in Labels /\ pc[r] # "done" /\ l \notin {"done", "idle", "store", "upsert", "write"}
  BY LabelsAre DEF CallLabels
<1>2. pc'[r] = l
  BY <1>1 DEF Goto, SettingTypes
<1>3. /\ pc[r] # "finish" => row[r] = NoRow
      /\ told[r] = "none"
      /\ pc[r] = "finish" /\ row[r] # NoRow =>
            Target(r) # NoTemplate /\ template[Target(r)].state # "none"
  BY <1>1 DEF Stands
<1>4. Stands(r)'
  BY <1>1, <1>2, <1>3 DEF Stands, SettingLabels, CallLabels, Path, Target
<1>5. \A x \in Columns : Holding(r, x)' <=> Holding(r, x)
  BY <1>1, <1>2, <1>3 DEF Holding, Target, CallLabels
<1>6. /\ row' \in [Requests -> TemplateRow \cup {NoRow}] /\ loaded' \in [Requests -> Budget]
  BY DEF SettingTypes
<1>7. QED
  BY <1>1, <1>4, <1>5, <1>6, MovesAdvance

LEMMA Called ==
    ASSUME SettingsHold, NEW r \in Requests, pc[r] \in CallLabels
    PROVE  /\ call[r] \in Calls /\ Path(r) \in LlmPaths /\ pc[r] # "done"
           /\ call \in [Requests -> Calls \cup {NoCall}] /\ faults \in 0 .. MaxFaults
           /\ pc[r] = "respond" => Path(r) = "stream"
           /\ pc[r] \in {"template", "usage", "finish"} => Path(r) # "stream"
           /\ pc[r] = "usage" => Target(r) \in Templates
           /\ pc[r] # "finish" => row[r] = NoRow
BY LabelsAre, Asked DEF SettingsHold, Standing, Stands, SettingTypes, CallLabels

(* Without an answer of the gateway *)
LEMMA NoAnswers ==
    ASSUME SettingsHold, NEW r \in Requests, Inferring(r), NoAnswer(r),
           pc[r] \in {"rate", "model"}, quiet, UNCHANGED <<row, template, written>>,
           UNCHANGED faults
    PROVE  Advancing(r)
<1>1. /\ call[r] \in Calls /\ Path(r) \in LlmPaths /\ pc[r] # "done"
      /\ call \in [Requests -> Calls \cup {NoCall}] /\ faults \in 0 .. MaxFaults
  BY Called DEF CallLabels
<1>2. UNCHANGED <<call, before, loaded, budget, named, lastSet>>
  BY DEF quiet
<1>3. CASE End(r, "error")
  BY <1>1, <1>2, <1>3, AnswersAre, EndsAdvance
<1>4. CASE Goto(r, "template") /\ round[r] = "infer" /\ UNCHANGED <<told, open, overlapped>>
  <2>1. Path(r) = "rag"
    BY <1>4 DEF Inferring, CallLabels
  <2>2. "template" \in CallLabels /\ pc[r] \in CallLabels
    BY DEF CallLabels
  <2>3. QED
    BY <1>1, <1>2, <1>4, <2>1, <2>2, CallMoves DEF Path
<1>5. CASE Goto(r, "finish") /\ Path(r) = "rag" /\ UNCHANGED <<told, open, overlapped>>
  <2>1. "finish" \in CallLabels /\ pc[r] \in CallLabels
    BY DEF CallLabels
  <2>2. QED
    BY <1>1, <1>2, <1>5, <2>1, CallMoves DEF Path
<1>6. QED
  BY <1>3, <1>4, <1>5 DEF NoAnswer

LEMMA CallOpens ==
    ASSUME SettingsHold, NEW r \in Requests, OpenCall(r)
    PROVE  Advancing(r)
<1> USE DEF SettingsHold, Standing
<1>1. PICK c \in Calls :
        /\ c.path \in LlmPaths
        /\ call' = [call EXCEPT ![r] = c]
        /\ LogCheck(r, "input", IF c.clean THEN "allowed" ELSE "blocked")
        /\ IF ~ Passes(c) THEN End(r, "blocked") /\ UNCHANGED round
           ELSE /\ Goto(r, IF c.path = "stream" THEN "respond"
                            ELSE IF c.path = "rag" THEN "rate" ELSE "template")
                /\ round' = [round EXCEPT ![r] = IF c.path = "rag" THEN "infer" ELSE "answer"]
                /\ UNCHANGED <<told, open, overlapped>>
  BY DEF OpenCall
<1>2. /\ pc[r] = "idle"
      /\ UNCHANGED <<row, before, loaded, template, budget, written, named, lastSet>>
  BY DEF OpenCall, At
<1>3. /\ call' \in [Requests -> Calls \cup {NoCall}] /\ call'[r] = c
      /\ \A q \in Requests : q # r => call'[q] = call[q]
  BY <1>1 DEF SettingTypes
<1>4. faults' \in 0 .. MaxFaults
  <2>1. Fault \/ UNCHANGED faults
    BY <1>1 DEF LogCheck
  <2>2. QED
    BY <2>1, FaultIs DEF SettingTypes
<1>5. CASE ~Passes(c)
  BY <1>1, <1>2, <1>3, <1>4, <1>5, AnswersAre, EndsAdvance
<1>6. CASE Passes(c)
  <2>1. PICK l \in {"respond", "rate", "template"} :
            /\ Goto(r, l)
            /\ l = "respond" => c.path = "stream"
            /\ l = "template" => c.path # "stream"
    BY <1>1, <1>6
  <2>2. l \in CallLabels /\ l \notin {"usage", "finish"}
    BY DEF CallLabels
  <2>3. UNCHANGED <<told, open, overlapped>>
    BY <1>1, <1>6
  <2>4. QED
    BY <1>1, <1>2, <1>3, <1>4, <2>1, <2>2, <2>3, CallMoves
<1>7. QED
  BY <1>5, <1>6

LEMMA CallResponds ==
    ASSUME SettingsHold, NEW r \in Requests, Respond(r)
    PROVE  Advancing(r)
<1>1. pc[r] = "respond" /\ pc[r] \in CallLabels
  BY DEF Respond, At, CallLabels
<1>2. /\ call[r] \in Calls /\ Path(r) \in LlmPaths /\ pc[r] # "done"
      /\ call \in [Requests -> Calls \cup {NoCall}] /\ faults \in 0 .. MaxFaults
  BY <1>1, Called
<1>3. UNCHANGED <<call, row, before, loaded, template, budget, written, named, lastSet, faults>>
  BY DEF Respond, quiet
<1>4. CASE End(r, "error")
  BY <1>2, <1>3, <1>4, AnswersAre, EndsAdvance
<1>5. CASE Goto(r, "rate") /\ UNCHANGED <<told, open, overlapped>>
  <2>1. "rate" \in CallLabels
    BY DEF CallLabels
  <2>2. QED
    BY <1>1, <1>2, <1>3, <1>5, <2>1, CallMoves DEF Path
<1>6. QED
  BY <1>4, <1>5 DEF Respond

LEMMA CallRenders ==
    ASSUME SettingsHold, NEW r \in Requests, RenderTemplate(r)
    PROVE  Advancing(r)
<1>1. pc[r] = "template" /\ pc[r] \in CallLabels
  BY DEF RenderTemplate, At, CallLabels
<1>2. /\ call[r] \in Calls /\ Path(r) \in LlmPaths /\ pc[r] # "done"
      /\ call \in [Requests -> Calls \cup {NoCall}] /\ faults \in 0 .. MaxFaults
  BY <1>1, Called
<1>3. UNCHANGED <<call, row, before, loaded, template, budget, written, named, lastSet, faults>>
  BY DEF RenderTemplate, quiet
<1>4. CASE End(r, "error")
  BY <1>2, <1>3, <1>4, AnswersAre, EndsAdvance
<1>5. CASE (Goto(r, "rate") \/ Goto(r, "output")) /\ UNCHANGED <<told, open, overlapped>>
  <2>1. {"rate", "output"} \subseteq CallLabels
    BY DEF CallLabels
  <2>2. PICK l \in {"rate", "output"} : Goto(r, l)
    BY <1>5
  <2>3. QED
    BY <1>1, <1>2, <1>3, <1>5, <2>1, <2>2, CallMoves DEF Path
<1>6. QED
  BY <1>4, <1>5 DEF RenderTemplate

LEMMA CallReads ==
    ASSUME SettingsHold, NEW r \in Requests, Inferring(r), ReadCounter(r)
    PROVE  Advancing(r)
<1>1. pc[r] = "rate" /\ pc[r] \in CallLabels
  BY DEF ReadCounter, At, CallLabels
<1>2. /\ call[r] \in Calls /\ Path(r) \in LlmPaths /\ pc[r] # "done"
      /\ call \in [Requests -> Calls \cup {NoCall}] /\ faults \in 0 .. MaxFaults
  BY <1>1, Called
<1>3. UNCHANGED <<call, row, before, loaded, template, budget, written, named, lastSet, faults>>
  BY DEF ReadCounter, quiet
<1>4. CASE NoAnswer(r)
  BY <1>1, <1>3, <1>4, NoAnswers DEF quiet
<1>5. CASE Goto(r, "count") /\ UNCHANGED <<told, open, overlapped>>
  <2>1. "count" \in CallLabels
    BY DEF CallLabels
  <2>2. QED
    BY <1>1, <1>2, <1>3, <1>5, <2>1, CallMoves DEF Path
<1>6. QED
  BY <1>4, <1>5 DEF ReadCounter

LEMMA CallIsCounted ==
    ASSUME SettingsHold, NEW r \in Requests, SetCounter(r) \/ LetThrough(r)
    PROVE  Advancing(r)
<1>1. pc[r] \in {"rate", "count"} /\ pc[r] \in CallLabels /\ "model" \in CallLabels
  BY DEF SetCounter, LetThrough, At, CallLabels
<1>2. /\ call[r] \in Calls /\ Path(r) \in LlmPaths /\ pc[r] # "done"
      /\ call \in [Requests -> Calls \cup {NoCall}] /\ faults \in 0 .. MaxFaults
  BY <1>1, Called
<1>3. /\ UNCHANGED <<call, row, before, loaded, template, budget, written, named, lastSet>>
      /\ UNCHANGED <<told, open, overlapped>> /\ Goto(r, "model")
      /\ Fault \/ UNCHANGED faults
  BY DEF SetCounter, LetThrough, quiet
<1>4. faults' \in 0 .. MaxFaults
  BY <1>2, <1>3, FaultIs
<1>5. QED
  BY <1>1, <1>2, <1>3, <1>4, CallMoves DEF Path

LEMMA CallIsAnswered ==
    ASSUME SettingsHold, NEW r \in Requests, Inferring(r), pc[r] = "model", ModelAnswers(r)
    PROVE  Advancing(r)
<1>1. pc[r] \in CallLabels /\ "output" \in CallLabels
  BY DEF CallLabels
<1>2. /\ call[r] \in Calls /\ Path(r) \in LlmPaths /\ pc[r] # "done"
      /\ call \in [Requests -> Calls \cup {NoCall}] /\ faults \in 0 .. MaxFaults
  BY <1>1, Called
<1>3. /\ UNCHANGED <<call, row, before, loaded, template, budget, written, named, lastSet, faults>>
      /\ quiet
  BY DEF ModelAnswers, quiet
<1>4. CASE NoAnswer(r)
  BY <1>3, <1>4, NoAnswers
<1>5. CASE Goto(r, "output") /\ UNCHANGED <<told, open, overlapped>>
  BY <1>1, <1>2, <1>3, <1>5, CallMoves DEF Path
<1>6. QED
  BY <1>4, <1>5 DEF ModelAnswers

LEMMA LogFaults ==
    ASSUME NEW r, NEW k, NEW a, LogCheck(r, k, a), faults \in 0 .. MaxFaults
    PROVE  faults' \in 0 .. MaxFaults
<1>1. Fault \/ UNCHANGED faults
  BY DEF LogCheck
<1>2. QED
  BY <1>1, FaultIs

LEMMA CallIsChecked ==
    ASSUME SettingsHold, NEW r \in Requests, CheckOutput(r)
    PROVE  Advancing(r)
<1>1. pc[r] = "output" /\ pc[r] \in CallLabels
  BY DEF CheckOutput, At, CallLabels
<1>2. /\ call[r] \in Calls /\ Path(r) \in LlmPaths /\ pc[r] # "done"
      /\ call \in [Requests -> Calls \cup {NoCall}] /\ faults \in 0 .. MaxFaults
  BY <1>1, Called
<1>3. UNCHANGED <<call, row, before, loaded, template, budget, written, named, lastSet>>
  BY DEF CheckOutput, quiet
<1>4. faults' \in 0 .. MaxFaults
  BY <1>2, LogFaults DEF CheckOutput
<1>5. CASE Path(r) = "stream"
  <2>1. End(r, "ok")
    BY <1>5 DEF CheckOutput
  <2>2. QED
    BY <1>2, <1>3, <1>4, <2>1, AnswersAre, EndsAdvance
<1>6. CASE Path(r) # "stream"
  <2>1. PICK l \in {"usage", "finish"} : Goto(r, l) /\ (l = "usage" => Target(r) # NoTemplate)
    BY <1>6 DEF CheckOutput
  <2>2. l \in CallLabels /\ l # "respond" /\ UNCHANGED <<told, open, overlapped>>
    BY <1>6 DEF CheckOutput, CallLabels
  <2>3. QED
    BY <1>1, <1>2, <1>3, <1>4, <1>6, <2>1, <2>2, CallMoves DEF Path, Target
<1>7. QED
  BY <1>5, <1>6

LEMMA CallRecords ==
    ASSUME SettingsHold, NEW r \in Requests, RecordUsage(r)
    PROVE  Advancing(r)
<1> USE DEF SettingsHold, Standing
<1>1. pc[r] = "usage" /\ pc[r] \in CallLabels /\ "finish" \in CallLabels
  BY DEF RecordUsage, At, CallLabels
<1>2. /\ call[r] \in Calls /\ Path(r) \in LlmPaths /\ pc[r] # "done"
      /\ call \in [Requests -> Calls \cup {NoCall}] /\ faults \in 0 .. MaxFaults
      /\ Path(r) # "stream" /\ Target(r) \in Templates /\ row[r] = NoRow
  BY <1>1, Called
<1>3. UNCHANGED <<call, before, loaded, template, budget, written, named, lastSet, faults>>
  BY DEF RecordUsage, quiet
<1>4. CASE End(r, "error") /\ UNCHANGED row
  BY <1>2, <1>3, <1>4, AnswersAre, EndsAdvance
<1>5. CASE Goto(r, "finish") /\ UNCHANGED <<told, open, overlapped, row>>
  BY <1>1, <1>2, <1>3, <1>5, CallMoves DEF Path
<1>6. CASE Load(r) /\ ReadUsage(r) /\ Goto(r, "finish") /\ UNCHANGED told
  <2> DEFINE t == Target(r)
  <2>1. /\ template[t] \in TemplateRow
        /\ row' = [row EXCEPT ![r] = template[t]]
        /\ Opening(r, <<"usage", t>>)
        /\ template[t].state # "none"
    BY <1>2, <1>6 DEF ReadUsage, SettingTypes, Load
  <2>2. /\ row'[r] = template[t] /\ row' \in [Requests -> TemplateRow \cup {NoRow}]
        /\ \A q \in Requests : q # r => row'[q] = row[q]
        /\ row'[r] # NoRow
    BY <2>1, SettingsAssumption DEF SettingTypes
  <2>3. pc'[r] = "finish" /\ "finish" \in Labels /\ "finish" # "write"
    BY <1>1, <1>6, LabelsAre DEF Goto, SettingTypes
  <2>4. told'[r] = "none" /\ Target(r)' = t /\ Path(r)' = Path(r) /\ t # NoTemplate
    BY <1>1, <1>2, <1>3, <1>6, SettingsAssumption DEF Stands, Target, Path
  <2>5. Stands(r)'
    BY <1>2, <1>3, <2>1, <2>2, <2>3, <2>4 DEF Stands, SettingLabels, CallLabels
  <2>6. <<"usage", t>> \in Columns
    BY <1>2, ColumnsAre
  <2>7. ASSUME NEW x \in Columns
        PROVE  ~Holding(r, x) /\ (Holding(r, x)' <=> x = <<"usage", t>>)
    BY <1>1, <2>2, <2>3, <2>4 DEF Holding
  <2>8. ASSUME NEW u \in Templates, <<"usage", t>> \in {Usage(u), Version(u)}
        PROVE  row'[r] = template[u]
    BY <2>2, <2>8 DEF Usage, Version
  <2>9. before' \in [Requests -> Budget]
    BY <1>3 DEF SettingTypes
  <2> HIDE DEF t
  <2>10. QED
    BY <1>2, <1>3, <1>6, <2>1, <2>2, <2>3, <2>5, <2>6, <2>7, <2>8, <2>9, OpensAdvance
<1>7. QED
  BY <1>4, <1>5, <1>6 DEF RecordUsage

LEMMA CallBreaks ==
    ASSUME SettingsHold, NEW r \in Requests, CallFails(r)
    PROVE  Advancing(r)
<1>1. pc[r] \in {"finish", "template", "usage"} /\ pc[r] \in CallLabels
  BY DEF CallFails, CallLabels
<1>2. /\ call[r] \in Calls /\ Path(r) \in LlmPaths /\ pc[r] # "done"
      /\ call \in [Requests -> Calls \cup {NoCall}] /\ faults \in 0 .. MaxFaults
      /\ Path(r) # "stream" /\ (pc[r] = "usage" => Target(r) \in Templates)
  BY <1>1, Called
<1>3. /\ UNCHANGED <<call, row, before, loaded, template, budget, written, named, lastSet>>
      /\ UNCHANGED <<told, open, overlapped>> /\ Fault /\ pc' = pc
  BY DEF CallFails, quiet
<1>4. faults' \in 0 .. MaxFaults
  BY <1>2, <1>3, FaultIs
<1>5. Goto(r, pc[r])
  BY <1>3 DEF Goto, SettingsHold, Standing, SettingTypes
<1>6. pc[r] = "usage" => Target(r) # NoTemplate
  BY <1>2, SettingsAssumption
<1>7. QED
  BY <1>1, <1>2, <1>3, <1>4, <1>5, <1>6, CallMoves DEF Path, Target

LEMMA CallIsLost ==
    ASSUME SettingsHold, NEW r \in Requests, Disconnect(r)
    PROVE  Advancing(r)
<1>1. pc[r] \in {"rate", "count", "model", "output"} /\ pc[r] \in CallLabels
  BY DEF Disconnect, CallLabels
<1>2. /\ call[r] \in Calls /\ pc[r] # "done"
      /\ call \in [Requests -> Calls \cup {NoCall}] /\ faults \in 0 .. MaxFaults
  BY <1>1, Called
<1>3. /\ UNCHANGED <<call, row, before, loaded, template, budget, written, named, lastSet>>
      /\ Fault /\ End(r, "lost")
  BY DEF Disconnect, quiet
<1>4. faults' \in 0 .. MaxFaults
  BY <1>2, <1>3, FaultIs
<1>5. QED
  BY <1>2, <1>3, <1>4, AnswersAre, EndsAdvance

(* A recording: whoever recorded alone is counted, and nobody is who did not record *)
LEMMA UsageWritten ==
    ASSUME SettingsHold, NEW r \in Requests, NEW t \in Templates,
           pc[r] = "finish", row[r] # NoRow, Target(r) = t,
           overlapped' = overlapped, open' = Closed(r), row' = row,
           written' = written \cup {<<r, Usage(t)>>},
           template'[t].usage = row[r].usage + 1
    PROVE  UsageOf(t)'
<1> USE DEF SettingsHold, SettingsInv, Standing
<1> DEFINE W == Writers(Usage(t))
           A == Alone(Usage(t))
           W1 == Writers(Usage(t))'
           A1 == Alone(Usage(t))'
           u == row[r].usage
<1>1. Usage(t) \in Columns
  BY ColumnsAre DEF Usage
<1>2. <<r, Usage(t)>> \in open
  BY <1>1 DEF Opened, Holding, Usage
<1>3. r \notin W /\ W1 = W \cup {r} /\ A1 \subseteq A \cup {r}
  BY <1>1 DEF Alone, Writers, Opened
<1>4. /\ Cardinality(A) <= u /\ u <= Cardinality(W)
      /\ u \in Nat
  BY <1>2, HeldRows DEF UsageOf, TemplateRow
<1>5. /\ IsFiniteSet(W) /\ IsFiniteSet(A) /\ Cardinality(W) \in Nat /\ Cardinality(A) \in Nat
  BY WritersFinite
<1>6. Cardinality(W1) = Cardinality(W) + 1
  <2> HIDE DEF W, W1
  <2>1. QED
    BY <1>3, <1>5, FS_AddElement
<1>7. Cardinality(A1) \in Nat /\ Cardinality(A1) <= Cardinality(A) + 1
  <2>1. /\ IsFiniteSet(A \cup {r})
        /\ Cardinality(A \cup {r}) = Cardinality(A) \/ Cardinality(A \cup {r}) = Cardinality(A) + 1
    BY <1>5, FS_AddElement
  <2>2. Cardinality(A1) \in Nat /\ Cardinality(A1) <= Cardinality(A \cup {r})
    BY <1>3, <2>1, FS_Subset, FS_CardinalityType
  <2>3. QED
    BY <1>5, <2>1, <2>2
<1>8. ASSUME NEW q \in Requests, <<q, Usage(t)>> \in open'
      PROVE  Cardinality(A1) <= row[q].usage /\ row[q].usage <= Cardinality(W1)
  <2>1. <<q, Usage(t)>> \in open /\ q # r
    BY <1>8 DEF Closed
  <2>2. r \notin A1
    BY <1>1, <1>2, <2>1 DEF Alone, Opened
  <2>3. Cardinality(A1) <= Cardinality(A)
    BY <1>3, <1>5, <2>2, FS_Subset
  <2>4. Cardinality(A) <= row[q].usage /\ row[q].usage <= Cardinality(W)
    BY <2>1 DEF UsageOf
  <2>5. row[q].usage \in Nat
    BY <2>1, HeldRows DEF TemplateRow
  <2> HIDE DEF A, W, A1, W1
  <2>6. QED
    BY <1>5, <1>6, <1>7, <2>3, <2>4, <2>5
<1>9. Cardinality(A1) <= u + 1 /\ u + 1 <= Cardinality(W1)
  <2> HIDE DEF A, W, A1, W1, u
  <2>1. QED
    BY <1>4, <1>5, <1>6, <1>7
<1>10. QED
  BY <1>8, <1>9 DEF UsageOf, Usage

LEMMA CallFinishes ==
    ASSUME SettingsHold, NEW r \in Requests, Finish(r)
    PROVE  SettingsHold'
<1> USE DEF SettingsHold, SettingsInv, Standing
<1>1. pc[r] = "finish" /\ pc[r] \in CallLabels
  BY DEF Finish, At, CallLabels
<1>2. /\ call[r] \in Calls /\ pc[r] # "done"
      /\ call \in [Requests -> Calls \cup {NoCall}] /\ faults \in 0 .. MaxFaults
  BY <1>1, Called
<1>3. /\ UNCHANGED <<call, row, before, loaded, budget, named, lastSet, faults>>
      /\ budget' \in Budget /\ lastSet' \in Budget /\ named' \in [Requests -> Nat]
  BY DEF Finish, quiet, SettingTypes
<1>4. PICK a \in Answers : End(r, a)
  BY AnswersAre DEF Finish
<1>5. CASE UNCHANGED <<template, written>>
  <2>1. Advancing(r)
    BY <1>2, <1>3, <1>4, <1>5, EndsAdvance
  <2>2. QED
    BY <2>1, Advances
<1>6. CASE row[r] # NoRow /\ StoreUsage(r)
  <2> DEFINE t == Target(r)
  <2>1. t \in Templates /\ row[r] \in TemplateRow /\ template[t].state # "none"
    BY <1>1, <1>2, <1>6, CallsAre DEF Stands, Target, SettingTypes
  <2>2. /\ template' = [template EXCEPT ![t].usage = row[r].usage + 1]
        /\ written' = written \cup {<<r, Usage(t)>>}
    BY <1>6 DEF StoreUsage, Counted, Usage
  <2> HIDE DEF t
  <2>3. /\ template' = [template EXCEPT ![t] = [template[t] EXCEPT !.usage = row[r].usage + 1]]
        /\ row[r].usage + 1 \in Nat /\ template[t] \in TemplateRow
    BY <2>1, <2>2 DEF SettingTypes, TemplateRow
  <2>4. /\ template' \in [Templates -> TemplateRow]
        /\ template'[t].usage = row[r].usage + 1
        /\ template'[t].version = template[t].version /\ template'[t].state = template[t].state
        /\ \A v \in Templates : v # t => template'[v] = template[v]
    BY <2>1, <2>3 DEF SettingTypes, TemplateRow
  <2>5. \A v \in Templates : template[v].state # "none" => template'[v].state # "none"
    BY <2>4
  <2>6. /\ written' \subseteq Requests \X Columns
        /\ \A q \in Requests, x \in Columns : <<q, x>> \in written' =>
                <<q, x>> \in written \/ q = r
    <3>1. Usage(t) \in Columns
      BY <2>1, ColumnsAre DEF Usage
    <3>2. QED
      BY <2>2, <3>1 DEF SettingTypes
  <2>7. /\ Standing' /\ Opened' /\ overlapped' = overlapped /\ BudgetOf'
        /\ \A v \in Templates : HoldersRead(v, Usage(v)) /\ HoldersRead(v, Version(v))
    <3>1. faults' \in 0 .. MaxFaults /\ pc[r] \notin {"idle", "done"}
      BY <1>1, <1>2, <1>3
    <3>2. QED
      BY <1>3, <1>4, <2>4, <2>5, <2>6, <3>1, EndsWriting
  <2>8. \A v \in Templates : Version(v) # Usage(t) /\ (v # t => Usage(v) # Usage(t))
    BY DEF Usage, Version
  <2>9. ASSUME NEW v \in Templates
        PROVE  UsageOf(v)'
    <3>1. CASE v = t
      <4>1. Target(r) = t /\ open' = Closed(r)
        BY <1>4 DEF End, t
      <4>2. QED
        BY <1>1, <1>3, <1>6, <2>1, <2>2, <2>4, <2>7, <3>1, <4>1, UsageWritten
    <3>2. CASE v # t
      <4>1. Writers(Usage(v))' = Writers(Usage(v)) /\ Alone(Usage(v))' = Alone(Usage(v))
        BY <2>2, <2>7, <2>8, <3>2 DEF Writers, Alone
      <4>2. QED
        BY <2>4, <2>7, <3>2, <4>1, UsageUnwritten
    <3>3. QED
      BY <3>1, <3>2
  <2>10. ASSUME NEW v \in Templates
         PROVE  VersionOf(v)'
    <3>1. Alone(Version(v))' = Alone(Version(v))
      BY <2>2, <2>7, <2>8 DEF Writers, Alone
    <3>2. /\ template'[v] \in TemplateRow /\ template'[v].version = template[v].version
          /\ template'[v].state = "none" => template'[v] = template[v]
          /\ template[v].version \in Nat
      BY <2>1, <2>4 DEF SettingTypes, TemplateRow
    <3>3. template[v].version <= template'[v].version
      BY <3>2
    <3>4. QED
      BY <1>3, <2>7, <3>1, <3>2, <3>3, VersionUnwritten
  <2>11. QED
    BY <2>7, <2>9, <2>10
<1>7. QED
  BY <1>5, <1>6 DEF Finish

LEMMA CallSteps ==
    ASSUME SettingsHold, NEW r \in Requests, Inferring(r), CallStep(r)
    PROVE  SettingsHold'
<1>1. CASE AskModel(r) \/ StreamModel(r)
  <2>1. pc[r] = "model" /\ ModelAnswers(r)
    BY <1>1 DEF AskModel, StreamModel, At
  <2>2. QED
    BY <2>1, CallIsAnswered, Advances
<1>2. CASE Finish(r)
  BY <1>2, CallFinishes
<1>3. CASE \/ OpenCall(r) \/ Respond(r) \/ RenderTemplate(r)
           \/ ReadCounter(r) \/ SetCounter(r) \/ LetThrough(r)
           \/ CheckOutput(r) \/ RecordUsage(r) \/ CallFails(r) \/ Disconnect(r)
  BY <1>3, CallOpens, CallResponds, CallRenders, CallReads, CallIsCounted, CallIsChecked,
     CallRecords, CallBreaks, CallIsLost, Advances
<1>4. QED
  BY <1>1, <1>2, <1>3 DEF CallStep
-----------------------------------------------------------------------------
(* The limit, and the log *)

AtMostLimit == IF Limit = 0 THEN 1 ELSE Limit
Uncrowded == admitted \ crowded

(* The calls whose checks overlap are crowded; the counter is no more than the calls
   that were let through, and no less than those of them that are not crowded *)
Counts ==
    /\ checking = {Ask(q) : q \in {p \in Requests : pc[p] = "count"}}
    /\ \A a, b \in checking : a # b => a \in crowded
    /\ counter <= Cardinality(admitted)
    /\ Cardinality(Uncrowded) <= counter
    /\ Cardinality(Uncrowded) <= AtMostLimit
    /\ refused # {} => Cardinality(admitted) >= Limit

(* No call is let through twice *)
Fresh(r) ==
    /\ pc[r] \in {"idle", "respond", "template", "rate", "count"} => Ask(r) \notin admitted
    /\ pc[r] = "idle" => <<r, "infer">> \notin admitted
    /\ pc[r] = "idle" \/ (round[r] = "infer" /\ pc[r] # "done") => <<r, "answer">> \notin admitted

CountOf(r) ==
    /\ Fresh(r)
    /\ pc[r] = "count" =>
        /\ Cardinality(Uncrowded) <= seen[r] /\ seen[r] <= Cardinality(admitted)
        /\ seen[r] = 0 \/ seen[r] < Limit

LimiterInv == Counts /\ \A r \in Requests : CountOf(r)

(* What has been logged by where a request stands, unless its session is broken; a
   stream that has begun has its row for the input *)
AuditOf(r) ==
    /\ r \in reached => pc[r] \in CallLabels \cup {"done"} /\ call[r].clean
    /\ pc[r] \in CallLabels => call[r].clean /\ (Logged(r, "input") \/ r \in broken)
    /\ pc[r] \in {"rate", "count", "model", "output"} /\ Path(r) = "stream" => Logged(r, "input")
    /\ pc[r] \in {"idle", "respond", "template", "rate", "count", "model"} => source[r] = "none"
    /\ pc[r] \in {"usage", "finish"} /\ source[r] # "none" =>
            (Logged(r, "output") \/ r \in broken) /\ holds[r] = Kept(call[r].answer)
    /\ told[r] \in {"ok", "no_answer"} /\ Path(r) \in LlmPaths => Logged(r, "input")
    /\ told[r] = "ok" /\ Path(r) \in {"chat", "rag"} => Logged(r, "output")
    /\ told[r] = "ok" /\ Path(r) \in LlmPaths => holds[r] = Kept(call[r].answer)

AuditInv == Guarded => \A r \in Requests : AuditOf(r)

CallsInv ==
    /\ SettingsHold /\ CallTypes
    /\ \A r \in Requests : Inferring(r)
    /\ LimiterInv /\ AuditInv

(* The calls to the gateway are finitely many *)
LEMMA AsksFinite ==
    ASSUME NEW S, S \subseteq AskType
    PROVE  IsFiniteSet(S) /\ Cardinality(S) \in Nat
<1>1. IsFiniteSet({"infer"} \cup {"answer"})
  BY FS_EmptySet, FS_Singleton, FS_Union
<1>2. Rounds = {"infer"} \cup {"answer"}
  BY DEF Rounds
<1>3. IsFiniteSet(AskType)
  BY <1>1, <1>2, FS_Product, SettingsAssumption DEF AskType
<1>4. QED
  BY <1>3, FS_Subset, FS_CardinalityType

(* A step of r that admits nothing *)
Counting(r) ==
    /\ UNCHANGED <<counter, admitted>>
    /\ crowded \subseteq crowded'
    /\ checking' = {Ask(q)' : q \in {p \in Requests : pc'[p] = "count"}}
    /\ \A a, b \in checking' : a # b => a \in crowded'
    /\ refused' # {} => refused # {} \/ Cardinality(admitted) >= Limit
    /\ Fresh(r)'
    /\ pc'[r] = "count" => seen'[r] = counter /\ (counter = 0 \/ counter < Limit)

OthersCall(r) ==
    \A q \in Requests : q # r =>
        /\ pc'[q] = pc[q] /\ told'[q] = told[q] /\ call'[q] = call[q]
        /\ round'[q] = round[q] /\ seen'[q] = seen[q]
        /\ source'[q] = source[q] /\ holds'[q] = holds[q]
        /\ q \in broken' <=> q \in broken
        /\ q \in reached' <=> q \in reached

LEMMA NothingAdmitted ==
    ASSUME CallTypes, CallTypes', LimiterInv, NEW r \in Requests, OthersCall(r), Counting(r)
    PROVE  LimiterInv'
<1> DEFINE u == Cardinality(Uncrowded)
           u1 == Cardinality(Uncrowded')
           n == Cardinality(admitted)
<1>1. /\ u \in Nat /\ u1 \in Nat /\ n \in Nat /\ u1 <= u
      /\ counter \in Nat /\ Limit \in Nat /\ AtMostLimit \in Nat
  <2>1. Uncrowded' \subseteq Uncrowded /\ Uncrowded \subseteq AskType /\ admitted \subseteq AskType
    BY DEF Counting, Uncrowded, CallTypes
  <2>2. IsFiniteSet(Uncrowded) /\ IsFiniteSet(admitted)
    BY <2>1, AsksFinite
  <2>3. QED
    BY <2>1, <2>2, FS_Subset, FS_CardinalityType, LlmAssumption DEF CallTypes, AtMostLimit
<1>2. /\ counter <= n /\ u <= counter /\ u <= AtMostLimit
      /\ refused # {} => n >= Limit
  BY DEF LimiterInv, Counts
<1>3. u1 <= counter /\ u1 <= AtMostLimit
  <2> HIDE DEF u, u1, n
  <2>1. QED
    BY <1>1, <1>2
<1>4. Counts'
  <2>1. checking' = {Ask(q)' : q \in {p \in Requests : pc'[p] = "count"}}
    BY DEF Counting
  <2>2. /\ \A a, b \in checking' : a # b => a \in crowded'
        /\ counter' <= Cardinality(admitted') /\ u1 <= counter' /\ u1 <= AtMostLimit'
        /\ refused' # {} => Cardinality(admitted') >= Limit
    BY <1>2, <1>3 DEF Counting, AtMostLimit
  <2>3. QED
    BY <2>1, <2>2 DEF Counts
<1>5. ASSUME NEW q \in Requests
      PROVE  CountOf(q)'
  <2>1. CASE q = r
    <3>1. pc'[r] = "count" => u1 <= seen'[r] /\ seen'[r] <= n
      BY <1>2, <1>3 DEF Counting
    <3>2. QED
      BY <2>1, <3>1 DEF CountOf, Counting
  <2>2. CASE q # r
    <3>1. Fresh(q)'
      BY <2>2 DEF OthersCall, Counting, LimiterInv, CountOf, Fresh, Ask
    <3>2. pc'[q] = "count" =>
            /\ u <= seen[q] /\ seen[q] <= n /\ seen[q] \in Nat
            /\ seen[q] = 0 \/ seen[q] < Limit
      BY <2>2 DEF OthersCall, LimiterInv, CountOf, CallTypes
    <3>3. pc'[q] = "count" => u1 <= seen'[q]
      <4> HIDE DEF u, u1, n
      <4>1. QED
        BY <1>1, <2>2, <3>2 DEF OthersCall
    <3>4. QED
      BY <2>2, <3>1, <3>2, <3>3 DEF CountOf, OthersCall, Counting
  <2>3. QED
    BY <2>1, <2>2
<1>6. QED
  BY <1>4, <1>5 DEF LimiterInv

(* The limit has nothing to do with a step before and after which r checks nothing *)
LEMMA Uncounted ==
    ASSUME LimiterInv, NEW r \in Requests, OthersCall(r), UNCHANGED limiter,
           pc[r] # "count", pc'[r] # "count", Fresh(r)'
    PROVE  Counting(r)
<1>1. UNCHANGED <<counter, admitted, crowded, checking, refused>>
  BY DEF limiter
<1>2. \A q \in Requests : pc'[q] = "count" <=> pc[q] = "count"
  BY DEF OthersCall
<1>3. \A q \in Requests : pc[q] = "count" => Ask(q)' = Ask(q)
  BY DEF OthersCall, Ask
<1>4. checking' = {Ask(q)' : q \in {p \in Requests : pc'[p] = "count"}}
  BY <1>1, <1>2, <1>3 DEF LimiterInv, Counts
<1>5. \A a, b \in checking' : a # b => a \in crowded'
  BY <1>1 DEF LimiterInv, Counts
<1>6. QED
  BY <1>1, <1>4, <1>5 DEF Counting

(* The others' log only grows *)
LEMMA OthersAudited ==
    ASSUME AuditInv, NEW r \in Requests, OthersCall(r), logged \subseteq logged',
           Guarded => AuditOf(r)'
    PROVE  AuditInv'
<1>1. ASSUME Guarded, NEW q \in Requests, q # r
      PROVE  AuditOf(q)'
  <2>1. \A k : Logged(q, k) => Logged(q, k)'
    BY DEF Logged
  <2>2. AuditOf(q)
    BY <1>1 DEF AuditInv
  <2>3. QED
    BY <1>1, <2>1, <2>2 DEF OthersCall, AuditOf, Path
<1>2. QED
  BY <1>1 DEF AuditInv

(* A call that is let through and counted was not counted before; if others are
   checked meanwhile it is crowded *)
LEMMA Admitted ==
    ASSUME CallTypes, CallTypes', LimiterInv, NEW r \in Requests, OthersCall(r), SetCounter(r),
           pc'[r] = "model"
    PROVE  LimiterInv'
<1> DEFINE a == Ask(r)
           u == Cardinality(Uncrowded)
           u1 == Cardinality(Uncrowded')
           n == Cardinality(admitted)
           n1 == Cardinality(admitted')
<1>1. /\ pc[r] = "count" /\ counter' = seen[r] + 1
      /\ admitted' = admitted \cup {a} /\ UNCHANGED <<crowded, refused, round>>
      /\ checking' = {q \in checking : q[1] # r}
      /\ seen' = [seen EXCEPT ![r] = 0]
  BY DEF SetCounter, Checked, At, gateway
<1>2. /\ a \notin admitted /\ a[1] = r /\ a \in checking
      /\ u <= seen[r] /\ seen[r] <= n /\ (seen[r] = 0 \/ seen[r] < Limit)
  BY <1>1 DEF LimiterInv, CountOf, Fresh, Counts, Ask
<1>3. /\ u \in Nat /\ u1 \in Nat /\ n \in Nat
      /\ IsFiniteSet(Uncrowded) /\ IsFiniteSet(admitted)
      /\ seen[r] \in Nat /\ Limit \in Nat
  <2>1. Uncrowded \subseteq AskType /\ Uncrowded' \subseteq AskType /\ admitted \subseteq AskType
    BY DEF Uncrowded, CallTypes
  <2>2. QED
    BY <2>1, AsksFinite, LlmAssumption DEF CallTypes
<1>4. n1 = n + 1
  BY <1>1, <1>2, <1>3, FS_AddElement
<1>5. u1 <= u + 1
  <2>1. Uncrowded' \subseteq Uncrowded \cup {a}
    BY <1>1 DEF Uncrowded
  <2>2. /\ IsFiniteSet(Uncrowded \cup {a})
        /\ Cardinality(Uncrowded \cup {a}) = u \/ Cardinality(Uncrowded \cup {a}) = u + 1
    BY <1>3, FS_AddElement
  <2>3. Cardinality(Uncrowded') <= Cardinality(Uncrowded \cup {a})
    BY <2>1, <2>2, FS_Subset
  <2>4. QED
    BY <1>3, <2>2, <2>3
<1>6. /\ counter' <= n1 /\ u1 <= counter' /\ u1 <= AtMostLimit
      /\ refused # {} => n1 >= Limit
  <2>1. refused # {} => n >= Limit
    BY DEF LimiterInv, Counts
  <2>2. seen[r] + 1 <= AtMostLimit
    BY <1>2, <1>3 DEF AtMostLimit
  <2>3. AtMostLimit \in Nat
    BY <1>3 DEF AtMostLimit
  <2> HIDE DEF u, u1, n, n1
  <2>4. QED
    BY <1>1, <1>2, <1>3, <1>4, <1>5, <2>1, <2>2, <2>3
<1>7. checking' = {Ask(q)' : q \in {p \in Requests : pc'[p] = "count"}}
  <2>1. checking = {Ask(q) : q \in {p \in Requests : pc[p] = "count"}}
    BY DEF LimiterInv, Counts
  <2>2. \A q \in Requests : Ask(q)[1] = q /\ Ask(q)' = Ask(q)
    BY <1>1 DEF Ask
  <2>3. checking' = {Ask(q) : q \in {p \in Requests : pc[p] = "count" /\ p # r}}
    BY <1>1, <2>1, <2>2
  <2>4. {p \in Requests : pc[p] = "count" /\ p # r} = {p \in Requests : pc'[p] = "count"}
    BY DEF OthersCall
  <2>5. QED
    BY <2>2, <2>3, <2>4
<1>8. \A p, q \in checking' : p # q => p \in crowded'
  BY <1>1 DEF LimiterInv, Counts
<1>9. Counts'
  BY <1>1, <1>6, <1>7, <1>8 DEF Counts, AtMostLimit
<1>10. ASSUME NEW q \in Requests, q # r, pc[q] = "count"
       PROVE  u1 <= seen'[q] /\ seen'[q] <= n1 /\ (seen'[q] = 0 \/ seen'[q] < Limit)
  <2>1. Ask(q) \in checking /\ Ask(q) # a
    BY <1>10 DEF LimiterInv, Counts, Ask
  <2>2. a \in crowded
    BY <1>2, <2>1 DEF LimiterInv, Counts
  <2>3. Uncrowded' = Uncrowded
    BY <1>1, <2>2 DEF Uncrowded
  <2>4. /\ seen'[q] = seen[q] /\ seen[q] \in Nat /\ u <= seen[q] /\ seen[q] <= n
        /\ seen[q] = 0 \/ seen[q] < Limit
    BY <1>10 DEF OthersCall, LimiterInv, CountOf, CallTypes
  <2>5. u1 = u
    BY <2>3
  <2> HIDE DEF u, u1, n, n1
  <2>6. QED
    BY <1>3, <1>4, <2>4, <2>5
<1>11. ASSUME NEW q \in Requests
       PROVE  CountOf(q)'
  <2>1. CASE q = r
    <3>1. round[r] = "infer" => <<r, "answer">> \notin admitted'
      BY <1>1, <1>2 DEF LimiterInv, CountOf, Fresh, Ask
    <3>2. QED
      BY <1>1, <2>1, <3>1 DEF CountOf, Fresh
  <2>2. CASE q # r
    <3>1. \A k : <<q, k>> \in admitted' => <<q, k>> \in admitted
      BY <1>1, <1>2, <2>2 DEF Ask
    <3>2. Fresh(q)'
      BY <2>2, <3>1 DEF OthersCall, LimiterInv, CountOf, Fresh, Ask
    <3>3. QED
      BY <1>10, <2>2, <3>2 DEF CountOf, OthersCall
  <2>3. QED
    BY <2>1, <2>2
<1>12. QED
  BY <1>9, <1>11 DEF LimiterInv
-----------------------------------------------------------------------------
(* Every step keeps all of it: what the step of r makes of r, and of the others *)

Proper(r) ==
    /\ CallTypes' /\ OthersCall(r) /\ logged \subseteq logged'
    /\ Inferring(r)' /\ (Guarded => AuditOf(r)')

LEMMA Onward ==
    ASSUME SettingTypes, NEW r \in Requests
    PROVE  /\ \A l : Goto(r, l) =>
                /\ pc'[r] = l
                /\ \A q \in Requests : q # r => pc'[q] = pc[q]
           /\ \A a : End(r, a) =>
                /\ pc'[r] = "done" /\ told'[r] = a
                /\ \A q \in Requests : q # r => pc'[q] = pc[q] /\ told'[q] = told[q]
BY DEF SettingTypes, Goto, End, Tell

LEMMA SettingMoves ==
    ASSUME SettingsHold, NEW r \in Requests, SettingStep(r)
    PROVE  /\ pc[r] \in {"idle"} \cup SettingLabels /\ pc'[r] \in SettingLabels \cup {"done"}
           /\ \A q \in Requests : q # r =>
                pc'[q] = pc[q] /\ told'[q] = told[q] /\ call'[q] = call[q]
           /\ call'[r].path \in SettingPaths
<1> USE DEF SettingsHold, Standing
<1>1. CASE OpenSetting(r)
  <2>1. PICK c \in Calls :
          /\ call' = [call EXCEPT ![r] = c]
          /\ \/ (CreatePrompt(r, c) \/ GetPrompt(r, c) \/ PostBudget(r, c)) /\ UNCHANGED before
             \/ GetBudget(r, c)
    BY <1>1 DEF OpenSetting
  <2>2. /\ c.path \in SettingPaths
        /\ \/ \E a : End(r, a)
           \/ (\E l \in SettingLabels : Goto(r, l)) /\ UNCHANGED told
    BY <2>1 DEF CreatePrompt, GetPrompt, PostBudget, GetBudget, SettingPaths, SettingLabels
  <2>3. /\ call'[r] = c
        /\ \A q \in Requests : q # r => call'[q] = call[q]
    BY <2>1 DEF SettingTypes
  <2>4. pc[r] = "idle"
    BY <1>1 DEF OpenSetting, At
  <2>5. QED
    BY <2>2, <2>3, <2>4, Onward
<1>2. CASE LoadBudget(r)
  <2>1. /\ pc[r] = "upsert" /\ Goto(r, "write") /\ UNCHANGED <<call, told>>
    BY <1>2 DEF LoadBudget, At
  <2>2. QED
    BY <2>1, Onward DEF SettingLabels, Stands, Path
<1>3. CASE InsertPrompt(r) \/ StorePrompt(r) \/ WriteBudget(r) \/ SettingFails(r)
  <2>1. pc[r] \in SettingLabels /\ UNCHANGED call /\ \E a : End(r, a)
    BY <1>3 DEF InsertPrompt, StorePrompt, WriteBudget, SettingFails, At, SettingLabels
  <2>2. QED
    BY <2>1, Onward DEF Stands, Path
<1>4. QED
  BY <1>1, <1>2, <1>3 DEF SettingStep

LEMMA SettingProper ==
    ASSUME SettingsHold, SettingsHold', CallTypes, LimiterInv, AuditInv,
           NEW r \in Requests, SettingStep(r), UNCHANGED <<gateway, limiter, audit>>
    PROVE  Proper(r) /\ Counting(r)
<1>1. /\ pc[r] \in {"idle"} \cup SettingLabels /\ pc'[r] \in SettingLabels \cup {"done"}
      /\ \A q \in Requests : q # r =>
                pc'[q] = pc[q] /\ told'[q] = told[q] /\ call'[q] = call[q]
      /\ call'[r].path \in SettingPaths
  BY SettingMoves
<1>2. UNCHANGED <<counter, round, seen, broken, source, logged, holds, reached, admitted,
                  crowded, checking, refused>>
  BY DEF gateway, limiter, audit
<1>3. /\ pc'[r] \notin {"idle", "respond", "template", "rate", "count", "model", "output",
                        "usage", "finish"}
      /\ pc'[r] \notin CallLabels /\ pc[r] # "count" /\ pc[r] \notin CallLabels \cup {"done"}
      /\ call'[r].path \notin LlmPaths
  BY <1>1, LabelsAre DEF SettingLabels, CallLabels
<1>4. CallTypes' /\ OthersCall(r) /\ Inferring(r)' /\ logged \subseteq logged'
  BY <1>1, <1>2, <1>3 DEF CallTypes, OthersCall, Inferring
<1>5. ASSUME Guarded
      PROVE  AuditOf(r)'
  <2>1. r \notin reached'
    BY <1>2, <1>3, <1>5 DEF AuditInv, AuditOf
  <2>2. {"chat", "rag"} \subseteq LlmPaths
    BY DEF LlmPaths
  <2>3. QED
    BY <1>3, <2>1, <2>2 DEF AuditOf, Path
<1>6. Fresh(r)'
  <2>1. pc'[r] # "done" => <<r, "answer">> \notin admitted \/ round[r] # "infer"
    BY <1>1, <1>3 DEF LimiterInv, CountOf, Fresh
  <2>2. QED
    BY <1>2, <1>3, <2>1 DEF Fresh
<1>7. QED
  BY <1>2, <1>3, <1>4, <1>5, <1>6, Uncounted DEF Proper, limiter

(* What a step of r that is on its way needs to be shown of *)
Going(r) ==
    /\ SettingsHold /\ SettingsHold' /\ CallTypes /\ LimiterInv /\ AuditInv
    /\ Inferring(r)

LEMMA Logs ==
    ASSUME CallTypes, NEW r \in Requests, NEW k \in {"input", "output"},
           NEW a \in {"allowed", "redacted", "blocked"}, LogCheck(r, k, a)
    PROVE  /\ logged \subseteq logged' /\ broken \subseteq broken'
           /\ logged' \subseteq
                Requests \X {"input", "output"} \X {"allowed", "redacted", "blocked"}
           /\ broken' \subseteq Requests
           /\ \A q \in Requests : q # r => (q \in broken' <=> q \in broken)
           /\ \A q, i : Logged(q, i) => Logged(q, i)'
           /\ Guarded => Logged(r, k)' \/ r \in broken'
<1>1. /\ logged \subseteq logged' /\ broken \subseteq broken'
      /\ logged' \subseteq Requests \X {"input", "output"} \X {"allowed", "redacted", "blocked"}
      /\ broken' \subseteq Requests
      /\ \A q \in Requests : q # r => (q \in broken' <=> q \in broken)
      /\ Guarded => <<r, k, a>> \in logged' \/ r \in broken'
  BY DEF LogCheck, CallTypes
<1>2. \A q, i : Logged(q, i) => Logged(q, i)'
  BY <1>1 DEF Logged
<1>3. <<r, k, a>> \in logged' => Logged(r, k)'
  BY DEF Logged
<1>4. QED
  BY <1>1, <1>2, <1>3

LEMMA OpenProper ==
    ASSUME NEW r \in Requests, Going(r), OpenCall(r)
    PROVE  Proper(r) /\ Counting(r)
<1> USE DEF Going, SettingsHold, Standing
<1>1. PICK c \in Calls :
        /\ c.path \in LlmPaths
        /\ call' = [call EXCEPT ![r] = c]
        /\ LogCheck(r, "input", IF c.clean THEN "allowed" ELSE "blocked")
        /\ IF ~ Passes(c) THEN End(r, "blocked") /\ UNCHANGED round
           ELSE /\ Goto(r, IF c.path = "stream" THEN "respond"
                            ELSE IF c.path = "rag" THEN "rate" ELSE "template")
                /\ round' = [round EXCEPT ![r] = IF c.path = "rag" THEN "infer" ELSE "answer"]
                /\ UNCHANGED <<told, open, overlapped>>
  BY DEF OpenCall
<1>2. /\ pc[r] = "idle" /\ told[r] = "none"
      /\ UNCHANGED <<source, holds, counter, seen, admitted, crowded, checking, refused, reached>>
      /\ UNCHANGED limiter
  BY DEF OpenCall, At, limiter, Stands
<1>3. /\ call'[r] = c
      /\ \A q \in Requests : q # r => call'[q] = call[q]
  BY <1>1 DEF SettingTypes
<1>4. PICK a \in {"allowed", "redacted", "blocked"} : LogCheck(r, "input", a)
  BY <1>1
<1>5. /\ logged \subseteq logged' /\ broken \subseteq broken'
      /\ logged' \subseteq Requests \X {"input", "output"} \X {"allowed", "redacted", "blocked"}
      /\ broken' \subseteq Requests
      /\ \A q \in Requests : q # r => (q \in broken' <=> q \in broken)
      /\ Guarded => Logged(r, "input")' \/ r \in broken'
  BY <1>4, Logs
<1>6. /\ pc'[r] \in {"respond", "rate", "template", "done"}
      /\ pc'[r] # "done" => Passes(c) /\ (round'[r] = "infer" => c.path = "rag")
      /\ pc'[r] = "rate" => c.path # "stream"
      /\ pc'[r] = "done" => told'[r] = "blocked"
      /\ \A q \in Requests : q # r =>
            pc'[q] = pc[q] /\ told'[q] = told[q] /\ round'[q] = round[q]
      /\ round' \in [Requests -> Rounds]
  <2>1. CASE ~Passes(c)
    BY <1>1, <2>1, Onward DEF CallTypes
  <2>2. CASE Passes(c)
    <3>1. PICK l \in {"respond", "rate", "template"} :
            /\ Goto(r, l)
            /\ l = "rate" => c.path # "stream"
      BY <1>1, <2>2
    <3>2. /\ round' = [round EXCEPT ![r] = IF c.path = "rag" THEN "infer" ELSE "answer"]
          /\ UNCHANGED told
      BY <1>1, <2>2
    <3>3. (IF c.path = "rag" THEN "infer" ELSE "answer") \in Rounds
      BY DEF Rounds
    <3>4. /\ round' \in [Requests -> Rounds]
          /\ round'[r] = "infer" => c.path = "rag"
          /\ \A q \in Requests : q # r => round'[q] = round[q]
      BY <3>2, <3>3 DEF CallTypes
    <3>5. QED
      BY <2>2, <3>1, <3>2, <3>4, Onward
  <2>3. QED
    BY <2>1, <2>2
<1>7. CallTypes'
  BY <1>2, <1>5, <1>6 DEF CallTypes
<1>8. OthersCall(r)
  BY <1>2, <1>3, <1>5, <1>6 DEF OthersCall
<1>9. Inferring(r)'
  BY <1>3, <1>6, LabelsAre DEF Inferring, Path
<1>10. Fresh(r)'
  <2>1. \A k \in Rounds : <<r, k>> \notin admitted
    BY <1>2 DEF LimiterInv, CountOf, Fresh, Ask, Rounds, CallTypes
  <2>2. round'[r] \in Rounds
    BY <1>6
  <2>3. QED
    BY <1>2, <1>6, <2>1, <2>2 DEF Fresh, Ask, Rounds
<1>11. ASSUME Guarded
       PROVE  AuditOf(r)'
  <2>1. r \notin reached' /\ source'[r] = "none"
    BY <1>2, <1>11, LabelsAre DEF AuditInv, AuditOf
  <2>2. pc'[r] # "done" => c.clean /\ told'[r] = "none"
    BY <1>6, <1>11 DEF Passes, Stands
  <2>3. pc'[r] \in {"rate", "count", "model", "output"} => Path(r)' # "stream"
    BY <1>3, <1>6 DEF Path
  <2>4. told'[r] \notin {"ok", "no_answer"}
    BY <1>6, <2>2
  <2>5. pc'[r] \in CallLabels => pc'[r] # "done"
    BY LabelsAre
  <2>6. pc'[r] \notin {"usage", "finish"}
    BY <1>6
  <2>7. pc'[r] \in CallLabels => call'[r].clean /\ (Logged(r, "input")' \/ r \in broken')
    BY <1>3, <1>5, <1>11, <2>2, <2>5
  <2> HIDE DEF Going, SettingsHold, Standing
  <2>8. QED
    BY <2>1, <2>3, <2>4, <2>6, <2>7 DEF AuditOf
<1>12. Counting(r)
  BY <1>2, <1>6, <1>8, <1>10, Uncounted
<1>13. QED
  BY <1>5, <1>7, <1>8, <1>9, <1>11, <1>12 DEF Proper

(* A step of r that is being answered, and may check no call of it *)
LEMMA Underway ==
    ASSUME NEW r \in Requests, Going(r), pc[r] \in CallLabels
    PROVE  /\ told[r] = "none" /\ pc[r] # "done" /\ pc[r] # "idle"
           /\ Path(r) \in LlmPaths /\ call[r] \in Calls
           /\ pc[r] = "respond" => Path(r) = "stream"
           /\ pc[r] \in {"template", "usage", "finish"} => Path(r) # "stream"
           /\ round[r] = "infer" => Path(r) = "rag"
           /\ Guarded =>
                /\ call[r].clean /\ (Logged(r, "input") \/ r \in broken)
                /\ pc[r] \in {"rate", "count", "model", "output"} /\ Path(r) = "stream" =>
                        Logged(r, "input")
                /\ pc[r] \in {"respond", "template", "rate", "count", "model"} =>
                        source[r] = "none"
                /\ pc[r] \in {"usage", "finish"} /\ source[r] # "none" =>
                    (Logged(r, "output") \/ r \in broken) /\ holds[r] = Kept(call[r].answer)
<1>1. pc[r] # "done" /\ pc[r] # "idle"
  BY LabelsAre
<1>2. /\ told[r] = "none" /\ Path(r) \in LlmPaths /\ call[r] \in Calls
      /\ pc[r] = "respond" => Path(r) = "stream"
      /\ pc[r] \in {"template", "usage", "finish"} => Path(r) # "stream"
      /\ round[r] = "infer" => Path(r) = "rag"
  BY <1>1 DEF Going, SettingsHold, Standing, Stands, Inferring
<1>3. Guarded => AuditOf(r)
  BY DEF Going, AuditInv
<1>4. QED
  BY <1>1, <1>2, <1>3 DEF AuditOf

LEMMA NoAnswerIs ==
    ASSUME SettingTypes, CallTypes, NEW r \in Requests, NoAnswer(r)
    PROVE  /\ \A q \in Requests : q # r =>
                pc'[q] = pc[q] /\ told'[q] = told[q] /\ round'[q] = round[q]
           /\ round' \in [Requests -> Rounds]
           /\ \/ /\ pc'[r] = "template" /\ round[r] = "infer" /\ round'[r] = "answer"
                 /\ UNCHANGED told
              \/ /\ pc'[r] = "finish" /\ round[r] # "infer"
                 /\ UNCHANGED <<round, told>>
              \/ /\ pc'[r] = "done" /\ told'[r] = "error" /\ round[r] # "infer"
                 /\ UNCHANGED round
<1>1. CASE round[r] = "infer"
  <2>1. Goto(r, "template") /\ round' = [round EXCEPT ![r] = "answer"] /\ UNCHANGED told
    BY <1>1 DEF NoAnswer
  <2>2. "answer" \in Rounds
    BY DEF Rounds
  <2>3. QED
    BY <1>1, <2>1, <2>2, Onward DEF CallTypes
<1>2. CASE round[r] # "infer"
  <2>1. /\ (Goto(r, "finish") /\ UNCHANGED told) \/ End(r, "error")
        /\ UNCHANGED round
    BY <1>2 DEF NoAnswer
  <2>2. round' \in [Requests -> Rounds]
    BY <2>1 DEF CallTypes
  <2>3. QED
    BY <1>2, <2>1, <2>2, Onward
<1>3. QED
  BY <1>1, <1>2

LEMMA NoAnswerProper ==
    ASSUME NEW r \in Requests, Going(r), NoAnswer(r), pc[r] \in {"rate", "model"},
           UNCHANGED <<call, source, holds, seen, broken, logged>>,
           UNCHANGED <<counter, admitted, crowded, checking>>,
           refused' \subseteq AskType,
           refused' # {} => refused # {} \/ Cardinality(admitted) >= Limit,
           reached' = reached \/ reached' = reached \cup {r}
    PROVE  Proper(r) /\ Counting(r)
<1>1. /\ told[r] = "none" /\ pc[r] # "done" /\ Path(r) \in LlmPaths
      /\ Guarded => call[r].clean /\ (Logged(r, "input") \/ r \in broken) /\ source[r] = "none"
  BY Underway DEF CallLabels
<1>2. /\ \A q \in Requests : q # r =>
                pc'[q] = pc[q] /\ told'[q] = told[q] /\ round'[q] = round[q]
      /\ round' \in [Requests -> Rounds]
      /\ \/ /\ pc'[r] = "template" /\ round[r] = "infer" /\ round'[r] = "answer"
            /\ UNCHANGED told
         \/ /\ pc'[r] = "finish" /\ round[r] # "infer"
            /\ UNCHANGED <<round, told>>
         \/ /\ pc'[r] = "done" /\ told'[r] = "error" /\ round[r] # "infer"
            /\ UNCHANGED round
  BY NoAnswerIs DEF Going, SettingsHold, Standing
<1>3. CallTypes'
  BY <1>2 DEF CallTypes, Going
<1>4. OthersCall(r)
  BY <1>2 DEF OthersCall
<1>5. Inferring(r)'
  BY <1>2 DEF Inferring
<1>6. pc'[r] \in {"template", "finish", "done"} /\ pc'[r] \in CallLabels \cup {"done"}
  BY <1>2 DEF CallLabels
<1>7. ASSUME Guarded
      PROVE  AuditOf(r)'
  <2>1. told'[r] \in {"none", "error"}
    BY <1>1, <1>2
  <2>2. Logged(r, "input")' <=> Logged(r, "input")
    BY DEF Logged
  <2>3. QED
    BY <1>1, <1>6, <1>7, <2>1, <2>2 DEF AuditOf
<1>8. Fresh(r)'
  <2>1. round[r] = "infer" => <<r, "answer">> \notin admitted
    BY <1>1 DEF Going, LimiterInv, CountOf, Fresh
  <2>2. QED
    BY <1>2, <1>6, <2>1 DEF Fresh, Ask
<1>9. Counting(r)
  <2>1. \A q \in Requests : pc'[q] = "count" <=> pc[q] = "count"
    BY <1>2
  <2>2. \A q \in Requests : pc[q] = "count" => Ask(q)' = Ask(q)
    BY <1>2 DEF Ask
  <2>3. checking' = {Ask(q)' : q \in {p \in Requests : pc'[p] = "count"}}
    BY <2>1, <2>2 DEF Going, LimiterInv, Counts
  <2>4. \A a, b \in checking' : a # b => a \in crowded'
    BY DEF Going, LimiterInv, Counts
  <2>5. QED
    BY <1>6, <1>8, <2>3, <2>4 DEF Counting
<1>10. QED
  BY <1>3, <1>4, <1>5, <1>7, <1>9 DEF Proper

(* A request goes on without the gateway *)
LEMMA GoesProper ==
    ASSUME NEW r \in Requests, Going(r), pc[r] \in CallLabels, pc[r] # "count",
           \A q \in Requests : q # r => pc'[q] = pc[q] /\ told'[q] = told[q],
           UNCHANGED <<call, round, limiter, reached>>,
           pc'[r] \in CallLabels \cup {"done"}, pc'[r] # "count",
           pc'[r] \in {"respond", "template", "rate"} => pc[r] \in {"respond", "template", "rate"},
           CallTypes', logged \subseteq logged',
           \A q \in Requests : q # r =>
                /\ source'[q] = source[q] /\ holds'[q] = holds[q]
                /\ q \in broken' <=> q \in broken,
           Guarded => AuditOf(r)'
    PROVE  Proper(r) /\ Counting(r)
<1>1. OthersCall(r)
  BY DEF OthersCall, limiter
<1>2. Inferring(r)'
  BY DEF Going, Inferring, Path
<1>3. Fresh(r)'
  <2>1. /\ pc[r] # "done" /\ pc'[r] # "idle" /\ UNCHANGED <<round, admitted>>
    BY LabelsAre DEF limiter
  <2>2. QED
    BY <2>1 DEF Going, LimiterInv, CountOf, Fresh, Ask
<1>4. Counting(r)
  BY <1>1, <1>3, Uncounted DEF Going
<1>5. QED
  BY <1>1, <1>2, <1>4 DEF Proper

LEMMA RespondProper ==
    ASSUME NEW r \in Requests, Going(r), Respond(r)
    PROVE  Proper(r) /\ Counting(r)
<1>1. /\ pc[r] = "respond" /\ pc[r] \in CallLabels
      /\ UNCHANGED <<call, gateway, limiter, audit>>
  BY DEF Respond, At, CallLabels, quiet
<1>2. UNCHANGED <<call, round, source, holds, counter, seen, admitted, crowded, checking, refused,
                  broken, logged, reached>>
  BY <1>1 DEF gateway, limiter, audit
<1>3. /\ \A q \in Requests : q # r => pc'[q] = pc[q] /\ told'[q] = told[q]
      /\ \/ pc'[r] = "done" /\ told'[r] = "error"
         \/ pc'[r] = "rate" /\ r \notin broken /\ told'[r] = told[r]
  BY Onward DEF Respond, Going, SettingsHold, Standing
<1>4. CallTypes'
  BY <1>2 DEF Going, CallTypes
<1>5. ASSUME Guarded
      PROVE  AuditOf(r)'
  <2>1. /\ told[r] = "none" /\ call[r].clean /\ (Logged(r, "input") \/ r \in broken)
        /\ source[r] = "none"
    BY <1>1, <1>5, Underway
  <2>2. Logged(r, "input")' <=> Logged(r, "input")
    BY <1>2 DEF Logged
  <2>3. QED
    BY <1>2, <1>3, <2>1, <2>2, LabelsAre DEF AuditOf, CallLabels
<1>6. pc'[r] \in {"rate", "done"} /\ "rate" \in CallLabels
  BY <1>3 DEF CallLabels
<1>7. QED
  BY <1>1, <1>2, <1>3, <1>4, <1>5, <1>6, GoesProper

LEMMA SaidIs ==
    ASSUME NEW r \in Requests, Going(r), pc[r] \in CallLabels,
           NEW who \in {"llm", "llama"}, Said(r, who)
    PROVE  /\ source' \in [Requests -> {"none", "llm", "llama"}]
           /\ holds' \in [Requests -> SUBSET Secrets]
           /\ \A q \in Requests : q # r => source'[q] = source[q] /\ holds'[q] = holds[q]
<1>1. call[r] \in Calls
  BY Underway
<1>2. call[r].answer.holds \in SUBSET Secrets
  BY <1>1, CallsAre
<1>3. QED
  BY <1>2 DEF Said, Going, CallTypes

LEMMA RenderProper ==
    ASSUME NEW r \in Requests, Going(r), RenderTemplate(r)
    PROVE  Proper(r) /\ Counting(r)
<1>1. /\ pc[r] = "template" /\ pc[r] \in CallLabels
      /\ UNCHANGED <<call, round, limiter, audit>>
  BY DEF RenderTemplate, At, CallLabels, quiet
<1>2. UNCHANGED <<counter, seen, admitted, crowded, checking, refused, broken, logged, reached>>
  BY <1>1 DEF limiter, audit
<1>3. /\ \A q \in Requests : q # r => pc'[q] = pc[q] /\ told'[q] = told[q]
      /\ \/ pc'[r] = "done" /\ told'[r] = "error"
         \/ pc'[r] \in {"rate", "output"} /\ told'[r] = told[r]
      /\ pc'[r] = "rate" => UNCHANGED source
      /\ UNCHANGED <<source, holds>> \/ Said(r, "llama")
  BY Onward DEF RenderTemplate, Going, SettingsHold, Standing
<1>4. /\ source' \in [Requests -> {"none", "llm", "llama"}]
      /\ holds' \in [Requests -> SUBSET Secrets]
      /\ \A q \in Requests : q # r => source'[q] = source[q] /\ holds'[q] = holds[q]
  BY <1>1, <1>3, SaidIs DEF Going, CallTypes
<1>5. CallTypes'
  BY <1>1, <1>2, <1>4 DEF Going, CallTypes
<1>6. ASSUME Guarded
      PROVE  AuditOf(r)'
  <2>1. /\ told[r] = "none" /\ call[r].clean /\ (Logged(r, "input") \/ r \in broken)
        /\ source[r] = "none" /\ Path(r) # "stream"
    BY <1>1, <1>6, Underway
  <2>2. Logged(r, "input")' <=> Logged(r, "input")
    BY <1>2 DEF Logged
  <2>3. Path(r)' # "stream"
    BY <1>1, <2>1 DEF Path
  <2>4. told'[r] \in {"none", "error"} /\ pc'[r] \in {"rate", "output", "done"}
    BY <1>3, <2>1
  <2>5. QED
    BY <1>1, <1>2, <1>3, <2>1, <2>2, <2>3, <2>4, LabelsAre DEF AuditOf, CallLabels
<1>7. pc'[r] \in {"rate", "output", "done"} /\ {"rate", "output"} \subseteq CallLabels
  BY <1>3 DEF CallLabels
<1>8. QED
  BY <1>1, <1>2, <1>3, <1>4, <1>5, <1>6, <1>7, GoesProper

LEMMA ReadProper ==
    ASSUME NEW r \in Requests, Going(r), ReadCounter(r)
    PROVE  Proper(r) /\ Counting(r)
<1>1. /\ pc[r] = "rate" /\ pc[r] \in CallLabels
      /\ UNCHANGED <<call, source, holds, counter, admitted, broken, logged, reached>>
  BY DEF ReadCounter, At, CallLabels, quiet, audit
<1>2. Ask(r) \in AskType /\ admitted \subseteq AskType /\ refused \subseteq AskType
  BY DEF Ask, AskType, Going, CallTypes
<1>3. CASE OverLimit(counter)
  <2>1. /\ NoAnswer(r) /\ refused' = refused \cup {Ask(r)}
        /\ UNCHANGED <<seen, crowded, checking>>
    BY <1>3 DEF ReadCounter
  <2>2. Cardinality(admitted) >= Limit
    <3>1. counter >= Limit /\ counter <= Cardinality(admitted) /\ counter \in Nat
      BY <1>3 DEF OverLimit, Going, LimiterInv, Counts, CallTypes
    <3>2. Cardinality(admitted) \in Nat /\ Limit \in Nat
      BY <1>2, AsksFinite, LlmAssumption
    <3>3. QED
      BY <3>1, <3>2
  <2>3. refused' \subseteq AskType
    BY <1>2, <2>1
  <2>4. QED
    BY <1>1, <2>1, <2>2, <2>3, NoAnswerProper
<1>4. CASE ~OverLimit(counter)
  <2>1. /\ seen' = [seen EXCEPT ![r] = counter] /\ Goto(r, "count")
        /\ checking' = checking \cup {Ask(r)}
        /\ crowded' = IF checking = {} THEN crowded ELSE crowded \cup checking \cup {Ask(r)}
        /\ UNCHANGED <<told, round, refused>>
    BY <1>4 DEF ReadCounter
  <2>2. /\ pc'[r] = "count"
        /\ \A q \in Requests : q # r => pc'[q] = pc[q]
    BY <2>1, Onward DEF Going, SettingsHold, Standing
  <2>3. CallTypes'
    BY <1>1, <1>2, <2>1 DEF Going, CallTypes
  <2>4. OthersCall(r)
    BY <1>1, <2>1, <2>2 DEF OthersCall, Going, CallTypes
  <2>5. Inferring(r)'
    BY <1>1, <2>1 DEF Going, Inferring, Path
  <2>6. ASSUME Guarded
        PROVE  AuditOf(r)'
    <3>1. /\ told[r] = "none" /\ call[r].clean /\ (Logged(r, "input") \/ r \in broken)
          /\ source[r] = "none" /\ (Path(r) = "stream" => Logged(r, "input"))
      BY <1>1, <2>6, Underway
    <3>2. /\ Logged(r, "input")' <=> Logged(r, "input")
          /\ Path(r)' = Path(r)
      BY <1>1 DEF Logged, Path
    <3>3. told'[r] = "none"
      BY <2>1, <3>1
    <3>4. QED
      BY <1>1, <2>2, <3>1, <3>2, <3>3 DEF AuditOf, CallLabels
  <2>7. Fresh(r)'
    BY <1>1, <2>1, <2>2 DEF Going, LimiterInv, CountOf, Fresh, Ask
  <2>8. checking' = {Ask(q)' : q \in {p \in Requests : pc'[p] = "count"}}
    <3>1. \A q \in Requests : Ask(q)' = Ask(q)
      BY <2>1 DEF Ask
    <3>2. checking = {Ask(q) : q \in {p \in Requests : pc[p] = "count"}}
      BY DEF Going, LimiterInv, Counts
    <3>3. {p \in Requests : pc'[p] = "count"} = {p \in Requests : pc[p] = "count"} \cup {r}
      BY <2>2
    <3>4. checking' = {Ask(q) : q \in {p \in Requests : pc'[p] = "count"}}
      BY <2>1, <3>2, <3>3
    <3>5. QED
      BY <3>1, <3>4
  <2>9. \A a, b \in checking' : a # b => a \in crowded'
    BY <2>1
  <2>10. counter = 0 \/ counter < Limit
    BY <1>4, LlmAssumption DEF OverLimit, Going, CallTypes
  <2>11. seen'[r] = counter /\ crowded \subseteq crowded'
    BY <2>1 DEF Going, CallTypes
  <2>12. Counting(r)
    BY <1>1, <2>1, <2>7, <2>8, <2>9, <2>10, <2>11 DEF Counting
  <2>13. QED
    BY <1>1, <2>3, <2>4, <2>5, <2>6, <2>12 DEF Proper
<1>5. QED
  BY <1>3, <1>4

(* The check of a call of r is over *)
LEMMA CheckedIs ==
    ASSUME NEW r \in Requests, Going(r), Checked(r)
    PROVE  /\ seen' \in [Requests -> Nat] /\ checking' \subseteq AskType
           /\ \A q \in Requests : q # r => seen'[q] = seen[q]
           /\ checking' \subseteq checking
           /\ (/\ UNCHANGED round
               /\ pc'[r] # "count"
               /\ \A q \in Requests : q # r => pc'[q] = pc[q]) =>
                /\ checking' = {Ask(q)' : q \in {p \in Requests : pc'[p] = "count"}}
                /\ \A a, b \in checking' : a # b => a \in crowded
<1>1. /\ seen' \in [Requests -> Nat] /\ checking' \subseteq AskType
      /\ \A q \in Requests : q # r => seen'[q] = seen[q]
      /\ checking' = {q \in checking : q[1] # r}
  BY DEF Checked, Going, CallTypes
<1>2. ASSUME UNCHANGED round, pc'[r] # "count", \A q \in Requests : q # r => pc'[q] = pc[q]
      PROVE  checking' = {Ask(q)' : q \in {p \in Requests : pc'[p] = "count"}}
  <2>1. checking = {Ask(q) : q \in {p \in Requests : pc[p] = "count"}}
    BY DEF Going, LimiterInv, Counts
  <2>2. \A q \in Requests : Ask(q)[1] = q /\ Ask(q)' = Ask(q)
    BY <1>2 DEF Ask
  <2>3. checking' = {Ask(q) : q \in {p \in Requests : pc[p] = "count" /\ p # r}}
    BY <1>1, <2>1, <2>2
  <2>4. {p \in Requests : pc[p] = "count" /\ p # r} = {p \in Requests : pc'[p] = "count"}
    BY <1>2
  <2>5. QED
    BY <2>2, <2>3, <2>4
<1>3. \A a, b \in checking' : a # b => a \in crowded
  BY <1>1 DEF Going, LimiterInv, Counts
<1>4. QED
  BY <1>1, <1>2, <1>3

LEMMA SetProper ==
    ASSUME NEW r \in Requests, Going(r), SetCounter(r)
    PROVE  Proper(r) /\ LimiterInv'
<1>1. /\ pc[r] = "count" /\ pc[r] \in CallLabels
      /\ UNCHANGED <<call, told, round, source, holds, crowded, refused, broken, logged, reached>>
      /\ Checked(r) /\ Goto(r, "model")
      /\ counter' = seen[r] + 1 /\ admitted' = admitted \cup {Ask(r)}
  BY DEF SetCounter, At, CallLabels, quiet, audit, gateway
<1>2. /\ pc'[r] = "model"
      /\ \A q \in Requests : q # r => pc'[q] = pc[q]
  BY <1>1, Onward DEF Going, SettingsHold, Standing
<1>3. /\ seen' \in [Requests -> Nat] /\ checking' \subseteq AskType
      /\ \A q \in Requests : q # r => seen'[q] = seen[q]
  BY <1>1, CheckedIs
<1>4. CallTypes'
  <2>1. counter' \in Nat
    BY <1>1 DEF Going, CallTypes
  <2>2. admitted' \subseteq AskType
    BY <1>1 DEF Going, CallTypes, Ask, AskType
  <2>3. QED
    BY <1>1, <1>3, <2>1, <2>2 DEF Going, CallTypes
<1>5. OthersCall(r)
  BY <1>1, <1>2, <1>3 DEF OthersCall
<1>6. Inferring(r)'
  BY <1>1 DEF Going, Inferring, Path
<1>7. ASSUME Guarded
      PROVE  AuditOf(r)'
  <2>1. /\ told[r] = "none" /\ call[r].clean /\ (Logged(r, "input") \/ r \in broken)
        /\ source[r] = "none" /\ (Path(r) = "stream" => Logged(r, "input"))
    BY <1>1, <1>7, Underway
  <2>2. /\ Logged(r, "input")' <=> Logged(r, "input")
        /\ Path(r)' = Path(r)
    BY <1>1 DEF Logged, Path
  <2>3. told'[r] = "none"
    BY <1>1, <2>1
  <2>4. QED
    BY <1>1, <1>2, <2>1, <2>2, <2>3 DEF AuditOf, CallLabels
<1>8. LimiterInv'
  BY <1>2, <1>4, <1>5, Admitted DEF Going
<1>9. QED
  BY <1>1, <1>4, <1>5, <1>6, <1>7, <1>8 DEF Proper

LEMMA ThroughProper ==
    ASSUME NEW r \in Requests, Going(r), LetThrough(r)
    PROVE  Proper(r) /\ Counting(r)
<1>1. /\ pc[r] \in {"rate", "count"} /\ pc[r] \in CallLabels
      /\ UNCHANGED <<call, told, round, source, holds, counter, admitted, crowded, refused,
                     broken, logged, reached>>
      /\ Checked(r) /\ Goto(r, "model")
  BY DEF LetThrough, CallLabels, quiet, audit, gateway
<1>2. /\ pc'[r] = "model"
      /\ \A q \in Requests : q # r => pc'[q] = pc[q]
  BY <1>1, Onward DEF Going, SettingsHold, Standing
<1>3. /\ seen' \in [Requests -> Nat] /\ checking' \subseteq AskType
      /\ \A q \in Requests : q # r => seen'[q] = seen[q]
      /\ checking' = {Ask(q)' : q \in {p \in Requests : pc'[p] = "count"}}
      /\ \A a, b \in checking' : a # b => a \in crowded
  BY <1>1, <1>2, CheckedIs
<1>4. CallTypes'
  BY <1>1, <1>3 DEF Going, CallTypes
<1>5. OthersCall(r)
  BY <1>1, <1>2, <1>3 DEF OthersCall
<1>6. Inferring(r)'
  BY <1>1 DEF Going, Inferring, Path
<1>7. ASSUME Guarded
      PROVE  AuditOf(r)'
  <2>1. /\ told[r] = "none" /\ call[r].clean /\ (Logged(r, "input") \/ r \in broken)
        /\ source[r] = "none" /\ (Path(r) = "stream" => Logged(r, "input"))
    BY <1>1, <1>7, Underway
  <2>2. /\ Logged(r, "input")' <=> Logged(r, "input")
        /\ Path(r)' = Path(r)
    BY <1>1 DEF Logged, Path
  <2>3. told'[r] = "none"
    BY <1>1, <2>1
  <2>4. QED
    BY <1>1, <1>2, <2>1, <2>2, <2>3 DEF AuditOf, CallLabels
<1>8. Fresh(r)'
  BY <1>1, <1>2 DEF Going, LimiterInv, CountOf, Fresh
<1>9. QED
  BY <1>1, <1>2, <1>3, <1>4, <1>5, <1>6, <1>7, <1>8 DEF Proper, Counting

LEMMA ModelProper ==
    ASSUME NEW r \in Requests, Going(r), pc[r] = "model", ModelAnswers(r)
    PROVE  Proper(r) /\ Counting(r)
<1>1. /\ pc[r] \in CallLabels /\ reached' = reached \cup {r}
      /\ UNCHANGED <<call, limiter, broken, logged>>
  BY DEF ModelAnswers, CallLabels, quiet
<1>2. UNCHANGED <<counter, seen, admitted, crowded, checking, refused>>
  BY <1>1 DEF limiter
<1>3. CASE NoAnswer(r) /\ UNCHANGED <<source, holds>>
  <2>1. refused' \subseteq AskType
    BY <1>2 DEF Going, CallTypes
  <2>2. QED
    BY <1>1, <1>2, <1>3, <2>1, NoAnswerProper
<1>4. CASE Said(r, "llm") /\ Goto(r, "output") /\ UNCHANGED <<told, round>>
  <2>1. /\ pc'[r] = "output"
        /\ \A q \in Requests : q # r => pc'[q] = pc[q]
    BY <1>4, Onward DEF Going, SettingsHold, Standing
  <2>2. /\ source' \in [Requests -> {"none", "llm", "llama"}]
        /\ holds' \in [Requests -> SUBSET Secrets]
        /\ \A q \in Requests : q # r => source'[q] = source[q] /\ holds'[q] = holds[q]
    BY <1>1, <1>4, SaidIs
  <2>3. CallTypes'
    BY <1>1, <1>2, <1>4, <2>2 DEF Going, CallTypes
  <2>4. ASSUME Guarded
        PROVE  AuditOf(r)'
    <3>1. /\ told[r] = "none" /\ call[r].clean /\ (Logged(r, "input") \/ r \in broken)
          /\ source[r] = "none" /\ (Path(r) = "stream" => Logged(r, "input"))
      BY <1>1, <2>4, Underway
    <3>2. /\ Logged(r, "input")' <=> Logged(r, "input")
          /\ Path(r)' = Path(r)
      BY <1>1 DEF Logged, Path
    <3>3. told'[r] = "none"
      BY <1>4, <3>1
    <3>4. QED
      BY <1>1, <2>1, <3>1, <3>2, <3>3 DEF AuditOf, CallLabels
  <2>5. OthersCall(r)
    BY <1>1, <1>2, <1>4, <2>1, <2>2 DEF OthersCall
  <2>6. Inferring(r)'
    BY <1>1, <1>4 DEF Going, Inferring, Path
  <2>7. Fresh(r)'
    BY <1>2, <1>4, <2>1 DEF Going, LimiterInv, CountOf, Fresh
  <2>8. Counting(r)
    BY <1>1, <2>1, <2>5, <2>7, Uncounted DEF Going
  <2>9. QED
    BY <1>1, <2>3, <2>4, <2>5, <2>6, <2>8 DEF Proper
<1>5. QED
  BY <1>3, <1>4 DEF ModelAnswers

LEMMA CheckProper ==
    ASSUME NEW r \in Requests, Going(r), CheckOutput(r)
    PROVE  Proper(r) /\ Counting(r)
<1>1. /\ pc[r] = "output" /\ pc[r] \in CallLabels
      /\ UNCHANGED <<call, round, source, limiter, reached>>
      /\ holds' = [holds EXCEPT ![r] = IF Guarded THEN Kept(call[r].answer) ELSE @]
  BY DEF CheckOutput, At, CallLabels, quiet
<1>2. PICK a \in {"allowed", "redacted", "blocked"} : LogCheck(r, "output", a)
  BY DEF CheckOutput, Action
<1>3. /\ logged \subseteq logged' /\ broken \subseteq broken'
      /\ logged' \subseteq Requests \X {"input", "output"} \X {"allowed", "redacted", "blocked"}
      /\ broken' \subseteq Requests
      /\ \A q \in Requests : q # r => (q \in broken' <=> q \in broken)
      /\ Logged(r, "input") => Logged(r, "input")'
      /\ Guarded => Logged(r, "output")' \/ r \in broken'
  BY <1>2, Logs DEF Going
<1>4. /\ \A q \in Requests : q # r => pc'[q] = pc[q] /\ told'[q] = told[q]
      /\ \/ pc'[r] = "done" /\ told'[r] = "ok" /\ Path(r) = "stream"
         \/ pc'[r] \in {"usage", "finish"} /\ told'[r] = told[r]
  <2>1. CASE Path(r) = "stream"
    BY <2>1, Onward DEF CheckOutput, Going, SettingsHold, Standing
  <2>2. CASE Path(r) # "stream"
    BY <2>2, Onward DEF CheckOutput, Going, SettingsHold, Standing
  <2>3. QED
    BY <2>1, <2>2
<1>5. /\ holds' \in [Requests -> SUBSET Secrets]
      /\ \A q \in Requests : q # r => holds'[q] = holds[q]
      /\ Guarded => holds'[r] = Kept(call[r].answer)
  <2>1. Kept(call[r].answer) \in SUBSET Secrets
    <3>1. call[r] \in Calls
      BY <1>1, Underway
    <3>2. call[r].answer.holds \subseteq Secrets
      BY <3>1, CallsAre
    <3>3. QED
      BY <3>2 DEF Kept
  <2>2. QED
    BY <1>1, <2>1 DEF Going, CallTypes
<1>6. CallTypes'
  BY <1>1, <1>3, <1>5 DEF Going, CallTypes, limiter
<1>7. ASSUME Guarded
      PROVE  AuditOf(r)'
  <2>1. /\ told[r] = "none" /\ call[r].clean /\ (Logged(r, "input") \/ r \in broken)
        /\ Path(r) = "stream" => Logged(r, "input")
    BY <1>1, <1>7, Underway
  <2>2. /\ Path(r)' = Path(r) /\ call' = call
        /\ Logged(r, "input")' \/ r \in broken'
        /\ Path(r) = "stream" => Logged(r, "input")'
        /\ Logged(r, "output")' \/ r \in broken'
        /\ holds'[r] = Kept(call[r].answer)
    BY <1>1, <1>3, <1>5, <1>7, <2>1 DEF Path
  <2>3. CASE pc'[r] = "done" /\ told'[r] = "ok" /\ Path(r) = "stream"
    BY <2>1, <2>2, <2>3, LabelsAre DEF AuditOf
  <2>4. CASE pc'[r] \in {"usage", "finish"} /\ told'[r] = told[r]
    BY <2>1, <2>2, <2>4 DEF AuditOf, CallLabels
  <2>5. QED
    BY <1>4, <2>3, <2>4
<1>8. /\ pc'[r] \in CallLabels \cup {"done"} /\ pc'[r] # "count"
      /\ pc'[r] \notin {"respond", "template", "rate"} /\ pc[r] # "count"
      /\ \A q \in Requests : q # r => source'[q] = source[q]
  BY <1>1, <1>4 DEF CallLabels
<1>9. QED
  BY <1>1, <1>3, <1>4, <1>5, <1>6, <1>7, <1>8, GoesProper

LEMMA RecordProper ==
    ASSUME NEW r \in Requests, Going(r), RecordUsage(r)
    PROVE  Proper(r) /\ Counting(r)
<1>1. /\ pc[r] = "usage" /\ pc[r] \in CallLabels
      /\ UNCHANGED <<call, gateway, limiter, audit>>
  BY DEF RecordUsage, At, CallLabels, quiet
<1>2. UNCHANGED <<round, source, holds, counter, seen, admitted, crowded, checking, refused,
                  broken, logged, reached>>
  BY <1>1 DEF gateway, limiter, audit
<1>3. /\ \A q \in Requests : q # r => pc'[q] = pc[q] /\ told'[q] = told[q]
      /\ \/ pc'[r] = "done" /\ told'[r] = "error"
         \/ pc'[r] = "finish" /\ told'[r] = told[r]
  BY Onward DEF RecordUsage, Going, SettingsHold, Standing
<1>4. CallTypes'
  BY <1>2 DEF Going, CallTypes
<1>5. ASSUME Guarded
      PROVE  AuditOf(r)'
  <2>1. /\ told[r] = "none" /\ call[r].clean /\ (Logged(r, "input") \/ r \in broken)
        /\ source[r] # "none" =>
             (Logged(r, "output") \/ r \in broken) /\ holds[r] = Kept(call[r].answer)
    BY <1>1, <1>5, Underway
  <2>2. /\ Logged(r, "input")' <=> Logged(r, "input")
        /\ Logged(r, "output")' <=> Logged(r, "output")
    BY <1>2 DEF Logged
  <2>3. QED
    BY <1>1, <1>2, <1>3, <2>1, <2>2, LabelsAre DEF AuditOf, CallLabels
<1>6. pc'[r] \in {"finish", "done"} /\ "finish" \in CallLabels
  BY <1>3 DEF CallLabels
<1>7. QED
  BY <1>1, <1>2, <1>3, <1>4, <1>5, <1>6, GoesProper

LEMMA FinishProper ==
    ASSUME NEW r \in Requests, Going(r), Finish(r)
    PROVE  Proper(r) /\ Counting(r)
<1>1. /\ pc[r] = "finish" /\ pc[r] \in CallLabels
      /\ UNCHANGED <<call, gateway, limiter, audit>>
  BY DEF Finish, At, CallLabels, quiet
<1>2. UNCHANGED <<round, source, holds, counter, seen, admitted, crowded, checking, refused,
                  broken, logged, reached>>
  BY <1>1 DEF gateway, limiter, audit
<1>3. /\ pc'[r] = "done"
      /\ \A q \in Requests : q # r => pc'[q] = pc[q] /\ told'[q] = told[q]
      /\ \/ told'[r] = "error"
         \/ r \notin broken /\ told'[r] = (IF source[r] = "none" THEN "no_answer" ELSE "ok")
  BY Onward DEF Finish, Commits, Going, SettingsHold, Standing
<1>4. CallTypes'
  BY <1>2 DEF Going, CallTypes
<1>5. ASSUME Guarded
      PROVE  AuditOf(r)'
  <2>1. /\ told[r] = "none" /\ call[r].clean /\ (Logged(r, "input") \/ r \in broken)
        /\ source[r] # "none" =>
             (Logged(r, "output") \/ r \in broken) /\ holds[r] = Kept(call[r].answer)
    BY <1>1, <1>5, Underway
  <2>2. /\ Logged(r, "input")' <=> Logged(r, "input")
        /\ Logged(r, "output")' <=> Logged(r, "output")
    BY <1>2 DEF Logged
  <2>3. CASE told'[r] = "error"
    BY <1>1, <1>2, <1>3, <2>1, <2>3, LabelsAre DEF AuditOf
  <2>4. CASE r \notin broken /\ told'[r] = (IF source[r] = "none" THEN "no_answer" ELSE "ok")
    BY <1>1, <1>2, <1>3, <2>1, <2>2, <2>4, LabelsAre DEF AuditOf
  <2>5. QED
    BY <1>3, <2>3, <2>4
<1>6. QED
  BY <1>1, <1>2, <1>3, <1>4, <1>5, GoesProper

LEMMA FailProper ==
    ASSUME NEW r \in Requests, Going(r), CallFails(r)
    PROVE  Proper(r) /\ Counting(r)
<1>1. /\ pc[r] \in {"finish", "template", "usage"} /\ pc[r] \in CallLabels
      /\ broken' = broken \cup {r}
      /\ UNCHANGED <<call, pc, told, gateway, limiter, logged, reached>>
  BY DEF CallFails, CallLabels, quiet
<1>2. UNCHANGED <<round, source, holds, counter, seen, admitted, crowded, checking, refused>>
  BY <1>1 DEF gateway, limiter
<1>3. CallTypes'
  BY <1>1, <1>2 DEF Going, CallTypes
<1>4. ASSUME Guarded
      PROVE  AuditOf(r)'
  <2>1. /\ told[r] = "none" /\ call[r].clean
        /\ pc[r] = "template" => source[r] = "none"
        /\ pc[r] \in {"usage", "finish"} /\ source[r] # "none" => holds[r] = Kept(call[r].answer)
    BY <1>1, <1>4, Underway
  <2>2. r \in broken'
    BY <1>1
  <2>3. QED
    BY <1>1, <1>2, <2>1, <2>2 DEF AuditOf
<1>5. \A q \in Requests : q # r => (q \in broken' <=> q \in broken)
  BY <1>1
<1>6. pc'[r] \in CallLabels /\ pc'[r] # "count" /\ pc[r] # "count"
  BY <1>1
<1>7. QED
  BY <1>1, <1>2, <1>3, <1>4, <1>5, <1>6, GoesProper

LEMMA LostProper ==
    ASSUME NEW r \in Requests, Going(r), Disconnect(r)
    PROVE  Proper(r) /\ Counting(r)
<1>1. /\ pc[r] \in CallLabels /\ Checked(r) /\ End(r, "lost")
      /\ UNCHANGED <<call, round, source, holds, counter, admitted, crowded, refused,
                     broken, logged, reached>>
  BY DEF Disconnect, CallLabels, quiet, audit, gateway
<1>2. /\ pc'[r] = "done" /\ told'[r] = "lost"
      /\ \A q \in Requests : q # r => pc'[q] = pc[q] /\ told'[q] = told[q]
  BY <1>1, Onward DEF Going, SettingsHold, Standing
<1>3. /\ seen' \in [Requests -> Nat] /\ checking' \subseteq AskType
      /\ \A q \in Requests : q # r => seen'[q] = seen[q]
      /\ checking' = {Ask(q)' : q \in {p \in Requests : pc'[p] = "count"}}
      /\ \A a, b \in checking' : a # b => a \in crowded
  BY <1>1, <1>2, CheckedIs
<1>4. CallTypes'
  BY <1>1, <1>3 DEF Going, CallTypes
<1>5. OthersCall(r)
  BY <1>1, <1>2, <1>3 DEF OthersCall
<1>6. Inferring(r)'
  BY <1>2, LabelsAre DEF Inferring
<1>7. ASSUME Guarded
      PROVE  AuditOf(r)'
  <2>1. call[r].clean
    BY <1>1, <1>7, Underway
  <2>2. QED
    BY <1>1, <1>2, <2>1, LabelsAre DEF AuditOf
<1>8. Fresh(r)'
  BY <1>2 DEF Fresh
<1>9. QED
  BY <1>1, <1>2, <1>3, <1>4, <1>5, <1>6, <1>7, <1>8 DEF Proper, Counting
-----------------------------------------------------------------------------
LEMMA StepsKeep ==
    ASSUME CallsInv, NEW r \in Requests,
           \/ SettingStep(r) /\ UNCHANGED <<gateway, limiter, audit>>
           \/ CallStep(r)
    PROVE  CallsInv'
<1>1. /\ SettingsHold /\ CallTypes /\ LimiterInv /\ AuditInv
      /\ \A q \in Requests : Inferring(q)
  BY DEF CallsInv
<1>2. SettingsHold'
  BY <1>1, SettingSteps, CallSteps
<1>3. Going(r)
  BY <1>1, <1>2 DEF Going
<1>4. Proper(r) /\ (Counting(r) \/ LimiterInv')
  <2>1. CASE SettingStep(r) /\ UNCHANGED <<gateway, limiter, audit>>
    BY <1>1, <1>2, <2>1, SettingProper
  <2>2. CASE AskModel(r) \/ StreamModel(r)
    BY <1>3, <2>2, ModelProper DEF AskModel, StreamModel, At
  <2>3. CASE SetCounter(r)
    BY <1>3, <2>3, SetProper
  <2>4. CASE \/ OpenCall(r) \/ Respond(r) \/ RenderTemplate(r) \/ ReadCounter(r)
             \/ LetThrough(r) \/ CheckOutput(r) \/ RecordUsage(r) \/ Finish(r)
             \/ CallFails(r) \/ Disconnect(r)
    BY <1>3, <2>4, OpenProper, RespondProper, RenderProper, ReadProper, ThroughProper,
       CheckProper, RecordProper, FinishProper, FailProper, LostProper
  <2>5. QED
    BY <2>1, <2>2, <2>3, <2>4 DEF CallStep
<1>5. CallTypes' /\ OthersCall(r) /\ Inferring(r)'
  BY <1>4 DEF Proper
<1>6. LimiterInv'
  BY <1>1, <1>4, <1>5, NothingAdmitted
<1>7. AuditInv'
  BY <1>1, <1>4, OthersAudited DEF Proper
<1>8. \A q \in Requests : Inferring(q)'
  BY <1>1, <1>5 DEF OthersCall, Inferring, Path
<1>9. QED
  BY <1>2, <1>5, <1>6, <1>7, <1>8 DEF CallsInv

LEMMA CallsStart == Init => CallsInv
<1> SUFFICES ASSUME Init PROVE CallsInv
  OBVIOUS
<1> USE DEF Init, InitSettings
<1>1. SettingTypes
  <2>1. NoBudget \in Budget
    BY DEF NoBudget, Budget
  <2>2. template \in [Templates -> TemplateRow]
    BY DEF TemplateRow
  <2>3. "idle" \in Labels /\ "none" \in Answers
    BY DEF Labels, Answers
  <2>4. QED
    BY <2>1, <2>2, <2>3, SettingsAssumption DEF SettingTypes
<1>2. \A r \in Requests : Stands(r)
  BY DEF Stands, SettingLabels, CallLabels
<1>3. Opened /\ BudgetOf
  BY DEF Opened, Holding, BudgetOf, NoBudget
<1>4. ASSUME NEW t \in Templates
      PROVE  UsageOf(t) /\ VersionOf(t)
  <2>1. Writers(Usage(t)) = {} /\ Alone(Usage(t)) = {} /\ Alone(Version(t)) = {}
    BY DEF Writers, Alone
  <2>2. template[t].usage = 0 /\ (template[t].state = "none" => template[t].version = 0)
    OBVIOUS
  <2>3. QED
    BY <2>1, <2>2, FS_EmptySet DEF UsageOf, VersionOf
<1>5. SettingsHold
  BY <1>1, <1>2, <1>3, <1>4 DEF SettingsHold, Standing, SettingsInv
<1>6. CallTypes
  BY DEF CallTypes, Rounds
<1>7. \A r \in Requests : Inferring(r) /\ CountOf(r)
  BY LabelsAre DEF Inferring, CountOf, Fresh
<1>8. Counts
  <2>1. Uncrowded = {}
    BY DEF Uncrowded
  <2>2. 0 <= AtMostLimit
    BY LlmAssumption DEF AtMostLimit
  <2>3. checking = {Ask(q) : q \in {p \in Requests : pc[p] = "count"}}
    OBVIOUS
  <2>4. QED
    BY <2>1, <2>2, <2>3, FS_EmptySet DEF Counts
<1>9. AuditInv
  BY LabelsAre DEF AuditInv, AuditOf
<1>10. QED
  BY <1>5, <1>6, <1>7, <1>8, <1>9 DEF CallsInv, LimiterInv

LEMMA CallsStay == CallsInv /\ [Next]_vars => CallsInv'
<1> SUFFICES ASSUME CallsInv, [Next]_vars PROVE CallsInv'
  OBVIOUS
<1>1. CASE Next
  BY <1>1, StepsKeep DEF Next
<1>2. CASE UNCHANGED vars
  <2>1. /\ UNCHANGED <<call, pc, told, row, before, loaded, template, budget, open, overlapped>>
        /\ UNCHANGED <<written, named, lastSet, faults>>
        /\ UNCHANGED <<counter, round, seen, broken, source, logged, holds, reached, admitted,
                       crowded, checking, refused>>
    BY <1>2 DEF vars, settings, request, history, gateway, limiter, audit
  <2>2. SettingsHold'
    <3>1. SettingsHold
      BY DEF CallsInv
    <3>2. SettingTypes'
      BY <2>1, <3>1 DEF SettingsHold, Standing, SettingTypes
    <3>3. \A r \in Requests : Stands(r)'
      BY <2>1, <3>1 DEF SettingsHold, Standing, Stands, Path, Target
    <3>4. Opened' /\ BudgetOf'
      BY <2>1, <3>1 DEF SettingsHold, SettingsInv, Opened, Holding, BudgetOf, Path, Target
    <3>5. \A x : Writers(x)' = Writers(x) /\ Alone(x)' = Alone(x)
      BY <2>1 DEF Writers, Alone
    <3>6. ASSUME NEW t \in Templates
          PROVE  UsageOf(t)' /\ VersionOf(t)'
      <4>1. UsageOf(t) /\ VersionOf(t)
        BY <3>1 DEF SettingsHold, SettingsInv
      <4>2. UsageOf(t)'
        BY <2>1, <3>5, <4>1 DEF UsageOf, Usage
      <4>3. VersionOf(t)'
        BY <2>1, <3>5, <4>1 DEF VersionOf, Version
      <4>4. QED
        BY <4>2, <4>3
    <3>7. QED
      BY <3>2, <3>3, <3>4, <3>6 DEF SettingsHold, Standing, SettingsInv
  <2>3. CallTypes' /\ \A r \in Requests : Inferring(r)'
    BY <2>1 DEF CallsInv, CallTypes, Inferring, Path
  <2>4. LimiterInv'
    BY <2>1 DEF CallsInv, LimiterInv, Counts, CountOf, Fresh, Uncrowded, Ask, AtMostLimit
  <2>5. AuditInv'
    BY <2>1 DEF CallsInv, AuditInv, AuditOf, Path, Logged
  <2>6. QED
    BY <2>2, <2>3, <2>4, <2>5 DEF CallsInv
<1>3. QED
  BY <1>1, <1>2

(* What is left of an answer is matched by one pattern at most *)
LEMMA KeptIsPlain ==
    ASSUME NEW t \in Text
    PROVE  Cardinality(UNION {Matching[s] : s \in Kept(t)}) < 2
<1> DEFINE F == UNION {Matching[s] : s \in t.holds}
<1>1. t.holds \subseteq Secrets
  BY DEF Text
<1>2. IsFiniteSet(F) /\ Cardinality(F) \in Nat
  <2>1. F \subseteq {"phone_cn"} \cup ({"email"} \cup ({"id_card"} \cup {"bank_card"}))
    BY <1>1 DEF Secrets, Matching
  <2>2. IsFiniteSet({"phone_cn"} \cup ({"email"} \cup ({"id_card"} \cup {"bank_card"})))
    BY FS_Singleton, FS_Union
  <2>3. QED
    BY <2>1, <2>2, FS_Subset, FS_CardinalityType
<1>3. CASE Redacts(t)
  <2>1. Kept(t) = {}
    BY <1>3 DEF Kept
  <2>2. UNION {Matching[s] : s \in Kept(t)} = {}
    BY <2>1
  <2>3. QED
    BY <2>2, FS_EmptySet
<1>4. CASE ~Redacts(t)
  <2>1. Kept(t) = t.holds
    BY <1>4 DEF Kept
  <2> DEFINE n == Cardinality(F)
  <2>2. ~(AtMost(25 * n, 100) >= 50)
    BY <1>4 DEF Redacts, Blocks, PiiScore, Found
  <2>3. n \in Nat
    BY <1>2
  <2> HIDE DEF n, F
  <2>4. n < 2
    BY <2>2, <2>3 DEF AtMost
  <2>5. QED
    BY <2>1, <2>4 DEF n, F
<1>5. QED
  BY <1>3, <1>4

(* Every variable of the calls to language models, and of the settings of the tenant,
   keeps its type. *)
THEOREM CallsTypeCorrect == Spec => []TypeOK
<1>1. CallsInv => TypeOK
  BY TypesAre DEF CallsInv, SettingsHold, Standing
<1>2. QED
  BY <1>1, CallsStart, CallsStay, PTL DEF Spec

(* Template and budget: only updates that overlapped are lost, of the versions of a
   template and of its usage, for any number of requests and templates. *)
THEOREM OverlapsLose == Spec => []OnlyOverlapsLose
<1>1. CallsInv => OnlyOverlapsLose
  <2> SUFFICES ASSUME CallsInv PROVE OnlyOverlapsLose
    OBVIOUS
  <2>1. \A t \in Templates : UsageOf(t) /\ VersionOf(t)
    BY DEF CallsInv, SettingsHold, SettingsInv
  <2>2. QED
    BY <2>1 DEF OnlyOverlapsLose, UsageOf, VersionOf, Usage, Version
<1>2. QED
  BY <1>1, CallsStart, CallsStay, PTL DEF Spec

(* A field of the budget holds what was last asked for it, unless that request
   overlapped with another. *)
THEOREM BudgetStays == Spec => []BudgetIsKept
<1>1. CallsInv => BudgetIsKept
  BY DEF CallsInv, SettingsHold, SettingsInv, BudgetOf, BudgetIsKept, TheBudget
<1>2. QED
  BY <1>1, CallsStart, CallsStay, PTL DEF Spec

(* _check_rate_limit: for any limit, the calls beyond it are among those whose checks
   overlapped, or found Redis failing, and none is refused before it is reached. *)
THEOREM RateStaysLimited == Spec => []RateIsLimited
<1>1. CallsInv => RateIsLimited
  BY DEF CallsInv, LimiterInv, Counts, RateIsLimited, Uncrowded, AtMostLimit
<1>2. QED
  BY <1>1, CallsStart, CallsStay, PTL DEF Spec

(* log_check and check_output: an answer has its rows in the log, though a row that
   cannot be written is only warned of, and holds at most what one pattern matches. *)
THEOREM AnswersStayAudited == Spec => []AnswersAreAudited
<1>1. CallsInv => AnswersAreAudited
  <2> SUFFICES ASSUME CallsInv, Guarded, NEW r \in Requests
               PROVE  /\ r \in reached => call[r].clean
                      /\ told[r] \in {"ok", "no_answer"} /\ Path(r) \in LlmPaths =>
                            Logged(r, "input")
                      /\ told[r] = "ok" /\ Path(r) \in {"chat", "rag"} => Logged(r, "output")
                      /\ told[r] = "ok" /\ Path(r) \in LlmPaths =>
                            Cardinality(UNION {Matching[s] : s \in holds[r]}) < 2
    BY DEF AnswersAreAudited
  <2>1. AuditOf(r)
    BY DEF CallsInv, AuditInv
  <2>2. told[r] = "ok" => call[r] \in Calls
    BY DEF CallsInv, SettingsHold, Standing, Stands
  <2>3. ASSUME told[r] = "ok", Path(r) \in LlmPaths
        PROVE  Cardinality(UNION {Matching[s] : s \in holds[r]}) < 2
    <3>1. holds[r] = Kept(call[r].answer) /\ call[r].answer \in Text
      BY <2>1, <2>2, <2>3, CallsAre DEF AuditOf
    <3>2. QED
      BY <3>1, KeptIsPlain
  <2>4. QED
    BY <2>1, <2>3 DEF AuditOf
<1>2. QED
  BY <1>1, CallsStart, CallsStay, PTL DEF Spec
=============================================================================
