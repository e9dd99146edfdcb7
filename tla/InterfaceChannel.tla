------------------------- MODULE InterfaceChannel -------------------------
(***************************************************************************)
(* The WebSocket channel of the API process that pushes the validation     *)
(* reports of one tenant to browser tabs, fed by the workers as ReportFeed *)
(* says (ValidationTask is shown to do so).                                *)
(*                                                                         *)
(* Every connected tab has a loop of its own that subscribes to the Redis  *)
(* channel and a loop that polls the latest key; either sends what it gets *)
(* to all tabs, and the channel remembers the report sent last.            *)
(***************************************************************************)
EXTENDS ReportFeed, Sequences

CONSTANTS
    Tabs,            \* browser tabs
    MaxConnects,     \* bound on how often each tab connects
    MaxChannelFaults \* bound on failed calls, stalls, restarts and expiries

ASSUME ChannelAssumption == MaxConnects \in Nat /\ MaxChannelFaults \in Nat

(* The two loops of every tab *)
Loops == Tabs \X {"subscribe", "poll"}

VARIABLES
    online,       \* _clients of the channel
    last,         \* _last_payload of the channel
    inbox,        \* Redis: messages on their way to each tab's subscribe loop
    listening,    \* tabs whose subscribe loop is subscribed
    polled,       \* the value each tab's poll loop has read and not yet compared
    sending,      \* the rest of each loop's broadcast: clients it has yet to send to
    shown,        \* the report each tab shows
    connects,     \* history: how often each tab connected
    stalled,      \* history: a broadcast was suspended between two clients
    channelFaults \* history: how many faults have happened

redisVars == <<feedVars, inbox>>
channelVars == <<feedVars, online, last, inbox, listening, polled, sending, shown, connects,
                 stalled, channelFaults>>

NothingLeft == [report |-> NoReport, left |-> {}]

ChannelInit ==
    /\ FeedInit
    /\ online = {}
    /\ last = NoReport
    /\ inbox = [k \in Tabs |-> <<>>]
    /\ listening = {}
    /\ polled = [k \in Tabs |-> NoReport]
    /\ sending = [p \in Loops |-> NothingLeft]
    /\ shown = [k \in Tabs |-> NoReport]
    /\ connects = [k \in Tabs |-> 0]
    /\ stalled = FALSE
    /\ channelFaults = 0

ChannelFault == channelFaults < MaxChannelFaults /\ channelFaults' = channelFaults + 1

-----------------------------------------------------------------------------
(* Redis, as the workers use it *)

Store(r) ==
    /\ StoreReport(r)
    /\ UNCHANGED <<online, last, inbox, listening, polled, sending, shown, connects, stalled,
                   channelFaults>>

(* A report reaches whoever is subscribed, or nobody when publishing fails *)
Publish(r) ==
    /\ CloseReport(r)
    /\ \/ /\ inbox' = [k \in Tabs |-> IF k \in listening THEN Append(inbox[k], r) ELSE inbox[k]]
          /\ UNCHANGED channelFaults
       \/ ChannelFault /\ UNCHANGED inbox
    /\ UNCHANGED <<online, last, listening, polled, sending, shown, connects, stalled>>

Expire ==
    /\ ExpireLatest
    /\ ChannelFault
    /\ UNCHANGED <<online, last, inbox, listening, polled, sending, shown, connects,
                   stalled>>

-----------------------------------------------------------------------------
(* Sending to the tabs *)

ShowTo(clients, report) ==
    shown' = [k \in Tabs |-> IF k \in clients THEN report ELSE shown[k]]

(* remember, then send to the clients registered now, one after the other.  A
   client that does not read suspends the loop until its buffer drains: the
   others are sent to later. *)
Broadcast(p, report) ==
    /\ last' = report
    /\ \/ /\ ShowTo(online, report)
          /\ UNCHANGED <<sending, stalled, channelFaults>>
       \/ \E served \in (SUBSET online) \ {{}, online} :
            /\ ChannelFault
            /\ ShowTo(served, report)
            /\ sending' = [sending EXCEPT ![p] = [report |-> report, left |-> online \ served]]
            /\ stalled' = TRUE

Idle(p) == sending[p].left = {}

(* What is left of a broadcast once some of its clients are done with *)
Rest(p, done) ==
    LET left == sending[p].left \ done
    IN  IF left = {} THEN NothingLeft ELSE [report |-> sending[p].report, left |-> left]

Resume(p) ==
    /\ \E served \in (SUBSET sending[p].left) \ {{}} :
         /\ ShowTo(served, sending[p].report)
         /\ sending' = [sending EXCEPT ![p] = Rest(p, served)]
    /\ UNCHANGED <<redisVars, online, last, listening, polled, connects, stalled, channelFaults>>

-----------------------------------------------------------------------------
(* Connections *)

(* Mutant of Connect: nothing is replayed *)
ConnectNoReplay(k) ==
    /\ k \notin online
    /\ connects[k] < MaxConnects
    /\ connects' = [connects EXCEPT ![k] = @ + 1]
    /\ online' = online \cup {k}
    /\ UNCHANGED <<redisVars, last, listening, polled, sending, shown, stalled, channelFaults>>

(* Accept, register, and replay the report sent last *)
Connect(k) ==
    /\ k \notin online
    /\ connects[k] < MaxConnects
    /\ connects' = [connects EXCEPT ![k] = @ + 1]
    /\ online' = online \cup {k}
    /\ ShowTo({k}, last)
    /\ UNCHANGED <<redisVars, last, listening, polled, sending, stalled, channelFaults>>

(* What is left of the connections of some tabs: nothing, their loops included *)
Drop(gone) ==
    /\ online' = online \ gone
    /\ listening' = listening \ gone
    /\ inbox' = [k \in Tabs |-> IF k \in gone THEN <<>> ELSE inbox[k]]
    /\ polled' = [k \in Tabs |-> IF k \in gone THEN NoReport ELSE polled[k]]
    /\ sending' = [p \in Loops |-> IF p[1] \in gone THEN NothingLeft ELSE Rest(p, gone)]
    /\ ShowTo(gone, NoReport)

Leave(k) ==
    /\ k \in online
    /\ Drop({k})
    /\ UNCHANGED <<feedVars, last, connects, stalled, channelFaults>>

(* The API process restarts, and remembers nothing *)
Restart ==
    /\ ChannelFault
    /\ Drop(Tabs)
    /\ last' = NoReport
    /\ UNCHANGED <<feedVars, connects, stalled>>

-----------------------------------------------------------------------------
(* The loops of a tab *)

Subscribe(k) ==
    /\ k \in online \ listening
    /\ listening' = listening \cup {k}
    /\ UNCHANGED <<redisVars, online, last, polled, sending, shown, connects>>
    /\ UNCHANGED <<stalled, channelFaults>>

Deliver(k) ==
    /\ inbox[k] # <<>>
    /\ Idle(<<k, "subscribe">>)
    /\ inbox' = [inbox EXCEPT ![k] = Tail(@)]
    /\ Broadcast(<<k, "subscribe">>, Head(inbox[k]))
    /\ UNCHANGED <<feedVars, online, listening, polled, connects>>

(* The connection to Redis drops: what was on its way is lost, and the loop
   subscribes again after a pause *)
DropSubscription(k) ==
    /\ k \in listening
    /\ Idle(<<k, "subscribe">>)
    /\ ChannelFault
    /\ listening' = listening \ {k}
    /\ inbox' = [inbox EXCEPT ![k] = <<>>]
    /\ UNCHANGED <<feedVars, online, last, polled, sending, shown, connects, stalled>>

(* The poll loop reads the latest key and then compares what it read *)
PollRead(k) ==
    /\ k \in online
    /\ Idle(<<k, "poll">>)
    /\ polled[k] = NoReport
    /\ latest # NoReport
    /\ polled' = [polled EXCEPT ![k] = latest]
    /\ UNCHANGED <<redisVars, online, last, listening, sending, shown, connects>>
    /\ UNCHANGED <<stalled, channelFaults>>

(* Mutant of PollSend: the poll only speaks while nothing has been sent *)
PollSendFirst(k) ==
    /\ polled[k] # NoReport
    /\ IF last = NoReport
       THEN Broadcast(<<k, "poll">>, polled[k])
       ELSE UNCHANGED <<last, sending, shown, stalled, channelFaults>>
    /\ polled' = [polled EXCEPT ![k] = NoReport]
    /\ UNCHANGED <<redisVars, online, listening, connects>>

PollSend(k) ==
    /\ polled[k] # NoReport
    /\ IF polled[k] # last
       THEN Broadcast(<<k, "poll">>, polled[k])
       ELSE UNCHANGED <<last, sending, shown, stalled, channelFaults>>
    /\ polled' = [polled EXCEPT ![k] = NoReport]
    /\ UNCHANGED <<redisVars, online, listening, connects>>

Loop(k) == Subscribe(k) \/ Deliver(k) \/ PollRead(k) \/ PollSend(k)

ChannelNext ==
    \/ \E r \in Report : Store(r) \/ Publish(r)
    \/ Expire
    \/ \E k \in Tabs : Connect(k) \/ Leave(k) \/ Loop(k) \/ DropSubscription(k)
    \/ \E p \in Loops : Resume(p)
    \/ Restart

(* The event loop runs every loop that is ready, and a client that does not read
   is cut off in the end; nothing is assumed of the workers, nor of the tabs *)
Fairness ==
    /\ \A k \in Tabs : /\ WF_channelVars(Subscribe(k)) /\ WF_channelVars(Deliver(k))
                       /\ WF_channelVars(PollRead(k)) /\ WF_channelVars(PollSend(k))
    /\ \A p \in Loops : WF_channelVars(Resume(p))

ChannelSpec == ChannelInit /\ [][ChannelNext]_channelVars /\ Fairness

-----------------------------------------------------------------------------
(* Properties *)

(* Type correctness: what each variable holds; only a registered client has a
   subscription, and only one that is listening has messages on their way. *)
ChannelTypeOK ==
    /\ latest \in Report \cup {NoReport}
    /\ pending \in SUBSET Report
    /\ stored \in SUBSET Report
    /\ online \in SUBSET Tabs
    /\ last \in Report \cup {NoReport}
    /\ inbox \in [Tabs -> Seq(Report)]
    /\ listening \in SUBSET online
    /\ polled \in [Tabs -> Report \cup {NoReport}]
    /\ sending \in [Loops -> [report : Report \cup {NoReport}, left : SUBSET Tabs]]
    /\ shown \in [Tabs -> Report \cup {NoReport}]
    /\ connects \in [Tabs -> 0..MaxConnects]
    /\ stalled \in BOOLEAN
    /\ channelFaults \in 0..MaxChannelFaults

(* As long as no broadcast was suspended half-way, all connected tabs show the
   report the channel remembers, whichever loop of whichever tab sent it, and
   through reconnections, lost subscriptions and restarts. *)
TabsAgree == ~stalled => \A k \in online : shown[k] = last

(* The poll makes up for what the subscription loses: in the end every connected
   tab shows the latest report, unless that has expired or a broadcast was
   suspended (an older broadcast then ends after a newer one, and the poll does
   not see it). *)
CatchUp ==
    <>[](latest = NoReport \/ stalled \/ \A k \in online : shown[k] = latest)
=============================================================================
