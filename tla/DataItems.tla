------------------------------- MODULE DataItems -------------------------------
(***************************************************************************)
(* Data items: SystemStatus records what the framework reports of the      *)
(* networks, the cell and so on (gps/core/SystemStatus.cpp, .h), and       *)
(* SystemStatusOsObserver passes it on to the clients that subscribed.     *)
(*                                                                         *)
(* Calls come from any thread and become messages of one MsgTask, which    *)
(* alone handles the state.  A client that is notified takes the items by  *)
(* a message on the same task, as XtraSystemStatusObserver::notify does.   *)
(*                                                                         *)
(* The latest report of SystemStatus and the observer's cached item are    *)
(* one variable: the handler of notify writes the second when the first    *)
(* has changed, with the same content.  An item other than the networks is *)
(* a value.  turnOn, turnOff and the backhaul calls are left out.          *)
(***************************************************************************)
EXTENDS Integers, SequencesExt

CONSTANTS Observers,            \* IDataItemObservers
          Items,                \* DataItemIds
          NETWORKINFO,          \* the one whose reports are collated
          Values,               \* of the other items
          Networks,             \* [handle, type]: those that come and go
          MAX_NETWORK_HANDLES,
          Listening,            \* [client, items, request]: the calls of subscribe at the start
          Callers, Lists,       \* the clients that call later, and their lists of items
          DataUses,             \* behaviours: what is called, and how often
          MaxDataQueue,         \* calls wait while the task has so many messages
          NONE

VARIABLES dataUse,              \* the behaviour, and the calls it has left
          dataQueue,            \* of the MsgTask
          dataItemToClients, clientToDataItems,
          cache,                \* the latest report of each item
          subscriptionObj,      \* whether the observer has one
          subscribed,           \* the items the framework reports
          requested,            \* those it was asked for once
          known,                \* what each client took last, of each item
          networks,             \* those the framework has, in the order they came
          muddled,              \* they came and went in a way the report is not made for
          everRequested,        \* items some client merely requested
          updaters              \* clients that called updateSubscription

maps == <<dataItemToClients, clientToDataItems>>
framework == <<subscriptionObj, subscribed, requested>>
dataGhosts == <<muddled, everRequested, updaters>>
dataVars == <<dataUse, dataQueue, maps, cache, framework, known, networks, dataGhosts>>

Calls(name) == /\ name \in dataUse.calls /\ dataUse.left > 0 /\ Len(dataQueue) < MaxDataQueue
               /\ dataUse' = [dataUse EXCEPT !.left = @ - 1]
Post(queue, message) == Append(queue, message)
Message(op) == dataQueue # <<>> /\ Head(dataQueue).op = op

-----------------------------------------------------------------------------
(* The report of the networks: a table of handles and the types in it.       *)

Slots == 1 .. MAX_NETWORK_HANDLES
Unknown == [handle |-> NONE, type |-> NONE]

Reports ==
    LET handles == {network.handle : network \in Networks}
        types == {network.type : network \in Networks}
    IN  [connected : BOOLEAN, handle : handles, type : types, mAllTypes : SUBSET types,
         mAllNetworkHandles : [Slots -> [handle : handles \cup {NONE}, type : types \cup {NONE}]]]

\* A handle is that of one network, and one at least has its place in the table.
ASSUME DataAssumption ==
    /\ IsFiniteSet(Observers) /\ NETWORKINFO \in Items
    /\ Callers \subseteq Observers /\ Lists \subseteq SUBSET Items
    /\ Listening \in Seq([client : Observers, items : SUBSET Items, request : BOOLEAN])
    /\ MAX_NETWORK_HANDLES \in Nat \ {0}
    /\ \A a \in Networks : a = [handle |-> a.handle, type |-> a.type] /\ a.handle # NONE
    /\ \A a, b \in Networks : a.handle = b.handle => a = b
    /\ NONE \notin Values /\ NONE \notin Reports

\* NetworkInfoDataItemBase, of an event about one network.
NetworkInfo(connected, network) ==
    [connected |-> connected, handle |-> network.handle, type |-> network.type,
     mAllTypes |-> {network.type},
     mAllNetworkHandles |-> [n \in Slots |-> IF n = 1 THEN network ELSE Unknown]]

\* The slots up to the first unknown handle: further ones are not looked at.
Scanned(table) == {n \in Slots : \A k \in 1 .. n : table[k].handle # NONE}

\* A handle takes the first unknown slot, if none before it has the handle.
Added(table, info) ==
    LET n == Cardinality(Scanned(table)) + 1
    IN  IF n > MAX_NETWORK_HANDLES \/ \E k \in Scanned(table) : table[k].handle = info.handle
        THEN table
        ELSE [table EXCEPT ![n] = [handle |-> info.handle, type |-> info.type]]

OfHandle(table, handle) == {n \in Scanned(table) : table[n].handle = handle}
OfType(table, type) == {n \in Scanned(table) : table[n].type = type}

\* Mutant: the last slot of a full table is not made unknown.
RemovedNotCleared(table, info) ==
    LET found == OfHandle(table, info.handle)
        n == Cardinality(Scanned(table)) + 1
    IN  IF found = {} THEN table
        ELSE [table EXCEPT ![CHOOSE k \in found : \A j \in found : j <= k] =
                IF n > MAX_NETWORK_HANDLES THEN table[MAX_NETWORK_HANDLES] ELSE table[n]]

\* The slot of the handle takes the content of lastValidIndex, which becomes
\* unknown: the last slot of a full table, the first unknown one of another.
Removed(table, info) ==
    LET found == OfHandle(table, info.handle)
        deletedIndex == CHOOSE n \in found : \A k \in found : k <= n
        full == Scanned(table) = Slots
        lastValidIndex == IF full THEN MAX_NETWORK_HANDLES ELSE Cardinality(Scanned(table)) + 1
    IN  IF found = {} THEN table
        ELSE [[table EXCEPT ![deletedIndex] = table[lastValidIndex]]
                     EXCEPT ![lastValidIndex] = Unknown]

\* typeCount = 0: no other handle of the type was seen.
NoneOfType(table, info) ==
    Cardinality(OfType(table, info.type)) = Cardinality(OfHandle(table, info.handle))

collate(info, current) ==
    LET table == current.mAllNetworkHandles
    IN  IF info.connected
        THEN [info EXCEPT !.mAllTypes = @ \cup current.mAllTypes,
                          !.mAllNetworkHandles = Added(table, info)]
        ELSE [info EXCEPT !.mAllTypes = IF NoneOfType(table, info) THEN current.mAllTypes \ @ ELSE @,
                          !.mAllNetworkHandles = Removed(table, info)]

\* setIteminReport: an item that equals the latest is not recorded.  The first
\* event about a network is recorded as it is.
Recorded(item, content) ==
    IF item # NETWORKINFO \/ cache[item] = NONE THEN content
    ELSE LET info == collate(content, cache[item])
         IN  IF info.mAllNetworkHandles = cache[item].mAllNetworkHandles THEN cache[item] ELSE info

-----------------------------------------------------------------------------
(* Clients.                                                                  *)

call(name, message) ==
    /\ Calls(name)
    /\ dataQueue' = Post(dataQueue, message)
    /\ UNCHANGED <<maps, cache, framework, known, networks, dataGhosts>>

subscribe ==
    \E c \in Callers, items \in Lists, request \in BOOLEAN :
      call("subscribe", [op |-> "subscribe", client |-> c, items |-> items, request |-> request])

updateSubscription ==
    \E c \in Callers, items \in Lists :
      call("update", [op |-> "updateSubscription", client |-> c, items |-> items])

unsubscribe ==
    \E c \in Callers, items \in Lists :
      call("unsubscribe", [op |-> "unsubscribe", client |-> c, items |-> items])

unsubscribeAll ==
    \E c \in Callers : call("unsubscribe", [op |-> "unsubscribeAll", client |-> c])

setSubscriptionObj == ~subscriptionObj /\ call("setSubscriptionObj", [op |-> "setSubscriptionObj"])

\* The client takes what it was notified of.
HandleUpdate ==
    /\ Message("update")
    /\ LET message == Head(dataQueue)
       IN  known' = [known EXCEPT ![message.client] =
                       [i \in Items |-> IF i \in DOMAIN message.content THEN message.content[i]
                                        ELSE @[i]]]
    /\ dataQueue' = Tail(dataQueue)
    /\ UNCHANGED <<dataUse, maps, cache, framework, networks, dataGhosts>>

-----------------------------------------------------------------------------
(* The framework.                                                            *)

\* An item that is subscribed, or was asked for.
notify ==
    \E i \in (subscribed \cup requested) \ {NETWORKINFO}, v \in Values :
      /\ Calls("notify")
      /\ dataQueue' = Post(dataQueue, [op |-> "notify", item |-> i, content |-> v])
      /\ requested' = requested \ {i}
      /\ UNCHANGED <<maps, cache, subscriptionObj, subscribed, known, networks, dataGhosts>>

TypesOf(list) == {network.type : network \in Range(list)}

\* eventConnectionStatus, from AGnssRil::updateNetworkState_2_0.
eventConnectionStatus(connected, network) ==
    /\ Calls("network")
    /\ dataQueue' = Post(dataQueue, [op |-> "notify", item |-> NETWORKINFO,
                                     content |-> NetworkInfo(connected, network)])
    /\ UNCHANGED <<maps, cache, framework, known, everRequested, updaters>>

\* A network comes, or what it is capable of changes.
NetworkAvailable ==
    \E network \in Networks :
      /\ eventConnectionStatus(TRUE, network)
      /\ networks' = IF network \in Range(networks) THEN networks ELSE Append(networks, network)
      /\ muddled' = (muddled \/ Len(networks') > MAX_NETWORK_HANDLES)

\* The report follows networks that go in the reverse order, a type at a time.
Orderly(n) ==
    LET left == SubSeq(networks, 1, n - 1)
    IN  /\ n = Len(networks)
        /\ networks[n].type \in TypesOf(left) => Cardinality(TypesOf(left)) = 1

NetworkLost ==
    \E n \in DOMAIN networks :
      /\ eventConnectionStatus(FALSE, networks[n])
      /\ networks' = RemoveAt(networks, n)
      /\ muddled' = (muddled \/ ~Orderly(n))

\* The loss of a network that came before the process.
UnknownNetworkLost ==
    \E network \in Networks \ Range(networks) :
      /\ eventConnectionStatus(FALSE, network)
      /\ muddled' = TRUE
      /\ UNCHANGED networks

-----------------------------------------------------------------------------
(* The observer's messages.                                                  *)

Nonempty(toClients) == {i \in Items : toClients[i] # {}}

\* Mutant: only the first subscriber's items are sent to it.
SentToFirst(queue, c, items, contents) ==
    LET cached == {i \in items : contents[i] # NONE /\ dataItemToClients[i] = {}}
    IN  IF cached = {} THEN queue
        ELSE Append(queue, [op |-> "update", client |-> c, content |-> [i \in cached |-> contents[i]]])

\* sendCachedDataItems: what is cached of the items, to a client.
SentTo(queue, c, items, contents) ==
    LET cached == {i \in items : contents[i] # NONE}
    IN  IF cached = {} THEN queue
        ELSE Append(queue, [op |-> "update", client |-> c, content |-> [i \in cached |-> contents[i]]])

HandleSubscribeReq ==
    /\ Message("subscribe")
    /\ LET message == Head(dataQueue)
           c == message.client
           dataItemsToSubscribe == message.items \ Nonempty(dataItemToClients)
       IN  /\ dataItemToClients' = [i \in Items |-> dataItemToClients[i] \cup
                                                    IF i \in message.items THEN {c} ELSE {}]
           /\ clientToDataItems' = [clientToDataItems EXCEPT ![c] = @ \cup message.items]
           /\ dataQueue' = SentTo(Tail(dataQueue), c, message.items, cache)
           /\ IF subscriptionObj /\ message.request
              THEN requested' = requested \cup message.items /\ UNCHANGED subscribed
              ELSE IF subscriptionObj
              THEN subscribed' = subscribed \cup dataItemsToSubscribe /\ UNCHANGED requested
              ELSE UNCHANGED <<subscribed, requested>>
           /\ everRequested' = everRequested \cup IF message.request THEN message.items ELSE {}
    /\ UNCHANGED <<dataUse, cache, subscriptionObj, known, networks, muddled, updaters>>

\* Mutant: the whole entry of an item is erased.
LeftByAll(c, items) == [i \in Items |-> IF i \in items THEN {} ELSE dataItemToClients[i]]

\* The client leaves the items, and the framework those no client is left for.
\* (trimOrRemove takes their ids from the erased entries, before anything else
\* is allocated: they still hold them)
Left(c, items) == [i \in Items |-> IF i \in items THEN dataItemToClients[i] \ {c}
                                   ELSE dataItemToClients[i]]
Unsubscribed(before, after) ==
    IF subscriptionObj THEN Nonempty(before) \ Nonempty(after) ELSE {}

HandleUnsubscribeReq ==
    /\ Message("unsubscribe")
    /\ LET message == Head(dataQueue)
           c == message.client
           dataItemsUnusedByClient == clientToDataItems[c] \cap message.items
       IN  /\ clientToDataItems' = [clientToDataItems EXCEPT ![c] = @ \ message.items]
           /\ dataItemToClients' = Left(c, dataItemsUnusedByClient)
           /\ subscribed' = subscribed \ Unsubscribed(dataItemToClients, dataItemToClients')
    /\ dataQueue' = Tail(dataQueue)
    /\ UNCHANGED <<dataUse, cache, subscriptionObj, requested, known, networks, dataGhosts>>

HandleUnsubscribeAllReq ==
    /\ Message("unsubscribeAll")
    /\ LET c == Head(dataQueue).client
       IN  /\ clientToDataItems' = [clientToDataItems EXCEPT ![c] = {}]
           /\ dataItemToClients' = Left(c, clientToDataItems[c])
           /\ subscribed' = subscribed \ Unsubscribed(dataItemToClients, dataItemToClients')
    /\ dataQueue' = Tail(dataQueue)
    /\ UNCHANGED <<dataUse, cache, subscriptionObj, requested, known, networks, dataGhosts>>

\* LocUnorderedSetMap::update returns the items the client had and keeps, and
\* takes them out of the new ones: the client leaves those it keeps, and stays
\* with those it gave up.
HandleUpdateSubscriptionReq ==
    /\ Message("updateSubscription")
    /\ LET message == Head(dataQueue)
           c == message.client
           common == clientToDataItems[c] \cap message.items
           added == message.items \ common
           trimmed == Left(c, common)
       IN  /\ clientToDataItems' = [clientToDataItems EXCEPT ![c] = message.items]
           /\ dataItemToClients' = [i \in Items |-> trimmed[i] \cup IF i \in added THEN {c} ELSE {}]
           /\ dataQueue' = SentTo(Tail(dataQueue), c, added, cache)
           /\ subscribed' = IF subscriptionObj
                            THEN (subscribed \cup (added \ Nonempty(trimmed)))
                                   \ Unsubscribed(dataItemToClients, trimmed)
                            ELSE subscribed
           /\ updaters' = updaters \cup {c}
    /\ UNCHANGED <<dataUse, cache, subscriptionObj, requested, known, networks, muddled, everRequested>>

SetSubsObj ==
    /\ Message("setSubscriptionObj")
    /\ subscriptionObj' = TRUE
    /\ subscribed' = Nonempty(dataItemToClients)
    /\ requested' = Nonempty(dataItemToClients)
    /\ dataQueue' = Tail(dataQueue)
    /\ UNCHANGED <<dataUse, maps, cache, known, networks, dataGhosts>>

\* An item that has changed goes to the clients of its entry that have it in
\* theirs.
Reaches(c, item) == c \in dataItemToClients[item] /\ item \in clientToDataItems[c]

HandleNotify ==
    /\ Message("notify")
    /\ LET item == Head(dataQueue).item
           content == Recorded(item, Head(dataQueue).content)
           told == {c \in Observers : content # cache[item] /\ Reaches(c, item)}
       IN  /\ cache' = [cache EXCEPT ![item] = content]
           /\ \E order \in SetToSeqs(told) :
                dataQueue' = Tail(dataQueue) \o
                     [n \in DOMAIN order |-> [op |-> "update", client |-> order[n],
                                              content |-> [i \in {item} |-> content]]]
    /\ UNCHANGED <<dataUse, maps, framework, known, networks, dataGhosts>>

-----------------------------------------------------------------------------

DataInit ==
    /\ dataUse \in DataUses
    /\ dataQueue = [n \in DOMAIN Listening |->
                      [op |-> "subscribe", client |-> Listening[n].client,
                       items |-> Listening[n].items, request |-> Listening[n].request]]
    /\ dataItemToClients = [i \in Items |-> {}]
    /\ clientToDataItems = [c \in Observers |-> {}]
    /\ cache = [i \in Items |-> NONE]
    /\ subscriptionObj = FALSE /\ subscribed = {} /\ requested = {}
    /\ known = [c \in Observers |-> [i \in Items |-> NONE]]
    /\ networks = <<>>
    /\ muddled = FALSE /\ everRequested = {} /\ updaters = {}

Handling ==
    \/ HandleSubscribeReq \/ HandleUnsubscribeReq \/ HandleUnsubscribeAllReq
    \/ HandleUpdateSubscriptionReq \/ SetSubsObj \/ HandleNotify

Calling ==
    \/ subscribe \/ updateSubscription \/ unsubscribe \/ unsubscribeAll \/ setSubscriptionObj
    \/ notify \/ NetworkAvailable \/ NetworkLost \/ UnknownNetworkLost

DataNext == Calling \/ Handling \/ HandleUpdate

-----------------------------------------------------------------------------
(* Properties.                                                               *)

\* The two maps lead to each other, for the clients that leave
\* updateSubscription alone; only items with a client are subscribed at the
\* framework, and all of those that no one merely requested are.
\* (trimOrRemove and add of both maps in the handlers)
SubscriptionsAgree ==
    /\ \A i \in Items, c \in Observers \ updaters :
         c \in dataItemToClients[i] <=> i \in clientToDataItems[c]
    /\ subscribed \subseteq Nonempty(dataItemToClients)
    /\ subscriptionObj => Nonempty(dataItemToClients) \subseteq subscribed \cup everRequested

\* When no message is under way each subscriber knows what is cached of its
\* items, whatever overtook its subscription.
\* (sendCachedDataItems in the handlers of subscribe and notify)
SubscribersTold ==
    dataQueue = <<>> =>
      \A c \in Observers \ updaters : \A i \in clientToDataItems[c] : known[c][i] = cache[i]

\* As long as networks go in the reverse order they came in, and a type at a
\* time, the table and the types are those of the networks that are there.
\* (SystemStatusNetworkInfo::collate)
NetworksRecorded ==
    dataQueue = <<>> /\ ~muddled /\ cache[NETWORKINFO] # NONE =>
      LET report == cache[NETWORKINFO]
          listed == {report.mAllNetworkHandles[n] : n \in Slots} \ {Unknown}
      IN  /\ listed = Range(networks)
          /\ report.mAllTypes = TypesOf(networks)
=============================================================================
