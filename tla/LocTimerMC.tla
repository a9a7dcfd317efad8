------------------------------- MODULE LocTimerMC -------------------------------
(***************************************************************************)
(* Small instances of LocTimer and of Xtra, the client of a timer and of   *)
(* the data items: in a behaviour one of them runs.  Three networks, two   *)
(* of a type, and a table as long; a hub that subscribes next to XTRA.     *)
(***************************************************************************)
EXTENDS LocTimer, Xtra

CONSTANTS c1, c2, hub, tac, mccmnc

statusVars == <<dataVars, xtraVars>>

Network(handle, type) == [handle |-> handle, type |-> type]
MCNetworks == {Network(1, "WIFI"), Network(2, "MOBILE"), Network(3, "WIFI")}
MCLists == {{NETWORKINFO}, {tac}, {tac, mccmnc}}

MCStreams == {[server |-> 1, requiresNmeaLocation |-> FALSE],
              [server |-> 1, requiresNmeaLocation |-> TRUE],
              [server |-> 2, requiresNmeaLocation |-> TRUE]}

\* The constructor of XtraSystemStatusObserver.
MCListening == <<[client |-> XTRA, items |-> {NETWORKINFO, mccmnc}, request |-> FALSE],
                 [client |-> XTRA, items |-> {tac}, request |-> TRUE]>>

\* Networks; a daemon that dies while networks, the lock, an item or the
\* corrections change; clients that subscribe and leave in every order.
Behaviour(calling, left) == [calls |-> calling, left |-> left]
MCDataUses ==
    {Behaviour({}, 0), Behaviour({"network"}, 5), Behaviour({"network", "daemon"}, 3),
     Behaviour({"lock", "daemon"}, 5), Behaviour({"ntrip"}, 7), Behaviour({"ntrip", "daemon"}, 6),
     Behaviour({"notify", "setSubscriptionObj", "daemon"}, 4),
     Behaviour({"subscribe", "unsubscribe", "notify", "setSubscriptionObj"}, 4),
     Behaviour({"subscribe", "update", "notify", "setSubscriptionObj"}, 3)}

TimersRun == dataUse.calls = {} /\ ~misused

MCInit == Init /\ XtraInit

MCNext ==
    \/ TimersRun /\ Next /\ UNCHANGED statusVars
    \/ ~TimersRun /\ XtraNext /\ UNCHANGED vars

MCSpec ==
    /\ MCInit /\ [][MCNext]_<<vars, statusVars>>
    /\ WF_vars(TimersRun /\ PollTask) /\ WF_vars(TimersRun /\ MsgTask) /\ WF_vars(TimersRun /\ Tick)

\* What refers to a timer leads to one: the heap is one, with no delegate that
\* is gone in it or in a message.
\* (LocTimer!TypeOK, LocTimer!NothingDangles)
TypesOK == TypeOK /\ NothingDangles
===============================================================================
