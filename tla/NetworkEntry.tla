---------------------------- MODULE NetworkEntry ----------------------------
(***************************************************************************)
(* How an end device of the motion sensor enters its network, and enters   *)
(* it again: the task ZDApp (ZDApp.c, ZDObject.c) between the network layer *)
(* below it, which is a library, and the application's task SampleApp.     *)
(*                                                                         *)
(* The build is that of the project's EndDeviceEB: ZIGBEEPRO, no security, *)
(* no NV_RESTORE, so that a restart forgets the network.  All networks have *)
(* the configured PAN id; they differ in their extended PAN ids.           *)
(*                                                                         *)
(* Messages and timers take a block of one heap each.  Other tasks take     *)
(* theirs, so that each may be refused at any time.  A task runs only while *)
(* none before it has an event: ZDApp is before SampleApp.                 *)
(***************************************************************************)
EXTENDS Naturals, Sequences, FiniteSets

CONSTANTS
    Networks,             \* extended PAN ids
    Channels,             \* the radio's channels
    DefaultChannels,      \*   those of DEFAULT_CHANLIST
    NoNetwork,            \* not a network
    HeapBlocks,           \* the blocks that these messages and timers have at most
    NUM_DISC_ATTEMPTS,
    MAX_RESUME_RETRY,
    ScansOfDefault,       \* the discoveries of a rejoin before all channels are scanned
    CounterSize           \* how many values zdoDiscCounter has

ASSUME EntryAssumption ==
    /\ NoNetwork \notin Networks
    /\ Channels \subseteq Nat \ {0} /\ DefaultChannels \subseteq Channels
    /\ HeapBlocks \in Nat /\ NUM_DISC_ATTEMPTS \in Nat /\ ScansOfDefault \in Nat
    /\ MAX_RESUME_RETRY \in Nat \ {0}
    /\ CounterSize \in Nat \ {0, 1}

VARIABLES
    devState, devStartMode,
    retryCnt, zdoDiscCounter, scanCnt,
    nwkStatus,            \* whether the last join confirm was a success
    useEpid,              \* ZDO_UseExtendedPANID, or NoNetwork
    tmpRejoin,            \* _tmpRejoinState
    chanList,             \* zgDefaultChannelList
    taskEvents, runs,     \* the events of ZDApp and its timers that run
    inbox,                \* the messages for ZDApp
    appBox,               \* those for SampleApp: "in" or "out" of the network, or "data"
    appState,             \* SampleApp_NwkState, as far as SampleApp looks at it
    leaveCtrl,            \* ZCD_NV_LEAVE_CTRL, in the flash
    op,                   \* what the network layer is doing
    heard,                \* NwkDescList: the networks that can be joined, with their channel
    nib,                  \* the network of the NIB, or NoNetwork
    hasParent,            \* whether the network layer has a parent
    air, permit,          \* where the networks are now, and which permit joining
    lost                  \* a message or timer was refused since the start

counterVars == <<retryCnt, zdoDiscCounter, scanCnt>>
configVars == <<useEpid, tmpRejoin, chanList>>
taskVars == <<taskEvents, runs, lost>>
appVars == <<appBox, appState>>
nwkVars == <<op, heard, nib, hasParent>>
airVars == <<air, permit>>
entryVars == <<devState, devStartMode, counterVars, nwkStatus, configVars, taskVars, inbox,
               appVars, leaveCtrl, nwkVars, airVars>>

DevStates == {"DEV_HOLD", "DEV_INIT", "DEV_NWK_DISC", "DEV_NWK_JOINING", "DEV_NWK_REJOIN",
              "DEV_NWK_ORPHAN", "DEV_END_DEVICE"}
Modes == {"MODE_JOIN", "MODE_RESUME", "MODE_REJOIN"}
TaskEvents == {"ZDO_NETWORK_INIT", "ZDO_STATE_CHANGE_EVT", "ZDO_DEVICE_RESET"}
Timers == {"ZDO_NETWORK_INIT", "ZDO_DEVICE_RESET"}
ZDAppMessages == {"ZDO_NWK_DISC_CNF", "ZDO_NWK_JOIN_IND", "ZDO_NWK_JOIN_REQ"}
AppMessages == {"in", "out", "data"}
Operations == [kind : {"none", "disc", "join", "rejoin", "orphan"},
               nets : SUBSET Networks, chans : SUBSET Channels]

Operation(kind, nets, chans) == [kind |-> kind, nets |-> nets, chans |-> chans]
Idle == Operation("none", {}, {})
Off == 0

--------------------------------------------------------------------------------
(* The heap, and what is allocated in it. *)

Full == Cardinality(runs) + Len(inbox) + Len(appBox) >= HeapBlocks

(* osal_start_timerEx: a timer that runs gets its time anew, another needs a block. *)
StartsTimer(t) ==
    \/ (t \in runs \/ ~Full) /\ runs' = runs \cup {t} /\ UNCHANGED lost
    \/ t \notin runs /\ lost' = TRUE /\ UNCHANGED runs

(* ZDApp_SendMsg: without a block there is no message, and no word of it. *)
SendMsg(m) ==
    \/ ~Full /\ inbox' = Append(inbox, m) /\ UNCHANGED lost
    \/ lost' = TRUE /\ UNCHANGED inbox

(* A timer expires. *)
Expire(t) ==
    /\ t \in runs
    /\ runs' = runs \ {t} /\ taskEvents' = taskEvents \cup {t}
    /\ UNCHANGED <<devState, devStartMode, counterVars, nwkStatus, configVars, lost, inbox,
                   appVars, leaveCtrl, nwkVars, airVars>>

Expires == \E t \in Timers : Expire(t)

--------------------------------------------------------------------------------
(* The start. *)

EntryInit ==
    /\ devStartMode = "MODE_JOIN" /\ retryCnt = 0 /\ zdoDiscCounter = 1 /\ scanCnt = 0
    /\ nwkStatus = TRUE
    /\ useEpid = NoNetwork /\ tmpRejoin = FALSE /\ chanList = DefaultChannels
    /\ inbox = << >> /\ appBox = << >> /\ appState = "out"
    /\ op = Idle /\ heard = {} /\ nib = NoNetwork /\ hasParent = FALSE
    /\ lost = FALSE
    /\ devState = "DEV_INIT" /\ runs = {"ZDO_NETWORK_INIT"} /\ taskEvents = {}
    /\ leaveCtrl = "INIT"
    /\ air \in [Networks -> Channels \cup {Off}] /\ permit \in SUBSET Networks

(* ZDOInitDevice, with what ZDApp_LeaveCtrlStartup finds in the flash: a device that was
   told to leave and not to come back holds, once.  For one that may come back a delay is
   set that nobody uses: it starts as one that was told nothing. *)
ZDOInitDevice ==
    /\ leaveCtrl' = "INIT"
    /\ IF leaveCtrl = "SET"
       THEN /\ devState' = "DEV_HOLD" /\ runs' = {} /\ taskEvents' = {"ZDO_STATE_CHANGE_EVT"}
       ELSE /\ devState' = "DEV_INIT" /\ runs' = {"ZDO_NETWORK_INIT"} /\ taskEvents' = {}

(* A start with SW_BYPASS_START held down: the device waits for its application to start
   it, which this one does not. *)
HoldStart == devState' = "DEV_HOLD" /\ runs' = {} /\ taskEvents' = {} /\ UNCHANGED leaveCtrl

(* A start with what it finds and sets in RAM; the mode is ZDAppDetermineDeviceType's. *)
Boot ==
    /\ ZDOInitDevice \/ HoldStart
    /\ devStartMode' = "MODE_JOIN" /\ retryCnt' = 0 /\ zdoDiscCounter' = 1 /\ scanCnt' = 0
    /\ nwkStatus' = TRUE
    /\ useEpid' = NoNetwork /\ tmpRejoin' = FALSE /\ chanList' = DefaultChannels
    /\ inbox' = << >> /\ appBox' = << >> /\ appState' = "out"
    /\ op' = Idle /\ heard' = {} /\ nib' = NoNetwork /\ hasParent' = FALSE
    /\ lost' = FALSE
    /\ UNCHANGED airVars

(* The power goes and comes back. *)
PowerCut == Boot

--------------------------------------------------------------------------------
(* The network layer, as ZDApp.c uses it: it does one thing at a time, may refuse to
   begin it, and confirms what it has begun. *)

(* ZDO_beaconNotifyIndCB keeps one descriptor for a PAN id and a channel, with the extended
   PAN id of the last beacon; once any beacon for it has let the device join it stays so. *)
Beacons(chans) ==
    {d \in Networks \X chans :
        /\ air[d[1]] = d[2]
        /\ tmpRejoin \/ (\E n \in permit : air[n] = d[2]) \/ \E e \in heard : e[2] = d[2]}

KeepsTask == UNCHANGED <<devStartMode, counterVars, configVars, taskEvents, runs, appVars,
                         leaveCtrl, airVars>>

(* ZDO_NetworkDiscoveryConfirmCB, after the beacons that came and had a block.  A failure
   of a join clears the list. *)
DiscoveryConfirm ==
    /\ op.kind = "disc" /\ op' = Idle
    /\ \E new \in SUBSET Beacons(op.chans) :
          /\ \A d, e \in new : d[2] = e[2] => d = e
          /\ heard' = {d \in heard : \A e \in new : e[2] # d[2]} \cup new
    /\ SendMsg("ZDO_NWK_DISC_CNF")
    /\ KeepsTask /\ UNCHANGED <<devState, nwkStatus, nib, hasParent>>

Reachable(n) == air[n] \in op.chans /\ (op.kind = "join" => n \in permit)

(* ZDO_JoinConfirmCB, for a join, a rejoin and an orphan scan alike. *)
JoinConfirm(ok) ==
    /\ op.kind \in {"join", "rejoin", "orphan"} /\ op' = Idle
    /\ nwkStatus' = ok /\ hasParent' = ok
    /\ IF ok THEN \E n \in op.nets : Reachable(n) /\ nib' = n ELSE UNCHANGED nib
    /\ devState' = IF ok /\ devState = "DEV_HOLD" THEN "DEV_NWK_JOINING" ELSE devState
    /\ SendMsg("ZDO_NWK_JOIN_IND")
    /\ KeepsTask /\ UNCHANGED heard

(* ZDO_SyncIndicationCB: contact with the parent is lost, or seems so.  It takes several polls
   to tell, so that ZDApp has seen one such message before there is another. *)
SyncIndication ==
    /\ hasParent /\ \A i \in DOMAIN inbox : inbox[i] # "ZDO_NWK_JOIN_REQ"
    /\ SendMsg("ZDO_NWK_JOIN_REQ")
    /\ KeepsTask /\ UNCHANGED <<devState, nwkStatus, nwkVars>>

(* ZDO_LeaveInd with a request of the parent: ZDApp_LeaveReset.  The device goes on until
   the timer expires. *)
LeaveIndication(rejoin) ==
    /\ hasParent
    /\ leaveCtrl' = IF rejoin THEN "INIT" ELSE "SET"
    /\ StartsTimer("ZDO_DEVICE_RESET")
    /\ UNCHANGED <<devState, devStartMode, counterVars, nwkStatus, configVars, taskEvents, inbox,
                   appVars, nwkVars, airVars>>

(* A coordinator is switched off or on, moves to another channel, permits joining or not. *)
AirChanges ==
    /\ \E n \in Networks :
          \/ \E c \in (Channels \cup {Off}) \ {air[n]} :
                air' = [air EXCEPT ![n] = c] /\ UNCHANGED permit
          \/ permit' \in {permit \cup {n}, permit \ {n}} /\ UNCHANGED air
    /\ UNCHANGED <<devState, devStartMode, counterVars, nwkStatus, configVars, taskVars, inbox,
                   appVars, leaveCtrl, nwkVars>>

Confirms == DiscoveryConfirm \/ \E ok \in BOOLEAN : JoinConfirm(ok)

Network ==
    \/ Confirms \/ SyncIndication \/ (\E rejoin \in BOOLEAN : LeaveIndication(rejoin))
    \/ AirChanges

--------------------------------------------------------------------------------
(* ZDApp_ProcessOSALMsg. *)

Receives(m) == inbox # << >> /\ Head(inbox) = m /\ inbox' = Tail(inbox)
KeepsRest == UNCHANGED <<nwkStatus, scanCnt, chanList, appVars, leaveCtrl, nib, airVars>>

(* A slip for Requests: a refusal starts no timer. *)
RequestsOnce(o) ==
    \/ op = Idle /\ op' = o /\ hasParent' = FALSE /\ UNCHANGED <<runs, lost>>
    \/ UNCHANGED <<op, hasParent, runs, lost>>

(* A request of the network layer: if it refuses, a timer is started to try again. *)
Requests(o) ==
    \/ op = Idle /\ op' = o /\ hasParent' = FALSE /\ UNCHANGED <<runs, lost>>
    \/ StartsTimer("ZDO_NETWORK_INIT") /\ UNCHANGED <<op, hasParent>>

(* ZDApp_NwkDescListProcessing: a network that can be joined, and the one to return to. *)
Suitable == {d \in heard : useEpid \in {NoNetwork, d[1]}}

(* ZDO_NWK_DISC_CNF when a network is chosen: not before so many discoveries. *)
Chooses ==
    /\ Receives("ZDO_NWK_DISC_CNF") /\ devState = "DEV_NWK_DISC"
    /\ zdoDiscCounter > NUM_DISC_ATTEMPTS
    /\ \E d \in Suitable :
          \/ /\ devStartMode = "MODE_JOIN" /\ devState' = "DEV_NWK_JOINING"
             /\ Requests(Operation("join", {d[1]}, {d[2]}))
          \/ /\ devStartMode = "MODE_REJOIN" /\ devState' = "DEV_NWK_REJOIN"
             /\ Requests(Operation("rejoin", {useEpid} \ {NoNetwork}, {d[2]}))
          \/ /\ devStartMode = "MODE_RESUME"
             /\ UNCHANGED <<devState, runs, lost, op, hasParent>>
    /\ KeepsRest
    /\ UNCHANGED <<devStartMode, retryCnt, zdoDiscCounter, useEpid, tmpRejoin, taskEvents, heard>>

(* ZDO_NWK_DISC_CNF when none is: continueJoining stays TRUE in this program.  In any other
   state of the device the message is dropped. *)
SearchesOn ==
    /\ Receives("ZDO_NWK_DISC_CNF")
    /\ devState = "DEV_NWK_DISC" => Suitable = {} \/ zdoDiscCounter <= NUM_DISC_ATTEMPTS
    /\ IF devState = "DEV_NWK_DISC"
       THEN zdoDiscCounter' = (zdoDiscCounter + 1) % CounterSize /\ StartsTimer("ZDO_NETWORK_INIT")
       ELSE UNCHANGED <<zdoDiscCounter, runs, lost>>
    /\ KeepsRest
    /\ UNCHANGED <<devState, devStartMode, retryCnt, useEpid, tmpRejoin, taskEvents, op, heard,
                   hasParent>>

(* ZDApp_ProcessNetworkJoin, by the state the device is in. *)
Joined ==
    /\ Receives("ZDO_NWK_JOIN_IND") /\ nwkStatus
    /\ devState \in {"DEV_NWK_JOINING", "DEV_NWK_ORPHAN", "DEV_NWK_REJOIN"}
    /\ devState' = "DEV_END_DEVICE"
    /\ taskEvents' = taskEvents \cup {"ZDO_STATE_CHANGE_EVT"}
    /\ KeepsRest
    /\ UNCHANGED <<devStartMode, retryCnt, zdoDiscCounter, useEpid, tmpRejoin, runs, lost, op,
                   heard, hasParent>>

RejoinMode == IF nib = NoNetwork THEN "MODE_JOIN" ELSE "MODE_REJOIN"

JoinFailed ==
    /\ Receives("ZDO_NWK_JOIN_IND") /\ ~nwkStatus /\ devState = "DEV_NWK_JOINING"
    /\ retryCnt' = IF devStartMode = "MODE_RESUME" THEN retryCnt + 1 ELSE retryCnt
    /\ IF devStartMode = "MODE_RESUME" /\ retryCnt' >= MAX_RESUME_RETRY
       THEN devStartMode' = RejoinMode /\ tmpRejoin' = (tmpRejoin \/ nib # NoNetwork)
       ELSE UNCHANGED <<devStartMode, tmpRejoin>>
    /\ heard' = {} /\ zdoDiscCounter' = 1
    /\ StartsTimer("ZDO_NETWORK_INIT")
    /\ KeepsRest /\ UNCHANGED <<devState, useEpid, taskEvents, op, hasParent>>

(* AIB_apsUseInsecureJoin may be either: it is the library's. *)
RejoinFailed ==
    /\ Receives("ZDO_NWK_JOIN_IND") /\ ~nwkStatus
    /\ devState \in {"DEV_NWK_ORPHAN", "DEV_NWK_REJOIN"}
    /\ IF devStartMode # "MODE_RESUME" THEN UNCHANGED <<retryCnt, devStartMode, tmpRejoin>>
       ELSE /\ retryCnt' = retryCnt + 1
            /\ IF retryCnt' <= MAX_RESUME_RETRY
               THEN devStartMode' = RejoinMode /\ tmpRejoin' = (tmpRejoin \/ nib # NoNetwork)
               ELSE devStartMode' \in {"MODE_RESUME", "MODE_JOIN"} /\ UNCHANGED tmpRejoin
    /\ heard' = {}
    /\ StartsTimer("ZDO_NETWORK_INIT")
    /\ KeepsRest /\ UNCHANGED <<devState, zdoDiscCounter, useEpid, taskEvents, op, hasParent>>

(* In any other state: as after an address conflict. *)
JoinUnexpected ==
    /\ Receives("ZDO_NWK_JOIN_IND")
    /\ devState \notin {"DEV_NWK_JOINING", "DEV_NWK_ORPHAN", "DEV_NWK_REJOIN"}
    /\ taskEvents' = taskEvents \cup {"ZDO_STATE_CHANGE_EVT"}
    /\ KeepsRest
    /\ UNCHANGED <<devState, devStartMode, retryCnt, zdoDiscCounter, useEpid, tmpRejoin, runs,
                   lost, op, heard, hasParent>>

(* ZDO_NWK_JOIN_REQ. *)
JoinRequested ==
    /\ Receives("ZDO_NWK_JOIN_REQ")
    /\ retryCnt' = 0 /\ devStartMode' = "MODE_RESUME" /\ tmpRejoin' = TRUE /\ useEpid' = nib
    /\ taskEvents' = taskEvents \cup {"ZDO_NETWORK_INIT"}
    /\ KeepsRest
    /\ UNCHANGED <<devState, zdoDiscCounter, runs, lost, op, heard, hasParent>>

ProcessOSALMsg ==
    \/ Chooses \/ SearchesOn
    \/ Joined \/ JoinFailed \/ RejoinFailed \/ JoinUnexpected \/ JoinRequested

--------------------------------------------------------------------------------
(* ZDApp_event_loop's other events: only when no message is left, the first of them first. *)

Serves(e) == inbox = << >> /\ e \in taskEvents
KeepsInbox == UNCHANGED <<retryCnt, zdoDiscCounter, nwkStatus, useEpid, tmpRejoin, inbox, leaveCtrl,
                          heard, nib, airVars>>

(* Slips for NetworkInitEvt: the network is looked for where it was, and nowhere else; *)
NetworkInitDefault ==
    /\ Serves("ZDO_NETWORK_INIT")
    /\ taskEvents' = (taskEvents \ {"ZDO_NETWORK_INIT"}) \cup {"ZDO_STATE_CHANGE_EVT"}
    /\ IF devStartMode = "MODE_RESUME"
       THEN /\ devState' = "DEV_NWK_ORPHAN"
            /\ Requests(Operation("orphan", {nib} \ {NoNetwork}, chanList))
       ELSE devState' = "DEV_NWK_DISC" /\ Requests(Operation("disc", Networks, chanList))
    /\ KeepsInbox /\ UNCHANGED <<scanCnt, chanList, devStartMode, appVars>>

(* or the event is given back as not served. *)
NetworkInitKept ==
    /\ Serves("ZDO_NETWORK_INIT")
    /\ taskEvents' = taskEvents \cup {"ZDO_STATE_CHANGE_EVT"}
    /\ IF devStartMode = "MODE_RESUME"
       THEN /\ devState' = "DEV_NWK_ORPHAN"
            /\ Requests(Operation("orphan", {nib} \ {NoNetwork}, chanList))
       ELSE devState' = "DEV_NWK_DISC" /\ Requests(Operation("disc", Networks, chanList))
    /\ IF devStartMode = "MODE_REJOIN" /\ scanCnt >= ScansOfDefault
       THEN chanList' = Channels ELSE UNCHANGED chanList
    /\ scanCnt' = IF devStartMode = "MODE_REJOIN" /\ scanCnt < ScansOfDefault THEN scanCnt + 1
                  ELSE scanCnt
    /\ KeepsInbox /\ UNCHANGED <<devStartMode, appVars>>

(* ZDO_NETWORK_INIT with ZDO_StartDevice.  After so many scans of the default channels for
   the network it was in the next scan is one of all channels. *)
NetworkInitEvt ==
    /\ Serves("ZDO_NETWORK_INIT")
    /\ taskEvents' = (taskEvents \ {"ZDO_NETWORK_INIT"}) \cup {"ZDO_STATE_CHANGE_EVT"}
    /\ IF devStartMode = "MODE_RESUME"
       THEN /\ devState' = "DEV_NWK_ORPHAN"
            /\ Requests(Operation("orphan", {nib} \ {NoNetwork}, chanList))
       ELSE devState' = "DEV_NWK_DISC" /\ Requests(Operation("disc", Networks, chanList))
    /\ IF devStartMode = "MODE_REJOIN" /\ scanCnt >= ScansOfDefault
       THEN chanList' = Channels ELSE UNCHANGED chanList
    /\ scanCnt' = IF devStartMode = "MODE_REJOIN" /\ scanCnt < ScansOfDefault THEN scanCnt + 1
                  ELSE scanCnt
    /\ KeepsInbox /\ UNCHANGED <<devStartMode, appVars>>

Told == IF devState = "DEV_END_DEVICE" THEN "in" ELSE "out"
States == {i \in DOMAIN appBox : appBox[i] # "data"}

(* A slip for StateChangeEvt: a message that waits is left as it is. *)
StateChangeLate ==
    /\ Serves("ZDO_STATE_CHANGE_EVT") /\ "ZDO_NETWORK_INIT" \notin taskEvents
    /\ taskEvents' = taskEvents \ {"ZDO_STATE_CHANGE_EVT"}
    /\ IF States # {}
       THEN UNCHANGED appBox
       ELSE ~Full /\ appBox' = Append(appBox, Told)
    /\ KeepsInbox
    /\ UNCHANGED <<devState, devStartMode, scanCnt, chanList, runs, lost, appState, op, hasParent>>

(* ZDO_STATE_CHANGE_EVT with zdoSendStateChangeMsg: a message that still waits is changed in
   place; without a block for a new one the event is set again, and ZDApp runs again at once. *)
StateChangeEvt ==
    /\ Serves("ZDO_STATE_CHANGE_EVT") /\ "ZDO_NETWORK_INIT" \notin taskEvents
    /\ taskEvents' = taskEvents \ {"ZDO_STATE_CHANGE_EVT"}
    /\ IF States # {}
       THEN appBox' = [i \in DOMAIN appBox |-> IF i \in States THEN Told ELSE appBox[i]]
       ELSE ~Full /\ appBox' = Append(appBox, Told)
    /\ KeepsInbox
    /\ UNCHANGED <<devState, devStartMode, scanCnt, chanList, runs, lost, appState, op, hasParent>>

DeviceResetEvt ==
    /\ Serves("ZDO_DEVICE_RESET")
    /\ taskEvents \cap {"ZDO_NETWORK_INIT", "ZDO_STATE_CHANGE_EVT"} = {}
    /\ Boot

ZDApp == ProcessOSALMsg \/ NetworkInitEvt \/ StateChangeEvt \/ DeviceResetEvt

--------------------------------------------------------------------------------
(* The application's task. *)

KeepsZDApp == UNCHANGED <<devState, devStartMode, counterVars, nwkStatus, configVars, taskVars,
                          inbox, leaveCtrl, nwkVars, airVars>>

(* KEY_CHANGE and AF_INCOMING_MSG_CMD, which change nothing here. *)
AppData == ~Full /\ appBox' = Append(appBox, "data") /\ UNCHANGED appState /\ KeepsZDApp

Knows == IF States = {} THEN appState ELSE appBox[CHOOSE i \in States : TRUE]

(* SampleApp_ProcessEvent takes all its messages in one turn, once ZDApp has nothing to do. *)
SampleApp ==
    /\ inbox = << >> /\ taskEvents = {} /\ appBox # << >>
    /\ appBox' = << >>
    /\ appState' = Knows
    /\ KeepsZDApp

EntryNext == Expires \/ PowerCut \/ Network \/ ZDApp \/ AppData \/ SampleApp

EntrySpec == EntryInit /\ [][EntryNext]_entryVars

(* Timers expire, the network layer confirms what it began, the tasks run; and of the turns
   in which ZDApp asks for a block there is one in which the other tasks have left it one. *)
EntryFairSpec ==
    /\ EntrySpec
    /\ \A t \in Timers : WF_entryVars(Expire(t))
    /\ WF_entryVars(Confirms) /\ WF_entryVars(ZDApp) /\ WF_entryVars(SampleApp)
    /\ SF_entryVars(NetworkInitEvt) /\ SF_entryVars(StateChangeEvt)

--------------------------------------------------------------------------------
(* Properties. *)

EntryTypes ==
    /\ devState \in DevStates /\ devStartMode \in Modes
    /\ retryCnt \in Nat /\ zdoDiscCounter \in 0 .. CounterSize - 1
    /\ scanCnt \in 0 .. ScansOfDefault
    /\ nwkStatus \in BOOLEAN /\ tmpRejoin \in BOOLEAN
    /\ useEpid \in Networks \cup {NoNetwork} /\ nib \in Networks \cup {NoNetwork}
    /\ chanList \in {DefaultChannels, Channels}
    /\ taskEvents \subseteq TaskEvents /\ runs \subseteq Timers
    /\ inbox \in Seq(ZDAppMessages) /\ appBox \in Seq(AppMessages)
    /\ appState \in {"in", "out"} /\ leaveCtrl \in {"INIT", "SET"}
    /\ op \in Operations /\ heard \subseteq Networks \X Channels
    /\ hasParent \in BOOLEAN /\ lost \in BOOLEAN
    /\ air \in [Networks -> Channels \cup {Off}] /\ permit \subseteq Networks

(* ZDObject.c:412-433, EndDevice.c:290-302: unless ZDApp still has the event, SampleApp knows
   whether the device is in its network, or the one message that waits for it says so. *)
AppFollows == "ZDO_STATE_CHANGE_EVT" \notin taskEvents => Knows = Told

(* ZDApp.c:381-393, 2008-2119, 1366-1532: a device that is not in its network, or has lost its
   parent, has an attempt to enter it under way or a timer for one, unless the heap refused a
   message or a timer since the start, or it was told to hold. *)
AttemptGoesOn ==
    \/ lost \/ devState = "DEV_HOLD"
    \/ "ZDO_NETWORK_INIT" \in runs \cup taskEvents
    \/ op # Idle \/ inbox # << >>
    \/ devState = "DEV_END_DEVICE" /\ hasParent

(* ZDApp.c:1502: a device that was in a network looks for that network only, until it is
   restarted: the normal join that the comment speaks of never comes. *)
RejoinsOnly ==
    [][devStartMode # "MODE_JOIN" /\ devStartMode' = "MODE_JOIN" => Boot]_entryVars

(* ZDApp.c:1153-1156, 2063-2102: a device that is in a network enters no other one until it is
   restarted, whichever it hears of. *)
OwnNetwork == [][nib # NoNetwork /\ nib' # nib => Boot]_entryVars

(* What the device looks for is there: any network on the default channels that lets it join,
   or the network it was in, on whatever channel. *)
Welcome ==
    IF nib = NoNetwork THEN \E n \in permit : air[n] \in DefaultChannels ELSE air[nib] # Off

Refused == (NetworkInitEvt \/ Chooses) /\ op' = op
Setback ==
    \/ Boot \/ Refused \/ air' # air \/ (DiscoveryConfirm /\ ~(Beacons(op.chans) \subseteq heard'))
    \/ (JoinConfirm(FALSE) /\ \E n \in op.nets : Reachable(n))

(* ZDApp.c:1366-1532, ZDObject.c:349-360: once nothing goes wrong any more and what it looks
   for is there, the device enters its network again whenever it has lost it. *)
ComesBack ==
    <>[](Welcome /\ ~lost /\ devState # "DEV_HOLD") /\ <>[][~Setback]_entryVars
        => []<>(devState = "DEV_END_DEVICE")

(* ZDObject.c:418-423: the event of a state change is served, unless SampleApp's messages fill
   the heap: ZDApp then sets its event for ever, and SampleApp, which comes after it, never
   runs to free them.  Requests that are refused, and leaves, for ever are excepted: the
   timers they start take blocks as well. *)
ToldUnlessFull ==
    <>[][~Refused /\ ~\E rejoin \in BOOLEAN : LeaveIndication(rejoin)]_entryVars
        => [](    "ZDO_STATE_CHANGE_EVT" \in taskEvents
              => <>("ZDO_STATE_CHANGE_EVT" \notin taskEvents \/ Len(appBox) = HeapBlocks))

=============================================================================
