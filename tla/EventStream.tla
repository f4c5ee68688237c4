------------------------------ MODULE EventStream ------------------------------
(***************************************************************************)
(* The event half of the contract bindings: every event has a Filter (past *)
(* logs, read through an iterator) and a Watch (new logs, which a          *)
(* goroutine forwards to the caller's channel).  The code is the same for  *)
(* each event but for its name and the arguments a caller may filter by.   *)
(* External, as the bindings use it, is the subscription: it puts logs     *)
(* into a buffered channel and ends, on its own or unsubscribed.           *)
(***************************************************************************)
EXTENDS SequencesExt, FiniteSets, Selection

CONSTANTS
  Chains,    \* sequences of logs the chain may hold
  Topics,    \* values of the indexed arguments
  LogBuffer, \* capacity of the channel of logs (128)
  SinkBuffer \* capacity of the channel a caller gives to Watch

\* The events of the contracts, with the arguments a caller may filter by.
Event(contract, name, indexed) == [contract |-> contract, name |-> name, indexed |-> indexed]
AddChannel == Event("crosschain", "addChannel", <<"channelId", "contractAddr">>)
CrossChainPackage == Event("crosschain", "crossChainPackage", <<"sequence", "channelId">>)
CrosschainParamChange == Event("crosschain", "paramChange", <<>>)
UnexpectedFailureAssertionInPackageHandler ==
  Event("crosschain", "unexpectedFailureAssertionInPackageHandler", <<"contractAddr">>)
UnexpectedRevertInPackageHandler ==
  Event("crosschain", "unexpectedRevertInPackageHandler", <<"contractAddr">>)
UnsupportedPackage == Event("crosschain", "unsupportedPackage", <<"packageSequence", "channelId">>)
InitConsensusState == Event("tendermintlightclient", "InitConsensusState", <<>>)
SyncConsensusState == Event("tendermintlightclient", "SyncConsensusState", <<>>)
RelayerhubParamChange == Event("relayerhub", "paramChange", <<>>)
RelayerRegister == Event("relayerhub", "relayerRegister", <<>>)
RelayerUnRegister == Event("relayerhub", "relayerUnRegister", <<>>)
DistributeCollectedReward == Event("relayerincentivize", "distributeCollectedReward", <<>>)
RelayerincentivizeParamChange == Event("relayerincentivize", "paramChange", <<>>)
RewardToRelayer == Event("relayerincentivize", "rewardToRelayer", <<>>)
Events ==
  {AddChannel, CrossChainPackage, CrosschainParamChange,
   UnexpectedFailureAssertionInPackageHandler, UnexpectedRevertInPackageHandler,
   UnsupportedPackage, InitConsensusState, SyncConsensusState,
   RelayerhubParamChange, RelayerRegister, RelayerUnRegister,
   DistributeCollectedReward, RelayerincentivizeParamChange, RewardToRelayer}

\* A log names its event and the values of its indexed arguments; good means
\* that its data can be unpacked.
Log ==
  UNION {[event : {e}, topics : [1..Len(e.indexed) -> Topics], good : BOOLEAN] : e \in Events}

ASSUME StreamAssumption ==
  LogBuffer \in Nat \ {0} /\ SinkBuffer \in Nat \ {0} /\ Chains \subseteq Seq(Log)

VARIABLES
  query,    \* the call: [api, event, rules]
  chain,    \* the logs of the chain, in order
  found,    \* how many of those that match were put into the channel
  logs,     \* the channel of logs
  sub,      \* the subscription: open, ended or failed
  done, fail, \* fields of the iterator
  last,     \* what the last call of Next returned: none, true or false
  yielded,  \* logs the iterator gave to its user (history)
  closed,   \* did the user call Close?
  pump,     \* Watch's goroutine: select, forward or returned
  event,    \* the log it forwards
  sink,     \* the channel of the user
  received, \* logs the user of Watch got (history)
  quit      \* did the user unsubscribe?

iteratorVars == <<done, fail, last, yielded, closed>>
watchVars == <<pump, event, sink, received, quit>>
inputVars == <<query, chain>>
streamVars ==
  <<query, chain, found, logs, sub, done, fail, last, yielded, closed,
    pump, event, sink, received, quit>>

NoLog == [event |-> "none"]
\* The values a caller wants of an argument; an empty list admits every value.
Rule == {{}} \cup {{t} : t \in Topics}
Query(api, e, rules) == [api |-> api, event |-> e, rules |-> rules]
NoQuery == Query("none", Event("none", "none", <<>>), <<>>)
Queries ==
  {NoQuery} \cup
  UNION {[api : {"filter", "watch"}, event : {e}, rules : [1..Len(e.indexed) -> Rule]] :
           e \in Events}

Matches(log) ==
  /\ log.event = query.event
  /\ \A i \in DOMAIN query.rules :
       query.rules[i] # {} => log.topics[i] \in query.rules[i]
\* The logs that match, in the chain's order.
Matching == Selected(chain, {i \in DOMAIN chain : Matches(chain[i])}, Len(chain))

StreamInit ==
  /\ chain \in Chains /\ query = NoQuery
  /\ found = 0 /\ logs = <<>> /\ sub = "none"
  /\ done = FALSE /\ fail = FALSE /\ last = "none" /\ yielded = <<>> /\ closed = FALSE
  /\ pump = "returned" /\ event = NoLog /\ sink = <<>> /\ received = <<>> /\ quit = FALSE

\* The node's subscription offers the next matching log; the one of Filter ends
\* after the last, and either may break.
Offer ==
  /\ sub = "open" /\ found < Len(Matching) /\ Len(logs) < LogBuffer
  /\ found' = found + 1 /\ logs' = Append(logs, Matching[found + 1])
  /\ UNCHANGED <<inputVars, sub, iteratorVars, watchVars>>
Exhausted ==
  /\ sub = "open" /\ query.api = "filter" /\ found = Len(Matching)
  /\ sub' = "ended"
  /\ UNCHANGED <<inputVars, found, logs, iteratorVars, watchVars>>
Breaks ==
  /\ sub = "open" /\ sub' = "failed"
  /\ UNCHANGED <<inputVars, found, logs, iteratorVars, watchVars>>

-------------------------------------------------------------------------------
(* The iterator *)

Iterating == query.api = "filter" /\ last # "false"
\* A log is unpacked; one that cannot be is the iterator's error, for good.
TakeLog ==
  /\ logs' = Tail(logs)
  /\ IF Head(logs).good
     THEN yielded' = Append(yielded, Head(logs)) /\ last' = "true" /\ UNCHANGED fail
     ELSE fail' = TRUE /\ last' = "false" /\ UNCHANGED yielded
ReturnFalse == last' = "false" /\ UNCHANGED <<logs, yielded, fail>>
Drain_ReturnsFalse == ReturnFalse
Drain == IF logs # <<>> THEN TakeLog ELSE ReturnFalse
\* Next waits for a log or the end of the subscription, whichever the select
\* picks when both are there; after the end it delivers what is in the channel,
\* unless the subscription failed, which is the iterator's error.
NextLog ==
  /\ Iterating /\ ~done /\ logs # <<>> /\ TakeLog
  /\ UNCHANGED <<inputVars, found, sub, done, closed, watchVars>>
NextEnds ==
  /\ Iterating /\ ~done /\ sub # "open"
  /\ done' = TRUE
  /\ IF sub = "failed" THEN fail' = TRUE /\ last' = "false" /\ UNCHANGED <<logs, yielded>>
                       ELSE Drain
  /\ UNCHANGED <<inputVars, found, sub, closed, watchVars>>
NextDone ==
  /\ Iterating /\ done /\ Drain
  /\ UNCHANGED <<inputVars, found, sub, done, closed, watchVars>>
\* Close unsubscribes; the user may still ask for what is in the channel.
Close ==
  /\ query.api = "filter" /\ ~closed
  /\ closed' = TRUE /\ sub' = (IF sub = "open" THEN "ended" ELSE sub)
  /\ UNCHANGED <<inputVars, found, logs, done, fail, last, yielded, watchVars>>

-------------------------------------------------------------------------------
(* Watch's goroutine *)

Return == pump' = "returned" /\ event' = NoLog
\* A log that cannot be unpacked ends the goroutine with an error.
WatchLog ==
  /\ pump = "select" /\ logs # <<>> /\ logs' = Tail(logs)
  /\ IF Head(logs).good THEN pump' = "forward" /\ event' = Head(logs) ELSE Return
  /\ UNCHANGED <<inputVars, found, sub, sink, received, quit, iteratorVars>>
WatchForward ==
  /\ pump = "forward" /\ Len(sink) < SinkBuffer
  /\ sink' = Append(sink, event) /\ pump' = "select" /\ event' = NoLog
  /\ UNCHANGED <<inputVars, found, logs, sub, received, quit, iteratorVars>>
\* Both selects also wait for the end of the subscription and of the watch.
WatchEnds_NotInForward ==
  /\ pump = "select" /\ (sub # "open" \/ quit) /\ Return
  /\ UNCHANGED <<inputVars, found, logs, sub, sink, received, quit, iteratorVars>>
WatchEnds ==
  /\ pump \in {"select", "forward"} /\ (sub # "open" \/ quit) /\ Return
  /\ UNCHANGED <<inputVars, found, logs, sub, sink, received, quit, iteratorVars>>
\* The deferred Unsubscribe ends the inner subscription.
PumpReturned ==
  /\ query.api = "watch" /\ pump = "returned" /\ sub = "open" /\ sub' = "ended"
  /\ UNCHANGED <<inputVars, found, logs, iteratorVars, watchVars>>

UserReads ==
  /\ sink # <<>> /\ sink' = Tail(sink) /\ received' = Append(received, Head(sink))
  /\ UNCHANGED <<inputVars, found, logs, sub, pump, event, quit, iteratorVars>>
Unsubscribe ==
  /\ query.api = "watch" /\ ~quit /\ quit' = TRUE
  /\ UNCHANGED <<inputVars, found, logs, sub, pump, event, sink, received, iteratorVars>>

PumpStep == WatchLog \/ WatchForward \/ WatchEnds \/ PumpReturned

-------------------------------------------------------------------------------
(* The functions of the bindings: of each event a Filter and a Watch *)

\* A call that the node refuses returns its error and leaves nothing behind.
Calls(api, e, rules) ==
  /\ query = NoQuery /\ query' = Query(api, e, rules) /\ sub' = "open"
  /\ UNCHANGED <<chain, found, logs, iteratorVars, event, sink, received, quit>>
FilterLogs(e, rules) == Calls("filter", e, rules) /\ UNCHANGED pump
\* Watch starts a goroutine, which runs on after Watch has returned.
WatchLogs(e, rules) == Calls("watch", e, rules) /\ pump' = "select"
Goroutine(e) == query.api = "watch" /\ query.event = e /\ PumpStep

FilterAddChannel ==
  \E channelId, contractAddr \in Rule :
    FilterLogs(AddChannel, <<channelId, contractAddr>>)
WatchAddChannel ==
  \/ \E channelId, contractAddr \in Rule :
       WatchLogs(AddChannel, <<channelId, contractAddr>>)
  \/ Goroutine(AddChannel)
FilterCrossChainPackage ==
  \E sequence, channelId \in Rule : FilterLogs(CrossChainPackage, <<sequence, channelId>>)
WatchCrossChainPackage ==
  \/ \E sequence, channelId \in Rule :
       WatchLogs(CrossChainPackage, <<sequence, channelId>>)
  \/ Goroutine(CrossChainPackage)
FilterCrosschainParamChange == FilterLogs(CrosschainParamChange, <<>>)
WatchCrosschainParamChange ==
  WatchLogs(CrosschainParamChange, <<>>) \/ Goroutine(CrosschainParamChange)
FilterUnexpectedFailureAssertionInPackageHandler ==
  \E contractAddr \in Rule :
    FilterLogs(UnexpectedFailureAssertionInPackageHandler, <<contractAddr>>)
WatchUnexpectedFailureAssertionInPackageHandler ==
  \/ \E contractAddr \in Rule :
       WatchLogs(UnexpectedFailureAssertionInPackageHandler, <<contractAddr>>)
  \/ Goroutine(UnexpectedFailureAssertionInPackageHandler)
FilterUnexpectedRevertInPackageHandler ==
  \E contractAddr \in Rule :
    FilterLogs(UnexpectedRevertInPackageHandler, <<contractAddr>>)
WatchUnexpectedRevertInPackageHandler ==
  \/ \E contractAddr \in Rule :
       WatchLogs(UnexpectedRevertInPackageHandler, <<contractAddr>>)
  \/ Goroutine(UnexpectedRevertInPackageHandler)
FilterUnsupportedPackage ==
  \E packageSequence, channelId \in Rule :
    FilterLogs(UnsupportedPackage, <<packageSequence, channelId>>)
WatchUnsupportedPackage ==
  \/ \E packageSequence, channelId \in Rule :
       WatchLogs(UnsupportedPackage, <<packageSequence, channelId>>)
  \/ Goroutine(UnsupportedPackage)
FilterInitConsensusState == FilterLogs(InitConsensusState, <<>>)
WatchInitConsensusState == WatchLogs(InitConsensusState, <<>>) \/ Goroutine(InitConsensusState)
FilterSyncConsensusState == FilterLogs(SyncConsensusState, <<>>)
WatchSyncConsensusState == WatchLogs(SyncConsensusState, <<>>) \/ Goroutine(SyncConsensusState)
FilterRelayerhubParamChange == FilterLogs(RelayerhubParamChange, <<>>)
WatchRelayerhubParamChange ==
  WatchLogs(RelayerhubParamChange, <<>>) \/ Goroutine(RelayerhubParamChange)
FilterRelayerRegister == FilterLogs(RelayerRegister, <<>>)
WatchRelayerRegister == WatchLogs(RelayerRegister, <<>>) \/ Goroutine(RelayerRegister)
FilterRelayerUnRegister == FilterLogs(RelayerUnRegister, <<>>)
WatchRelayerUnRegister == WatchLogs(RelayerUnRegister, <<>>) \/ Goroutine(RelayerUnRegister)
FilterDistributeCollectedReward == FilterLogs(DistributeCollectedReward, <<>>)
WatchDistributeCollectedReward ==
  WatchLogs(DistributeCollectedReward, <<>>) \/ Goroutine(DistributeCollectedReward)
FilterRelayerincentivizeParamChange == FilterLogs(RelayerincentivizeParamChange, <<>>)
WatchRelayerincentivizeParamChange ==
  WatchLogs(RelayerincentivizeParamChange, <<>>) \/ Goroutine(RelayerincentivizeParamChange)
FilterRewardToRelayer == FilterLogs(RewardToRelayer, <<>>)
WatchRewardToRelayer == WatchLogs(RewardToRelayer, <<>>) \/ Goroutine(RewardToRelayer)

FilterStep ==
  \/ FilterAddChannel \/ FilterCrossChainPackage \/ FilterCrosschainParamChange
  \/ FilterUnexpectedFailureAssertionInPackageHandler
  \/ FilterUnexpectedRevertInPackageHandler \/ FilterUnsupportedPackage
  \/ FilterInitConsensusState \/ FilterSyncConsensusState \/ FilterRelayerhubParamChange
  \/ FilterRelayerRegister \/ FilterRelayerUnRegister \/ FilterDistributeCollectedReward
  \/ FilterRelayerincentivizeParamChange \/ FilterRewardToRelayer
WatchStep ==
  \/ WatchAddChannel \/ WatchCrossChainPackage \/ WatchCrosschainParamChange
  \/ WatchUnexpectedFailureAssertionInPackageHandler
  \/ WatchUnexpectedRevertInPackageHandler \/ WatchUnsupportedPackage
  \/ WatchInitConsensusState \/ WatchSyncConsensusState \/ WatchRelayerhubParamChange
  \/ WatchRelayerRegister \/ WatchRelayerUnRegister \/ WatchDistributeCollectedReward
  \/ WatchRelayerincentivizeParamChange \/ WatchRewardToRelayer

StreamNext ==
  \/ FilterStep \/ WatchStep
  \/ Offer \/ Exhausted \/ Breaks
  \/ NextLog \/ NextEnds \/ NextDone \/ Close
  \/ UserReads \/ Unsubscribe

StreamSpec == StreamInit /\ [][StreamNext]_streamVars
\* The goroutine is scheduled.  Nothing is assumed of the node or of the user.
StreamFairness == WF_streamVars(PumpStep)

-------------------------------------------------------------------------------

\* Every variable has its type; the channels hold what their buffers do.
StreamTypeOK ==
  /\ query \in Queries /\ chain \in Chains /\ found \in 0..Len(Matching)
  /\ logs \in Seq(Log) /\ Len(logs) <= LogBuffer
  /\ sink \in Seq(Log) /\ Len(sink) <= SinkBuffer
  /\ yielded \in Seq(Log) /\ received \in Seq(Log)
  /\ event \in IF pump = "forward" THEN Log ELSE {NoLog}
  /\ sub \in {"none", "open", "ended", "failed"}
  /\ {done, fail, closed, quit} \subseteq BOOLEAN
  /\ last \in {"none", "true", "false"}
  /\ pump \in {"select", "forward", "returned"}

\* What a user is given is what the query matches, in the chain's order and
\* without a gap; an iterator that stops without an error and was not closed
\* gave everything, also when the subscription ended before it was read.
EventsInOrder ==
  /\ IsPrefix(yielded, Matching)
  /\ IsPrefix(received, Matching)
  /\ last = "false" /\ ~fail /\ ~closed => yielded = Matching

\* Whoever unsubscribes gets rid of the goroutine and of the subscription under
\* it, also while the sink is full and nobody reads it any more.
StopsOnQuit == quit ~> (pump = "returned" /\ sub # "open")
===============================================================================
