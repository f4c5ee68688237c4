------------------------------ MODULE MCWatchers ------------------------------
(***************************************************************************)
(* An instance of what reads the chains: the double-sign monitor, one      *)
(* block's queries to Binance Chain and the event streams of the bindings. *)
(* They share no state, so a behaviour lets one of them run while the      *)
(* others rest in one of their initial states.                             *)
(***************************************************************************)
EXTENDS DoubleSignMonitor, BBCQueries, EventStream

VARIABLE part \* the component that runs: monitor, queries or streams

\* Headers of one signer: three of height 1 with different parents, one of height 2.
CONSTANT signer
Hd(number, parent, signature) ==
  [number |-> number, parent |-> parent, signer |-> signer, signature |-> signature]
MCHeads == {Hd(1, "a", 1), Hd(1, "b", 2), Hd(1, "c", 3), Hd(2, "a", 4)}

\* Blocks of two attributes: packages for this chain and another one, on all
\* channels, after each other and after attributes that are skipped.
Attr(type, key, items) == [type |-> type, key |-> key, items |-> items]
Pkg(dest, channel, sequence) ==
  Attr("IBCPackage", "IBCPackageInfo", <<dest, channel, sequence>>)
Noise ==
  {Attr("transfer", "IBCPackageInfo", <<2, 1, 4>>), Attr("IBCPackage", "relayFee", <<2, 1, 4>>),
   Attr("IBCPackage", "IBCPackageInfo", <<2, 1>>),
   Attr("IBCPackage", "IBCPackageInfo", <<2, NotANumber, 4>>)}
MCBlocks ==
  {<<a, b>> : a \in Noise \cup {Pkg(d, c, s) : d \in {2, 6}, c \in 0..3, s \in {0, 17}},
              b \in {Pkg(2, 1, 4), Pkg(2, 0, 17)}}

\* States of Binance Chain: names, hashes and numbers of validators below, at and
\* beyond what the encoding takes, and one key of another type.
Bytes(n) == [i \in 1..n |-> i % 4]
Val(i, keyType) == [PubKey |-> Bytes(32), keyType |-> keyType, VotingPower |-> 1000 + i]
Vals(n, keyType) == [i \in 1..n |-> Val(i, IF i = n THEN keyType ELSE "ed25519")]
State(name, appHash, now, then) ==
  [Network |-> Bytes(name), AppHash |-> Bytes(appHash), ValidatorsHash |-> Bytes(32),
   Validators |-> Height :> now @@ (Height + 1) :> then]
MCState == State(4, 32, Vals(2, "ed25519"), Vals(2, "ed25519"))
MCBCStates ==
  {MCState} \cup
  {State(name, appHash, Vals(n, "ed25519"), Vals(m, "ed25519")) :
     name \in {4, 32, 33}, appHash \in {0, 32}, n \in {1, 2}, m \in {1, 99, 100}} \cup
  {State(4, 32, Vals(2, "ed25519"), Vals(2, "secp256k1"))}

\* Chains of four logs, one of another event and one that is always good.
MCLog(e, topic, good) == [event |-> e, topics |-> [i \in 1..Len(e.indexed) |-> topic], good |-> good]
MCChains ==
  UNION {{<<x, MCLog(e, "a", TRUE), y, MCLog(RewardToRelayer, "a", TRUE)>> :
            x \in {MCLog(e, "a", TRUE), MCLog(e, "b", TRUE), MCLog(e, "a", FALSE)},
            y \in {MCLog(e, "a", TRUE), MCLog(e, "b", TRUE)}} : e \in Events}

\* The components at rest.
QueriesRest ==
  /\ attributes = <<Pkg(2, 0, 0), Pkg(2, 0, 17)>> /\ bc = MCState
StreamsRest ==
  chain = <<MCLog(AddChannel, "a", TRUE), MCLog(AddChannel, "a", TRUE),
            MCLog(AddChannel, "a", TRUE), MCLog(RewardToRelayer, "a", TRUE)>>

allVars == <<part, monitorVars, queryVars, streamVars>>
MCInit ==
  /\ part \in {"monitor", "queries", "streams"}
  /\ MonitorInit
  /\ attributes = <<Pkg(2, 0, 0), Pkg(2, 0, 17)>> \/ bc = MCState
  /\ part = "queries" \/ (part # "queries" /\ QueriesRest)
  /\ QueryInit
  /\ part = "streams" \/ (part # "streams" /\ StreamsRest)
  /\ StreamInit
\* The providers announce four headers between them.
Few == announced'[1] + announced'[2] <= 4
\* Events of which the chain holds a log are asked for.
Asked == query' = query \/ \E i \in DOMAIN chain : chain[i].event = query'.event
MCNext ==
  \/ part = "monitor" /\ MonitorNext /\ Few /\ UNCHANGED <<part, queryVars, streamVars>>
  \/ part = "queries" /\ QueryNext /\ UNCHANGED <<part, monitorVars, streamVars>>
  \/ part = "streams" /\ StreamNext /\ Asked /\ UNCHANGED <<part, monitorVars, queryVars>>

\* At rest no fair action of a component is enabled.
MCSpec == MCInit /\ [][MCNext]_allVars /\ MonitorFairness /\ StreamFairness

\* Every variable of the three components has its type.
WatchersTypeOK == MonitorTypeOK /\ QueryTypeOK /\ StreamTypeOK
===============================================================================
