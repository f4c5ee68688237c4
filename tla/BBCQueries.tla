------------------------------ MODULE BBCQueries ------------------------------
(***************************************************************************)
(* What the BBC executor makes of Binance Chain's answers.  The events of  *)
(* a block become tasks, the tasks store keys; the state of the chain at a *)
(* height becomes the bytes the light client contract is initialised with. *)
(* Numbers are written with Byte values per byte (256 in the code).        *)
(***************************************************************************)
EXTENDS FiniteSets, Selection

CONSTANTS
  Byte,          \* values of a byte (256)
  SourceChainID, \* chain ids of the configuration
  DestChainID,
  Blocks,        \* the attributes a block's events may have, in order
  Height,        \* the height the initial state is asked for
  BCStates,      \* what Binance Chain may say of that height
  NotANumber,    \* an item that does not parse as a number
  NoState        \* no consensus state was asked for

\* An attribute of an event; its value is a list of items.
Attribute == [type : STRING, key : STRING, items : Seq(Int \cup {NotANumber})]
Validator == [PubKey : Seq(Nat), keyType : STRING, VotingPower : Nat]
\* The chain's name, the block's hashes, and the validators of a height.
BCState ==
  [Network : Seq(Nat), AppHash : Seq(Nat), ValidatorsHash : Seq(Nat),
   Validators : [Height..(Height + 1) -> Seq(Validator)]]

ASSUME QueryAssumption ==
  /\ Blocks \subseteq Seq(Attribute) /\ BCStates \subseteq BCState
  /\ Byte \in Nat /\ Byte >= 4 /\ Byte % 2 = 0
  /\ Height \in Nat
  /\ {SourceChainID, DestChainID} \subseteq 0..(Byte * Byte - 1)

VARIABLES
  attributes,    \* the attributes of the block's events
  bc,            \* the state of Binance Chain
  scanned,       \* how many attributes were looked at
  taskList,      \* TaskSet.TaskList
  consensusState \* what GetInitConsensusState returned

queryInputs == <<attributes, bc>>
queryVars == <<attributes, bc, scanned, taskList, consensusState>>

MaxInt8 == Byte \div 2 - 1
\* Go's conversions of an integer to uint16 and of a byte to int8, and back.
Uint16(n) == n % (Byte * Byte)
CrossChainChannelID(n) == ((n + MaxInt8 + 1) % Byte) - (MaxInt8 + 1)
AsByte(channelID) == channelID % Byte

QueryInit ==
  /\ attributes \in Blocks /\ bc \in BCStates
  /\ scanned = 0 /\ taskList = <<>> /\ consensusState = NoState

-------------------------------------------------------------------------------
(* MonitorCrossChainPackage: events to tasks *)

\* Every check that fails skips the attribute.
WellFormed(a) ==
  /\ a.type = "IBCPackage" /\ a.key = "IBCPackageInfo"
  /\ Len(a.items) = 3 /\ \A i \in 1..3 : a.items[i] # NotANumber
IsTask_AnyByte(a) ==
  /\ WellFormed(a)
  /\ Uint16(a.items[1]) = DestChainID
  /\ a.items[2] \in 0..(Byte - 1) /\ a.items[3] >= 0
IsTask(a) ==
  /\ WellFormed(a)
  /\ Uint16(a.items[1]) = DestChainID
  /\ a.items[2] \in 0..MaxInt8 /\ a.items[3] >= 0
ScanAttribute ==
  /\ scanned < Len(attributes)
  /\ scanned' = scanned + 1
  /\ LET a == attributes[scanned + 1] IN
       taskList' = IF IsTask(a)
                   THEN Append(taskList, [ChannelID |-> CrossChainChannelID(a.items[2]),
                                          Sequence |-> a.items[3]])
                   ELSE taskList
  /\ UNCHANGED <<queryInputs, consensusState>>

\* A number without its last bytes; all of it fits the bytes if nothing is left.
Shifted(n, bytes) ==
  LET shift[k \in 0..bytes] == IF k = 0 THEN n ELSE shift[k - 1] \div Byte
  IN  shift[bytes]
\* buildCrossChainPackageKey: prefix, both chains, channel, sequence, of 1, 2,
\* 2, 1 and 8 bytes, the most significant first.
BigEndian(n, size) == [i \in 1..size |-> Shifted(n, size - i) % Byte]
buildCrossChainPackageKey(channelID, sequence) ==
  <<0>> \o BigEndian(SourceChainID, 2) \o BigEndian(DestChainID, 2)
        \o <<AsByte(channelID)>> \o BigEndian(sequence, 8)
Requests ==
  [i \in DOMAIN taskList |->
     buildCrossChainPackageKey(taskList[i].ChannelID, taskList[i].Sequence)]
\* buildChannelSequenceKey: prefix, chain and channel.
buildChannelSequenceKey(channelID) ==
  <<240>> \o BigEndian(DestChainID, 2) \o <<AsByte(channelID)>>

\* What Binance Chain writes: a chain id of two bytes, a channel of one and a
\* sequence of eight.
ASSUME BlocksAssumption ==
  \A b \in Blocks : \A i \in DOMAIN b : WellFormed(b[i]) =>
    /\ b[i].items[1] \in 0..(Byte * Byte - 1) /\ b[i].items[2] \in 0..(Byte - 1)
    /\ b[i].items[3] \in Nat /\ Shifted(b[i].items[3], 8) = 0

-------------------------------------------------------------------------------
(* GetInitConsensusState and EncodeConsensusState *)

ConsensusState ==
  [ChainID : Seq(Nat), Height : Nat, AppHash : Seq(Nat), CurValidatorSetHash : Seq(Nat),
   NextValidatorSet : Seq(Validator)]

chainIDLength == 32
heightLength == 8
appHashLength == 32
validatorSetHashLength == 32
validatorPubkeyLength == 32
validatorVotingPowerLength == 8
maxConsensusStateLength == 32 * (128 - 1)

\* The three calls answer, each from the provider in use; any error is
\* returned, and then there is no state.
GetInitConsensusState ==
  /\ consensusState = NoState
  /\ consensusState' =
       [ChainID |-> bc.Network, Height |-> Height, AppHash |-> bc.AppHash,
        CurValidatorSetHash |-> bc.ValidatorsHash,
        NextValidatorSet |-> bc.Validators[Height + 1]]
  /\ UNCHANGED <<queryInputs, scanned, taskList>>

validatorLength == validatorPubkeyLength + validatorVotingPowerLength
serializeLength_NoPowers(validators) ==
  chainIDLength + heightLength + appHashLength + validatorSetHashLength
    + validators * validatorPubkeyLength
serializeLength(validators) ==
  chainIDLength + heightLength + appHashLength + validatorSetHashLength
    + validators * validatorLength
\* The checks of EncodeConsensusState; each that fails is its error.
Encodable(cs) ==
  /\ serializeLength(Len(cs.NextValidatorSet)) <= maxConsensusStateLength
  /\ Len(cs.ChainID) <= chainIDLength
  /\ \A i \in DOMAIN cs.NextValidatorSet : cs.NextValidatorSet[i].keyType = "ed25519"

\* copy into as many zero bytes: what is too long is cut, without an error.
Field(bytes, size) == [i \in 1..size |-> IF i <= Len(bytes) THEN bytes[i] ELSE 0]
EncodedValidator(v) ==
  Field(v.PubKey, validatorPubkeyLength) \o BigEndian(v.VotingPower, validatorVotingPowerLength)
EncodeConsensusState(cs) ==
  LET validators == [i \in DOMAIN cs.NextValidatorSet |-> EncodedValidator(cs.NextValidatorSet[i])]
  IN  Field(cs.ChainID, chainIDLength) \o BigEndian(cs.Height, heightLength)
        \o Field(cs.AppHash, appHashLength)
        \o Field(cs.CurValidatorSetHash, validatorSetHashLength)
        \o [i \in 1..(Len(validators) * validatorLength) |->
              validators[((i - 1) \div validatorLength) + 1][((i - 1) % validatorLength) + 1]]

\* What Binance Chain answers: hashes and keys of 32 bytes or fewer, numbers of
\* at most eight.
ASSUME StatesAssumption ==
  /\ Shifted(Height, 8) = 0
  /\ \A b \in BCStates :
       /\ Len(b.AppHash) <= 32 /\ Len(b.ValidatorsHash) <= 32
       /\ \A i \in DOMAIN b.Validators[Height + 1] :
            LET v == b.Validators[Height + 1][i] IN
              Shifted(v.VotingPower, 8) = 0 /\ (v.keyType = "ed25519" => Len(v.PubKey) = 32)

-------------------------------------------------------------------------------

QueryNext == ScanAttribute \/ GetInitConsensusState

QuerySpec == QueryInit /\ [][QueryNext]_queryVars

-------------------------------------------------------------------------------

\* Every variable has its type; bc is an input that no step changes.
QueryTypeOK ==
  /\ scanned \in 0..Len(attributes) /\ Len(taskList) <= scanned
  /\ attributes \in Blocks
  /\ consensusState \in ConsensusState \cup {NoState}
  /\ \A i \in DOMAIN taskList : taskList[i].ChannelID \in 0..MaxInt8

\* A package for this chain, on a channel that fits a task.
IsPackage(a) ==
  /\ WellFormed(a) /\ a.items[1] = DestChainID /\ a.items[2] <= MaxInt8
Packages ==
  Selected(attributes, {i \in DOMAIN attributes : IsPackage(attributes[i])}, Len(attributes))
Value(digits) ==
  LET v[i \in 0..Len(digits)] == IF i = 0 THEN 0 ELSE v[i - 1] * Byte + digits[i]
  IN v[Len(digits)]
Addresses(key, a) ==
  /\ Len(key) = 14 /\ key[1] = 0
  /\ Value(SubSeq(key, 2, 3)) = SourceChainID /\ Value(SubSeq(key, 4, 5)) = a.items[1]
  /\ key[6] = a.items[2] /\ Value(SubSeq(key, 7, 14)) = a.items[3]

\* The sequence key of a channel of the configuration, a byte that the code
\* holds as a signed number.
AsksFor(key, c) ==
  /\ Len(key) = 4 /\ key[1] = 240 /\ Value(SubSeq(key, 2, 3)) = DestChainID /\ key[4] = c

\* Of a block's events exactly the packages for this chain become requests, in
\* their order, and each key can be read back as its package: neither the cut
\* of the chain id to 16 bits nor the signed channel id confuses two of them.
\* The sequence of every channel is asked for under a key of its own, also of
\* one whose signed id is negative.
RequestsExact ==
  /\ scanned = Len(attributes) =>
       /\ Len(Requests) = Len(Packages)
       /\ \A i \in DOMAIN Packages : Addresses(Requests[i], Packages[i])
  /\ \A c \in 0..(Byte - 1) : AsksFor(buildChannelSequenceKey(CrossChainChannelID(c)), c)

\* The layout types.go:23-25 promises: the name of the chain in 32 bytes, the
\* height in 8, both hashes in 32 each, then 32 bytes of key and 8 of power for
\* every validator.  Short fields are followed by zeros.
Holds(bytes, from, field) ==
  \A i \in 0..31 : bytes[from + i] = IF i < Len(field) THEN field[i + 1] ELSE 0
Layout(bytes, validators) ==
  /\ Len(bytes) = 104 + 40 * Len(validators)
  /\ Holds(bytes, 1, bc.Network) /\ Value(SubSeq(bytes, 33, 40)) = Height
  /\ Holds(bytes, 41, bc.AppHash) /\ Holds(bytes, 73, bc.ValidatorsHash)
  /\ \A i \in DOMAIN validators :
       LET from == 105 + 40 * (i - 1) IN
         /\ Holds(bytes, from, validators[i].PubKey)
         /\ Value(SubSeq(bytes, from + 32, from + 39)) = validators[i].VotingPower

\* The contract can be given the state of a height exactly if the chain's name
\* has at most 32 bytes, the validators of the next height are at most the 99
\* of const.go:10 and all have ed25519 keys; it then reads back from the bytes.
InitialStateReadsBack ==
  consensusState # NoState =>
    LET validators == bc.Validators[Height + 1] IN
      /\ Encodable(consensusState) <=>
           /\ Len(bc.Network) <= 32 /\ Len(validators) <= 99
           /\ \A i \in DOMAIN validators : validators[i].keyType = "ed25519"
      /\ Encodable(consensusState) =>
           Layout(EncodeConsensusState(consensusState), validators)
===============================================================================
