---------------------------- MODULE RelayerAccount ----------------------------
(***************************************************************************)
(* What the relayer does with its own account on BSC: it registers at the  *)
(* relayer hub with a deposit, and claims the rewards that pile up in the  *)
(* incentive contract.  Relayer.Start has both calls commented out at      *)
(* present; the module places them where they stand: registration runs     *)
(* alone, before the goroutines.                                           *)
(***************************************************************************)
EXTENDS Integers, Sequences, FiniteSets

CONSTANTS
  minimumReward,    \* the least reward worth a transaction (10 BNB)
  MaxVault,         \* bound on the reward that has piled up
  MaxTxs,           \* bound on the transactions but for registrations
  AccountFaults     \* bound on the faults of the account's calls

ASSUME AccountAssumption ==
  /\ minimumReward \in Nat \ {0}
  /\ {MaxVault, MaxTxs, AccountFaults} \subseteq Nat

VARIABLES
  registered, \* BSC: is the account in the relayer hub?
  vault,      \* BSC: the account's reward not yet claimed
  mined,      \* BSC: transactions of the account that were executed
  pending,    \* BSC: its pending transactions, in nonce order
  hub,        \* registerRelayerHub: ask, nonce, send, check or done
  claimer,    \* autoClaimRewardDaemon: query, nonce or send
  nonce,      \* the nonce the running call read
  mishaps,    \* number of faults so far
  staleView,  \* history: was a call answered without the pending transactions?
  wasted      \* history: transactions that were executed and achieved nothing

chainVars == <<registered, vault, mined, pending, wasted>>
mishapVars == <<mishaps, staleView>>
accountVars ==
  <<registered, vault, mined, pending, hub, claimer, nonce,
    mishaps, staleView, wasted>>

AccountInit ==
  /\ registered = FALSE /\ vault = 0 /\ mined = 0
  /\ pending = <<>>
  /\ hub = "ask" /\ claimer = "query" /\ nonce = 0
  /\ mishaps = 0 /\ staleView = FALSE /\ wasted = 0

Mishap(stale) ==
  /\ mishaps < AccountFaults
  /\ mishaps' = mishaps + 1 /\ staleView' = (staleView \/ stale)
NoMishap == UNCHANGED mishapVars

\* A call sees the pending block, or an error, or a provider without it.
getCallOpts_Latest == [Pending |-> FALSE]
getCallOpts == [Pending |-> TRUE]
IsPending(kind) == \E i \in DOMAIN pending : pending[i] = kind
IsRelayer(opts) == registered \/ (opts.Pending /\ IsPending("register"))
RelayerRewardVault(opts) == IF opts.Pending /\ IsPending("claim") THEN 0 ELSE vault
Views == {getCallOpts, [Pending |-> FALSE]}
Answered(opts) == (opts = getCallOpts /\ NoMishap) \/ Mishap(TRUE)

PendingNonceAt == mined + Len(pending)
ReadAccountNonce == nonce' = PendingNonceAt /\ NoMishap
\* A provider takes a transaction whose nonce is still the next one; the
\* answer may be lost.
Takes(kind) ==
  /\ nonce = PendingNonceAt /\ (kind = "register" \/ nonce < MaxTxs)
  /\ pending' = Append(pending, kind)
\* Or it refuses it, and what exceeds the bound.
Transact(kind) ==
  /\ NoMishap
  /\ \/ Takes(kind)
     \/ (nonce # PendingNonceAt \/ nonce >= MaxTxs) /\ UNCHANGED pending

-------------------------------------------------------------------------------
(* registerRelayerHub: every error is a panic, and the process is restarted *)

Restarted == hub' = "ask" /\ claimer' = "query"
Hub(from, to) ==
  /\ hub = from /\ hub' = to
  /\ UNCHANGED <<registered, vault, mined, wasted, claimer>>

AskRelayer ==
  \E opts \in Views :
    /\ hub = "ask" /\ Answered(opts)
    /\ Hub("ask", IF IsRelayer(opts) THEN "done" ELSE "nonce")
    /\ UNCHANGED <<pending, nonce>>
RegisterNonce == Hub("nonce", "send") /\ ReadAccountNonce /\ UNCHANGED pending
\* Without an error the register transaction is in the pool; 100 BNB go along.
RegisterRelayer ==
  /\ Takes("register") /\ NoMishap /\ Hub("send", "check") /\ UNCHANGED nonce
\* After 20 seconds it must show; if not, the process panics.
CheckRelayer ==
  \E opts \in Views :
    /\ hub = "check" /\ Answered(opts)
    /\ Hub("check", IF IsRelayer(opts) THEN "done" ELSE "ask")
    /\ UNCHANGED <<pending, nonce>>
\* A panic, a crash or a restart at any point, also when the transaction got
\* through and only the answer was lost.
Restart ==
  /\ Mishap(FALSE) /\ Restarted
  /\ \/ UNCHANGED pending
     \/ hub = "send" /\ Takes("register")
     \/ hub = "done" /\ claimer = "send" /\ Takes("claim")
  /\ UNCHANGED <<registered, vault, mined, wasted, nonce>>

-------------------------------------------------------------------------------
(* autoClaimRewardDaemon *)

Claimer(from, to) ==
  /\ hub = "done" /\ claimer = from /\ claimer' = to
  /\ UNCHANGED <<registered, vault, mined, wasted, hub>>

WorthClaiming_More(reward) == reward > minimumReward
WorthClaiming(reward) == reward >= minimumReward
\* An error of the query is a round without a claim.
QueryReward ==
  \E opts \in Views :
    /\ hub = "done" /\ Answered(opts)
    /\ \E to \in {"query", "nonce"} :
         /\ to = "nonce" => WorthClaiming(RelayerRewardVault(opts))
         /\ to = "query" => ~WorthClaiming(RelayerRewardVault(opts))
         /\ Claimer("query", to)
    /\ UNCHANGED <<pending, nonce>>
ClaimNonce == Claimer("nonce", "send") /\ ReadAccountNonce /\ UNCHANGED pending
\* Sent, refused, or sent with the answer lost: the next round asks again.
ClaimReward ==
  /\ Claimer("send", "query") /\ UNCHANGED nonce
  /\ Transact("claim") \/ (Takes("claim") /\ Mishap(FALSE))

-------------------------------------------------------------------------------
(* External: the rest of the process, and BSC *)

\* The other goroutines send transactions of the same account.
OthersSend ==
  /\ hub = "done" /\ PendingNonceAt < MaxTxs
  /\ pending' = Append(pending, "other")
  /\ UNCHANGED <<registered, vault, mined, wasted, hub, claimer, nonce, mishapVars>>
\* A claim pays what the vault holds.  What pays nothing, or registers the
\* account again, is wasted.
Execute ==
  /\ pending # <<>>
  /\ pending' = Tail(pending) /\ mined' = mined + 1
  /\ LET kind == Head(pending) IN
       /\ registered' = (registered \/ kind = "register")
       /\ vault' = IF kind = "claim" THEN 0 ELSE vault
       /\ wasted' = IF \/ kind = "register" /\ registered
                       \/ kind = "claim" /\ vault < minimumReward
                    THEN wasted + 1 ELSE wasted
  /\ UNCHANGED <<hub, claimer, nonce, mishapVars>>
Reward ==
  /\ vault < MaxVault /\ vault' = vault + 1
  /\ UNCHANGED <<registered, mined, pending, wasted, hub, claimer, nonce, mishapVars>>

RegisterStep == AskRelayer \/ RegisterNonce \/ RegisterRelayer \/ CheckRelayer
ClaimerStep == QueryReward \/ ClaimNonce \/ ClaimReward
AccountNext ==
  \/ AskRelayer \/ RegisterNonce \/ RegisterRelayer \/ CheckRelayer \/ Restart
  \/ QueryReward \/ ClaimNonce \/ ClaimReward
  \/ OthersSend \/ Execute \/ Reward

AccountSpec == AccountInit /\ [][AccountNext]_accountVars
\* Registration goes on; the claims are the loop of a goroutine, whose query
\* is asked again until it is answered; BSC mines what is pending.
AccountFairness ==
  WF_accountVars(RegisterStep) /\ WF_accountVars(ClaimerStep) /\ WF_accountVars(Execute)

-------------------------------------------------------------------------------

\* Every variable has its type.
AccountTypeOK ==
  /\ registered \in BOOLEAN /\ staleView \in BOOLEAN
  /\ vault \in 0..MaxVault
  /\ mined \in Nat /\ mishaps \in 0..AccountFaults
  /\ pending \in Seq({"register", "claim", "other"})
  /\ nonce \in 0..PendingNonceAt /\ wasted \in 0..mined
  /\ hub \in {"ask", "nonce", "send", "check", "done"}
  /\ claimer \in {"query", "nonce", "send"}

\* The account pays for nothing in vain: however often the process dies, an
\* answer is lost or a transaction waits, no deposit is sent for an account
\* that is registered or about to be, and no claim is executed that pays less
\* than the minimum, as long as the provider shows the pending transactions.
NothingWasted == ~staleView => wasted = 0

\* A reward worth claiming is claimed in the end, although the process may die
\* at any point, the other goroutines take the nonce a claim was to have, an
\* answer is lost, or the reward grows between the question and the claim.
\* Only the bound on transactions is excepted.
RewardClaimed ==
  vault >= minimumReward ~> vault < minimumReward \/ PendingNonceAt >= MaxTxs
===============================================================================
