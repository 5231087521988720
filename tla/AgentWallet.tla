---------------------------- MODULE AgentWallet ----------------------------
(***************************************************************************)
(* contracts/agent-wallet.tact: the on-chain wallet that holds a user's    *)
(* TON and lets an agent key spend it within limits.                       *)
(*                                                                         *)
(* Every receive() handler is one action.  An action has a parameter for   *)
(* the sender and one for the TON attached to the message (v); a message   *)
(* whose require() fails is rolled back by the TVM (value bounced, state   *)
(* untouched), so a rejected message is a stuttering step.                 *)
(*                                                                         *)
(* The TVM itself is external.  Of it the model keeps: the attached value  *)
(* is credited before the handler runs, gas is paid out of that value, a   *)
(* send with SendIgnoreErrors that the balance cannot cover is silently    *)
(* skipped, SendPayGasSeparately takes the forwarding fee from the         *)
(* balance, and SendRemainingValue adds what is left of the attached value *)
(* to the amount sent.  The Deploy message of the Deployable trait returns *)
(* what is left of its value and changes nothing: a stuttering step too.   *)
(***************************************************************************)
EXTENDS Integers, Sequences, Sums

CONSTANTS
    Address,      \* accounts that send messages or receive transfers
    Owner,        \* the owner given to init(); no handler changes it
    Agents,       \* accounts the owner may make the agent
    Safes,        \* accounts the owner may make the safe address
    Venues,       \* DEXes: what the agent pays and the whitelist lists
    Payees,       \* destinations of the owner's withdrawals
    Reserve,      \* MIN_TON_RESERVE
    Day,          \* 86400, in clock units
    MaxFee,       \* bound on the gas of one message and on one forwarding fee
    Amounts,      \* amounts that requests ask for
    Values,       \* TON that can be attached to a message
    LimitChoices, \* limits the constructor or UpdateLimits may be given
    MaxClock,     \* bound: last instant explored
    MaxOutbox,    \* bound: number of outgoing transfers explored
    MaxBalance,   \* bound: largest balance, attached value included
    MaxNonce,     \* bound: number of queued withdrawals explored
    MaxTimeLock   \* the longest time lock in LimitChoices

Limits == [maxTrade : Nat, daily : Nat, timeLock : Nat]

ASSUME AddressAssumption == /\ Owner \in Address
                            /\ Agents \subseteq Address /\ Safes \subseteq Address
                            /\ Venues \subseteq Address /\ Payees \subseteq Address
ASSUME FundsAssumption  == /\ Reserve \in Nat
                           /\ MaxFee \in Nat
                           /\ Amounts \subseteq Nat
                           /\ Values \subseteq Nat
ASSUME LimitsAssumption == /\ LimitChoices \subseteq Limits
                           /\ MaxTimeLock \in Nat
                           /\ \A l \in LimitChoices : l.timeLock <= MaxTimeLock
ASSUME TimeAssumption   == Day \in Nat \ {0}
ASSUME BoundsAssumption == MaxClock \in Nat /\ MaxOutbox \in Nat
                           /\ MaxBalance \in Nat /\ MaxNonce \in Nat

VARIABLES
    agent, safeAddress,                  \* roles the owner may reassign
    limits,                              \* maxTradeSizeNano, dailyLimitNano, timeLockSeconds
    dailySpent, dayStart,                \* the agent's spending window
    allowedDexes, whitelistActive,       \* DEX whitelist
    pendingWithdrawals, withdrawalNonce, \* time-locked withdrawals
    isPaused,
    balance,                             \* the account balance (external)
    clock,                               \* now() (external)
    outbox                               \* history: every send() the handlers issued

roleVars   == <<agent, safeAddress>>
windowVars == <<dailySpent, dayStart>>
dexVars    == <<allowedDexes, whitelistActive>>
queueVars  == <<pendingWithdrawals, withdrawalNonce>>
vars == <<roleVars, limits, windowVars, dexVars, queueVars, isPaused, balance, clock, outbox>>

Withdrawal == [to : Address, amount : Nat, unlocksAt : Nat]

\* One outgoing transfer.  nonce is the queued withdrawal it settles, 0 for
\* the other kinds; paid is FALSE when SendIgnoreErrors skipped it.
Transfer == [kind : {"agent", "withdraw", "claim", "drain"}, to : Address,
             amount : Nat, nonce : Nat, at : Nat, paid : BOOLEAN]

Init ==
    /\ agent \in Agents
    /\ safeAddress \in Safes
    /\ limits \in LimitChoices
    /\ dailySpent = 0
    /\ dayStart = 0
    /\ allowedDexes = {}
    /\ whitelistActive = FALSE
    /\ pendingWithdrawals = << >>
    /\ withdrawalNonce = 0
    /\ isPaused = FALSE
    /\ balance \in Values
    /\ clock = 0
    /\ outbox = << >>

-----------------------------------------------------------------------------
(* The TVM, as the handlers see it.                                        *)

\* myBalance() while a message with value v is handled.
MyBalance(v) == balance + v

Gas(v) == {g \in 0..MaxFee : g <= v}

\* A handler that sends nothing keeps what is left of the attached value.
KeepValue(v) ==
    /\ \E gas \in Gas(v) : balance' = balance + v - gas
    /\ outbox' = outbox

\* send() with SendIgnoreErrors | SendPayGasSeparately.
SendExact(kind, to, amount, nonce, v) ==
    \E gas \in Gas(v), fwd \in 0..MaxFee :
        LET left == balance + v - gas
            paid == left >= amount + fwd
        IN  /\ balance' = IF paid THEN left - (amount + fwd) ELSE left
            /\ outbox' = Append(outbox, [kind |-> kind, to |-> to, amount |-> amount,
                                         nonce |-> nonce, at |-> clock, paid |-> paid])

\* send() with SendRemainingValue | SendIgnoreErrors: the attached value, less
\* its gas, is added to the amount and the forwarding fee is taken from it.
SendWithRemaining(kind, to, amount, v) ==
    \E gas \in Gas(v), fwd \in 0..MaxFee :
        LET left  == balance + v - gas
            total == amount + v - gas
            paid  == total <= left /\ fwd <= total
        IN  /\ balance' = IF paid THEN left - total ELSE left
            /\ outbox' = Append(outbox, [kind |-> kind, to |-> to, amount |-> amount,
                                         nonce |-> 0, at |-> clock, paid |-> paid])

-----------------------------------------------------------------------------
(* Faulty variants of the definitions below: bugs this code could have had. *)
(* Each is swapped in for the definition it is named after, to show that a *)
(* property notices.                                                       *)

NotPaused_Ignored            == TRUE
Covers_NoReserve(v, amount)  == amount <= MyBalance(v)
FreshStart_NotMoved          == dayStart
WhitelistAfter_Last(allowed) == allowed
Settle_KeepsRecord(nonce)    == UNCHANGED pendingWithdrawals

-----------------------------------------------------------------------------
(* The handlers.                                                           *)

NotPaused == ~isPaused

\* The balance check of a trade or a withdrawal.
Covers(v, amount) == MyBalance(v) - amount >= Reserve

\* receive(Deposit), receive() and a bounced transfer coming back: anybody.
Deposit(v) ==
    /\ v > 0
    /\ KeepValue(v)
    /\ UNCHANGED <<roleVars, limits, windowVars, dexVars, queueVars, isPaused, clock>>

MustWait(amount) == limits.timeLock > 0 /\ amount > limits.maxTrade

NextNonce == withdrawalNonce + 1

QueueWithdrawal(to, amount) ==
    /\ NextNonce <= MaxNonce
    /\ withdrawalNonce' = NextNonce
    /\ pendingWithdrawals' =
         [n \in DOMAIN pendingWithdrawals \cup {NextNonce} |->
            IF n = NextNonce
            THEN [to |-> to, amount |-> amount, unlocksAt |-> clock + limits.timeLock]
            ELSE pendingWithdrawals[n]]

WithdrawRequest(from, v, to, amount) ==
    /\ from = Owner
    /\ NotPaused
    /\ amount > 0
    /\ Covers(v, amount)
    /\ \/ /\ MustWait(amount)
          /\ QueueWithdrawal(to, amount)
          /\ KeepValue(v)
       \/ /\ ~MustWait(amount)
          /\ SendExact("withdraw", to, amount, 0, v)
          /\ UNCHANGED queueVars
    /\ UNCHANGED <<roleVars, limits, windowVars, dexVars, isPaused, clock>>

\* pendingWithdrawals.del(nonce), before the transfer is sent.
Settle(nonce) ==
    pendingWithdrawals' = [n \in DOMAIN pendingWithdrawals \ {nonce} |-> pendingWithdrawals[n]]

ClaimWithdrawal(from, v, nonce) ==
    /\ from = Owner
    /\ NotPaused
    /\ nonce \in DOMAIN pendingWithdrawals
    /\ clock >= pendingWithdrawals[nonce].unlocksAt
    /\ Settle(nonce)
    /\ SendExact("claim", pendingWithdrawals[nonce].to, pendingWithdrawals[nonce].amount, nonce, v)
    /\ UNCHANGED <<roleVars, limits, windowVars, dexVars, withdrawalNonce, isPaused, clock>>

\* refreshDailyWindow(): the window a spend at this instant falls in.
WindowExpired == clock >= dayStart + Day
FreshSpent    == IF WindowExpired THEN 0 ELSE dailySpent
FreshStart    == IF WindowExpired THEN clock ELSE dayStart

\* The checks of an agent trade.
TradeAllowed(from, v, to, amount) ==
    /\ from = agent
    /\ NotPaused
    /\ amount > 0
    /\ amount <= limits.maxTrade
    /\ FreshSpent + amount <= limits.daily
    /\ whitelistActive => to \in allowedDexes
    /\ Covers(v, amount)

AgentExecute(from, v, to, amount) ==
    /\ TradeAllowed(from, v, to, amount)
    /\ dailySpent' = FreshSpent + amount
    /\ dayStart' = FreshStart
    /\ SendExact("agent", to, amount, 0, v)
    /\ UNCHANGED <<roleVars, limits, dexVars, queueVars, isPaused, clock>>

UpdateLimits(from, v, new) ==
    /\ from = Owner
    /\ new.maxTrade > 0
    /\ new.daily >= new.maxTrade
    /\ limits' = new
    /\ KeepValue(v)
    /\ UNCHANGED <<roleVars, windowVars, dexVars, queueVars, isPaused, clock>>

\* Listing activates the whitelist, nothing deactivates it.
WhitelistAfter(allowed) == whitelistActive \/ allowed

SetAllowedDex(from, v, dex, allowed) ==
    /\ from = Owner
    /\ allowedDexes' = IF allowed THEN allowedDexes \cup {dex} ELSE allowedDexes \ {dex}
    /\ whitelistActive' = WhitelistAfter(allowed)
    /\ KeepValue(v)
    /\ UNCHANGED <<roleVars, limits, windowVars, queueVars, isPaused, clock>>

SetAgent(from, v, new) ==
    /\ from = Owner
    /\ agent' = new
    /\ KeepValue(v)
    /\ UNCHANGED <<safeAddress, limits, windowVars, dexVars, queueVars, isPaused, clock>>

SetPaused(from, v, paused) ==
    /\ from = Owner
    /\ isPaused' = paused
    /\ KeepValue(v)
    /\ UNCHANGED <<roleVars, limits, windowVars, dexVars, queueVars, clock>>

SetSafeAddress(from, v, new) ==
    /\ from = Owner
    /\ safeAddress' = new
    /\ KeepValue(v)
    /\ UNCHANGED <<agent, limits, windowVars, dexVars, queueVars, isPaused, clock>>

EmergencyDrain(from, v) ==
    /\ from = Owner
    /\ isPaused' = TRUE
    /\ IF MyBalance(v) - Reserve > 0
       THEN SendWithRemaining("drain", safeAddress, MyBalance(v) - Reserve, v)
       ELSE KeepValue(v)
    /\ UNCHANGED <<roleVars, limits, windowVars, dexVars, queueVars, clock>>

\* Time passes and storage rent is collected from the balance.
Tick ==
    /\ clock < MaxClock
    /\ clock' = clock + 1
    /\ \E rent \in Gas(balance) : balance' = balance - rent
    /\ UNCHANGED <<roleVars, limits, windowVars, dexVars, queueVars, isPaused, outbox>>

\* Messages, and the handler each of them reaches.
OwnerMessage(from, v) ==
    \/ \E to \in Payees, amount \in Amounts : WithdrawRequest(from, v, to, amount)
    \/ \E nonce \in DOMAIN pendingWithdrawals : ClaimWithdrawal(from, v, nonce)
    \/ \E new \in LimitChoices : UpdateLimits(from, v, new)
    \/ \E dex \in Venues, allowed \in BOOLEAN : SetAllowedDex(from, v, dex, allowed)
    \/ \E new \in Agents : SetAgent(from, v, new)
    \/ \E paused \in BOOLEAN : SetPaused(from, v, paused)
    \/ \E new \in Safes : SetSafeAddress(from, v, new)
    \/ EmergencyDrain(from, v)

Message(from, v) ==
    \/ Deposit(v)
    \/ OwnerMessage(from, v)
    \/ \E to \in Venues, amount \in Amounts : AgentExecute(from, v, to, amount)

Next ==
    \/ Tick
    \/ /\ Len(outbox) < MaxOutbox
       /\ \E from \in Address, v \in Values :
             /\ MyBalance(v) <= MaxBalance
             /\ Message(from, v)

Spec == Init /\ [][Next]_vars
-----------------------------------------------------------------------------
(* Properties.                                                             *)

\* Every variable has its type, and the queue holds only numbers that
\* withdrawalNonce has already handed out.
TypeOK ==
    /\ agent \in Address /\ safeAddress \in Address
    /\ limits \in LimitChoices
    /\ dailySpent \in Nat /\ dayStart \in Nat
    /\ allowedDexes \subseteq Address /\ whitelistActive \in BOOLEAN
    /\ withdrawalNonce \in Nat
    /\ DOMAIN pendingWithdrawals \subseteq 1..withdrawalNonce
    /\ pendingWithdrawals \in [DOMAIN pendingWithdrawals -> Withdrawal]
    /\ isPaused \in BOOLEAN
    /\ balance \in Nat /\ clock \in Nat
    /\ outbox \in Seq(Transfer)

\* The transfers issued for claims, as the abstract queue sees them.
Claims == {i \in DOMAIN outbox : outbox[i].kind = "claim"}

\* The wallet as the abstract queue sees it.
Orders == {[to |-> to, amount |-> amount, unlocksAt |-> at] :
             to \in Payees, amount \in Amounts, at \in 0..MaxClock + MaxTimeLock}

\* A nonce is waiting or claimed, never both, it is claimed once, and what
\* waits is something the owner asked for, due within the longest time lock.
QueueInv ==
    /\ clock <= MaxClock
    /\ withdrawalNonce <= MaxNonce
    /\ \A n \in DOMAIN pendingWithdrawals : pendingWithdrawals[n] \in Orders
    /\ \A i \in Claims : outbox[i].nonce \in 1..withdrawalNonce \ DOMAIN pendingWithdrawals
    /\ \A i, j \in Claims : outbox[i].nonce = outbox[j].nonce => i = j

QueuedOrders   == {<<n, pendingWithdrawals[n]>> : n \in DOMAIN pendingWithdrawals}
IssuedPayments == {<<outbox[i].nonce, outbox[i].to, outbox[i].amount, outbox[i].at>> : i \in Claims}

TimeLock == INSTANCE TimeLockQueue WITH
    Id <- 1..MaxNonce, Order <- Orders, queued <- QueuedOrders, issued <- IssuedPayments

\* SELF_ASSESSMENT AW-I-07 and AW-I-08: whatever happens to limits, roles and
\* the pause switch in between, a queued withdrawal is issued unchanged, at
\* most once, and not before its unlock time; no nonce is used twice.
TimeLockedQueue == TimeLock!Spec

\* While the wallet is paused the only money that leaves it goes to the safe
\* address the owner has set, whoever sends what (SetPaused, EmergencyDrain).
PauseStopsOutflow ==
    [][isPaused /\ Len(outbox') > Len(outbox) =>
         /\ outbox'[Len(outbox')].kind = "drain"
         /\ outbox'[Len(outbox')].to = safeAddress]_vars

\* What the agent and the owner's immediate withdrawals can spend never cuts
\* into MIN_TON_RESERVE by more than two fees, whatever value is attached:
\* only a claim, a drain or storage rent takes the balance below that floor.
Floor == Reserve - 2 * MaxFee

ReserveFloor ==
    [][/\ balance >= Floor
       /\ clock' = clock
       /\ \A i \in DOMAIN outbox' : i > Len(outbox) => outbox'[i].kind \in {"agent", "withdraw"}
       => balance' >= Floor]_vars

\* A trade or an immediate withdrawal that passed its balance check is really
\* paid: with fees that the reserve covers, SendIgnoreErrors hides no failure
\* there, so dailySpent never counts money that did not leave.
AcceptedTransfersArePaid ==
    2 * MaxFee <= Reserve =>
        \A i \in DOMAIN outbox : outbox[i].kind \in {"agent", "withdraw"} => outbox[i].paid

\* What the agent was charged at instants in [from, to).
AgentSpend(from, to) ==
    Total([i \in DOMAIN outbox |->
             IF outbox[i].kind = "agent" /\ outbox[i].at >= from /\ outbox[i].at < to
             THEN outbox[i].amount ELSE 0])

\* SELF_ASSESSMENT T-01: what a leaked agent key can extract.  The window is
\* reset, not rolled, so any 24 hours can see two windows' worth of spending,
\* and never more than two daily limits, whichever the owner sets meanwhile.
TwoWindowsBound ==
    \A t \in 0..clock : \E k, l \in LimitChoices : AgentSpend(t, t + Day) <= k.daily + l.daily

\* Once the owner has listed a DEX the agent can pay listed addresses only,
\* and delisting the last one does not reopen the wallet (SetAllowedDex).
WhitelistStaysClosed ==
    [][whitelistActive =>
         /\ whitelistActive'
         /\ \A i \in DOMAIN outbox' : i > Len(outbox) /\ outbox'[i].kind = "agent"
                                        => outbox'[i].to \in allowedDexes]_vars
=============================================================================
