------------------------- MODULE AgentWalletProofs -------------------------
(***************************************************************************)
(* Proofs about AgentWallet, for every set of accounts, amounts, limits,   *)
(* fees and bounds that the module's assumptions allow.                    *)
(***************************************************************************)
EXTENDS AgentWallet, TLAPS

USE DEF Limits, Withdrawal, Transfer

-----------------------------------------------------------------------------
(* What the two ways of sending do to the balance and to the history.      *)

\* A handler that sends nothing leaves the history alone and never lowers the
\* balance: gas comes out of the attached value.
LEMMA KeepValueFacts ==
    ASSUME balance \in Nat, NEW v \in Values, KeepValue(v)
    PROVE  balance' \in Nat /\ balance' >= balance /\ outbox' = outbox
  BY FundsAssumption DEF KeepValue, Gas

\* An exact send appends one well-formed record to the history, and after it
\* the balance is still a natural number.
LEMMA SendExactFacts ==
    ASSUME balance \in Nat, clock \in Nat, outbox \in Seq(Transfer),
           NEW v \in Values, NEW to \in Address, NEW amount \in Nat, NEW nonce \in Nat,
           NEW kind \in {"agent", "withdraw", "claim", "drain"},
           SendExact(kind, to, amount, nonce, v)
    PROVE  /\ balance' \in Nat
           /\ \E paid \in BOOLEAN :
                outbox' = Append(outbox, [kind |-> kind, to |-> to, amount |-> amount,
                                          nonce |-> nonce, at |-> clock, paid |-> paid])
           /\ outbox' \in Seq(Transfer)
  <1>1. PICK gas \in Gas(v), fwd \in 0..MaxFee :
          LET left == balance + v - gas
              paid == left >= amount + fwd
          IN  /\ balance' = IF paid THEN left - (amount + fwd) ELSE left
              /\ outbox' = Append(outbox, [kind |-> kind, to |-> to, amount |-> amount,
                                           nonce |-> nonce, at |-> clock, paid |-> paid])
    BY DEF SendExact
  <1>2. gas \in Nat /\ fwd \in Nat /\ v \in Nat /\ gas <= v
    BY FundsAssumption DEF Gas
  <1>3. balance' \in Nat
    BY <1>1, <1>2
  <1>4. (balance + v - gas >= amount + fwd) \in BOOLEAN
    OBVIOUS
  <1>5. \E paid \in BOOLEAN :
          outbox' = Append(outbox, [kind |-> kind, to |-> to, amount |-> amount,
                                    nonce |-> nonce, at |-> clock, paid |-> paid])
    BY <1>1, <1>4
  <1>6. outbox' \in Seq(Transfer)
    BY <1>5
  <1> QED
    BY <1>3, <1>5, <1>6

\* The case of a transfer that settles no queued withdrawal.
LEMMA SendPlainFacts ==
    ASSUME balance \in Nat, clock \in Nat, outbox \in Seq(Transfer),
           NEW v \in Values, NEW to \in Address, NEW amount \in Nat,
           NEW kind \in {"agent", "withdraw", "claim", "drain"},
           SendExact(kind, to, amount, 0, v)
    PROVE  \E paid \in BOOLEAN :
             outbox' = Append(outbox, [kind |-> kind, to |-> to, amount |-> amount,
                                       nonce |-> 0, at |-> clock, paid |-> paid])
  <1>1. PICK gas \in Gas(v), fwd \in 0..MaxFee :
          LET left == balance + v - gas
              paid == left >= amount + fwd
          IN  outbox' = Append(outbox, [kind |-> kind, to |-> to, amount |-> amount,
                                        nonce |-> 0, at |-> clock, paid |-> paid])
    BY DEF SendExact
  <1>2. (balance + v - gas >= amount + fwd) \in BOOLEAN
    OBVIOUS
  <1> QED
    BY <1>1, <1>2

\* The same for a send that carries the attached value along.
LEMMA SendWithRemainingFacts ==
    ASSUME balance \in Nat, clock \in Nat, outbox \in Seq(Transfer),
           NEW v \in Values, NEW to \in Address, NEW amount \in Nat,
           NEW kind \in {"agent", "withdraw", "claim", "drain"},
           SendWithRemaining(kind, to, amount, v)
    PROVE  /\ balance' \in Nat
           /\ \E paid \in BOOLEAN :
                outbox' = Append(outbox, [kind |-> kind, to |-> to, amount |-> amount,
                                          nonce |-> 0, at |-> clock, paid |-> paid])
           /\ outbox' \in Seq(Transfer)
  <1>1. PICK gas \in Gas(v), fwd \in 0..MaxFee :
          LET left  == balance + v - gas
              total == amount + v - gas
              paid  == total <= left /\ fwd <= total
          IN  /\ balance' = IF paid THEN left - total ELSE left
              /\ outbox' = Append(outbox, [kind |-> kind, to |-> to, amount |-> amount,
                                           nonce |-> 0, at |-> clock, paid |-> paid])
    BY DEF SendWithRemaining
  <1>2. gas \in Nat /\ fwd \in Nat /\ v \in Nat /\ gas <= v
    BY FundsAssumption DEF Gas
  <1>3. balance' \in Nat
    BY <1>1, <1>2
  <1>4. (amount + v - gas <= balance + v - gas /\ fwd <= amount + v - gas) \in BOOLEAN
    OBVIOUS
  <1>5. \E paid \in BOOLEAN :
          outbox' = Append(outbox, [kind |-> kind, to |-> to, amount |-> amount,
                                    nonce |-> 0, at |-> clock, paid |-> paid])
    BY <1>1, <1>4
  <1>6. outbox' \in Seq(Transfer)
    BY <1>5
  <1> QED
    BY <1>3, <1>5, <1>6

\* Queueing gives the new order the next number and leaves the others alone.
LEMMA QueueWithdrawalFacts ==
    ASSUME TypeOK, NEW to \in Address, NEW amount \in Nat, QueueWithdrawal(to, amount)
    PROVE  /\ withdrawalNonce' = withdrawalNonce + 1
           /\ withdrawalNonce' <= MaxNonce
           /\ DOMAIN pendingWithdrawals' = DOMAIN pendingWithdrawals \cup {withdrawalNonce + 1}
           /\ pendingWithdrawals'[withdrawalNonce + 1]
                = [to |-> to, amount |-> amount, unlocksAt |-> clock + limits.timeLock]
           /\ \A n \in DOMAIN pendingWithdrawals :
                n # withdrawalNonce + 1 /\ pendingWithdrawals'[n] = pendingWithdrawals[n]
           /\ pendingWithdrawals' \in [DOMAIN pendingWithdrawals' -> Withdrawal]
  BY LimitsAssumption DEF TypeOK, QueueWithdrawal, NextNonce

-----------------------------------------------------------------------------
(* Type correctness.                                                       *)

\* Init gives every variable its type.
LEMMA InitTypeOK == Init => TypeOK
  <1> SUFFICES ASSUME Init PROVE TypeOK
    OBVIOUS
  <1>1. /\ DOMAIN pendingWithdrawals = {}
        /\ pendingWithdrawals \in [DOMAIN pendingWithdrawals -> Withdrawal]
    BY DEF Init
  <1>2. outbox \in Seq(Transfer)
    BY DEF Init
  <1> QED
    BY <1>1, <1>2, AddressAssumption, FundsAssumption, LimitsAssumption DEF Init, TypeOK

\* An accepted WithdrawRequest, paid at once or queued, keeps the types.
LEMMA WithdrawTypeOK ==
    ASSUME TypeOK, NEW from \in Address, NEW v \in Values, NEW to \in Payees,
           NEW amount \in Amounts, WithdrawRequest(from, v, to, amount)
    PROVE  TypeOK'
  <1>1. amount \in Nat /\ to \in Address
    BY FundsAssumption, AddressAssumption
  <1>2. CASE MustWait(amount)
    <2>1. QueueWithdrawal(to, amount) /\ KeepValue(v)
      BY <1>2 DEF WithdrawRequest
    <2>2. balance' \in Nat /\ outbox' = outbox
      BY <2>1, KeepValueFacts DEF TypeOK
    <2>3. /\ withdrawalNonce' \in Nat
          /\ DOMAIN pendingWithdrawals' \subseteq 1..withdrawalNonce'
          /\ pendingWithdrawals' \in [DOMAIN pendingWithdrawals' -> Withdrawal]
      <3>1. /\ withdrawalNonce' = withdrawalNonce + 1
            /\ DOMAIN pendingWithdrawals' = DOMAIN pendingWithdrawals \cup {withdrawalNonce + 1}
            /\ pendingWithdrawals' \in [DOMAIN pendingWithdrawals' -> Withdrawal]
        BY <1>1, <2>1, QueueWithdrawalFacts
      <3> QED
        BY <3>1 DEF TypeOK
    <2> QED
      BY <2>2, <2>3 DEF TypeOK, WithdrawRequest, roleVars, windowVars, dexVars
  <1>3. CASE ~MustWait(amount)
    <2>1. SendExact("withdraw", to, amount, 0, v) /\ UNCHANGED queueVars
      BY <1>3 DEF WithdrawRequest
    <2>2. balance' \in Nat /\ outbox' \in Seq(Transfer)
      BY <1>1, <2>1, SendExactFacts DEF TypeOK
    <2> QED
      BY <2>1, <2>2 DEF TypeOK, WithdrawRequest, roleVars, windowVars, dexVars, queueVars
  <1> QED
    BY <1>2, <1>3

\* An accepted ClaimWithdrawal keeps the types.
LEMMA ClaimTypeOK ==
    ASSUME TypeOK, NEW from \in Address, NEW v \in Values,
           NEW nonce \in DOMAIN pendingWithdrawals, ClaimWithdrawal(from, v, nonce)
    PROVE  TypeOK'
  <1>1. /\ nonce \in Nat
        /\ pendingWithdrawals[nonce].to \in Address
        /\ pendingWithdrawals[nonce].amount \in Nat
    BY DEF TypeOK
  <1>2. balance' \in Nat /\ outbox' \in Seq(Transfer)
    BY <1>1, SendExactFacts DEF TypeOK, ClaimWithdrawal
  <1>3. /\ DOMAIN pendingWithdrawals' = DOMAIN pendingWithdrawals \ {nonce}
        /\ pendingWithdrawals' \in [DOMAIN pendingWithdrawals' -> Withdrawal]
    BY DEF TypeOK, ClaimWithdrawal, Settle
  <1> QED
    BY <1>2, <1>3 DEF TypeOK, ClaimWithdrawal, roleVars, windowVars, dexVars

\* An accepted AgentExecute keeps the types.
LEMMA AgentTypeOK ==
    ASSUME TypeOK, NEW from \in Address, NEW v \in Values, NEW to \in Venues,
           NEW amount \in Amounts, AgentExecute(from, v, to, amount)
    PROVE  TypeOK'
  <1>1. amount \in Nat /\ to \in Address
    BY FundsAssumption, AddressAssumption
  <1>2. balance' \in Nat /\ outbox' \in Seq(Transfer)
    BY <1>1, SendExactFacts DEF TypeOK, AgentExecute, TradeAllowed
  <1>3. dailySpent' \in Nat /\ dayStart' \in Nat
    BY <1>1 DEF TypeOK, AgentExecute, TradeAllowed, FreshSpent, FreshStart
  <1> QED
    BY <1>2, <1>3 DEF TypeOK, AgentExecute, TradeAllowed, roleVars, dexVars, queueVars

\* An accepted EmergencyDrain keeps the types.
LEMMA DrainTypeOK ==
    ASSUME TypeOK, NEW from \in Address, NEW v \in Values, EmergencyDrain(from, v)
    PROVE  TypeOK'
  <1>1. MyBalance(v) \in Nat
    BY FundsAssumption DEF TypeOK, MyBalance
  <1>2. balance' \in Nat /\ outbox' \in Seq(Transfer)
    <2>1. CASE MyBalance(v) - Reserve > 0
      <3>1. MyBalance(v) - Reserve \in Nat
        BY <1>1, <2>1, FundsAssumption
      <3>2. SendWithRemaining("drain", safeAddress, MyBalance(v) - Reserve, v)
        BY <2>1 DEF EmergencyDrain
      <3> QED
        BY <3>1, <3>2, SendWithRemainingFacts DEF TypeOK
    <2>2. CASE ~(MyBalance(v) - Reserve > 0)
      BY <2>2, KeepValueFacts DEF TypeOK, EmergencyDrain
    <2> QED
      BY <2>1, <2>2
  <1> QED
    BY <1>2 DEF TypeOK, EmergencyDrain, roleVars, windowVars, dexVars, queueVars

\* Every step keeps the types.
LEMMA NextTypeOK == TypeOK /\ [Next]_vars => TypeOK'
  <1> SUFFICES ASSUME TypeOK, [Next]_vars
               PROVE  TypeOK'
    OBVIOUS
  <1>1. CASE Tick
    <2>1. balance' \in Nat /\ clock' \in Nat
      BY <1>1, FundsAssumption DEF TypeOK, Tick, Gas
    <2> QED
      BY <1>1, <2>1 DEF TypeOK, Tick, roleVars, windowVars, dexVars, queueVars
  <1>2. ASSUME NEW from \in Address, NEW v \in Values, Message(from, v)
        PROVE  TypeOK'
    <2> USE DEF roleVars, windowVars, dexVars, queueVars
    <2>1. CASE Deposit(v)
      BY <2>1, KeepValueFacts DEF TypeOK, Deposit
    <2>2. ASSUME NEW to \in Payees, NEW amount \in Amounts, WithdrawRequest(from, v, to, amount)
          PROVE  TypeOK'
      BY <2>2, WithdrawTypeOK
    <2>3. ASSUME NEW nonce \in DOMAIN pendingWithdrawals, ClaimWithdrawal(from, v, nonce)
          PROVE  TypeOK'
      BY <2>3, ClaimTypeOK
    <2>4. ASSUME NEW new \in LimitChoices, UpdateLimits(from, v, new)
          PROVE  TypeOK'
      BY <2>4, KeepValueFacts, LimitsAssumption DEF TypeOK, UpdateLimits
    <2>5. ASSUME NEW dex \in Venues, NEW allowed \in BOOLEAN, SetAllowedDex(from, v, dex, allowed)
          PROVE  TypeOK'
      <3>1. balance' \in Nat /\ outbox' = outbox
        BY <2>5, KeepValueFacts DEF TypeOK, SetAllowedDex
      <3>2. allowedDexes' \subseteq Address
        BY <2>5, AddressAssumption DEF TypeOK, SetAllowedDex
      <3>3. whitelistActive' \in BOOLEAN
        BY <2>5 DEF TypeOK, SetAllowedDex, WhitelistAfter
      <3> QED
        BY <2>5, <3>1, <3>2, <3>3 DEF TypeOK, SetAllowedDex
    <2>6. ASSUME NEW new \in Agents, SetAgent(from, v, new)
          PROVE  TypeOK'
      BY <2>6, KeepValueFacts, AddressAssumption DEF TypeOK, SetAgent
    <2>7. ASSUME NEW paused \in BOOLEAN, SetPaused(from, v, paused)
          PROVE  TypeOK'
      BY <2>7, KeepValueFacts DEF TypeOK, SetPaused
    <2>8. ASSUME NEW new \in Safes, SetSafeAddress(from, v, new)
          PROVE  TypeOK'
      BY <2>8, KeepValueFacts, AddressAssumption DEF TypeOK, SetSafeAddress
    <2>9. CASE EmergencyDrain(from, v)
      BY <2>9, DrainTypeOK
    <2>10. ASSUME NEW to \in Venues, NEW amount \in Amounts, AgentExecute(from, v, to, amount)
           PROVE  TypeOK'
      BY <2>10, AgentTypeOK
    <2> QED
      BY <1>2, <2>1, <2>2, <2>3, <2>4, <2>5, <2>6, <2>7, <2>8, <2>9, <2>10
         DEF Message, OwnerMessage
  <1>3. CASE UNCHANGED vars
    BY <1>3 DEF TypeOK, vars, roleVars, windowVars, dexVars, queueVars
  <1> QED
    BY <1>1, <1>2, <1>3 DEF Next

\* Every variable keeps its type, and the queue never holds a number that
\* was not handed out.
THEOREM TypeCorrect == Spec => []TypeOK
  <1> QED
    BY InitTypeOK, NextTypeOK, PTL DEF Spec

-----------------------------------------------------------------------------
(* What a step may send.  One lemma looks at every handler; the safety     *)
(* theorems below only read its conclusion.                                *)

\* An exact send whose amount passed the balance check leaves the floor, and
\* is paid when two fees fit in the reserve.
LEMMA CoveredSend ==
    ASSUME TypeOK, NEW v \in Values, NEW to \in Address, NEW amount \in Nat, NEW nonce \in Nat,
           NEW kind \in {"agent", "withdraw"}, Covers(v, amount),
           SendExact(kind, to, amount, nonce, v)
    PROVE  \E paid \in BOOLEAN :
             /\ outbox' = Append(outbox, [kind |-> kind, to |-> to, amount |-> amount,
                                          nonce |-> nonce, at |-> clock, paid |-> paid])
             /\ 2 * MaxFee <= Reserve => paid
             /\ balance' >= Floor
  <1>1. PICK gas \in Gas(v), fwd \in 0..MaxFee :
          LET left == balance + v - gas
              paid == left >= amount + fwd
          IN  /\ balance' = IF paid THEN left - (amount + fwd) ELSE left
              /\ outbox' = Append(outbox, [kind |-> kind, to |-> to, amount |-> amount,
                                           nonce |-> nonce, at |-> clock, paid |-> paid])
    BY DEF SendExact
  <1>2. /\ gas \in 0..MaxFee /\ fwd \in 0..MaxFee /\ MaxFee \in Nat /\ Reserve \in Nat
        /\ v \in Nat /\ balance \in Nat
        /\ balance + v - amount >= Reserve
    BY FundsAssumption DEF Gas, TypeOK, Covers, MyBalance
  <1>3. 2 * MaxFee <= Reserve => balance + v - gas >= amount + fwd
    BY <1>2
  <1>4. balance' >= Reserve - 2 * MaxFee
    BY <1>1, <1>2
  <1>5. (balance + v - gas >= amount + fwd) \in BOOLEAN
    OBVIOUS
  <1> QED
    BY <1>1, <1>3, <1>4, <1>5 DEF Floor

\* The record a step appended, and what the state was when it did.
Issued(e) ==
    /\ e \in Transfer
    /\ outbox' = Append(outbox, e)
    /\ e.at = clock
    /\ \/ /\ e.kind = "agent" /\ ~isPaused
          /\ whitelistActive => e.to \in allowedDexes
          /\ 2 * MaxFee <= Reserve => e.paid
          /\ balance' >= Floor
       \/ /\ e.kind = "withdraw" /\ ~isPaused
          /\ 2 * MaxFee <= Reserve => e.paid
          /\ balance' >= Floor
       \/ e.kind = "claim" /\ ~isPaused
       \/ e.kind = "drain" /\ e.to = safeAddress

\* A step without a transfer lowers the balance only by storage rent.
Quiet == outbox' = outbox /\ (clock' = clock => balance' >= balance)

\* What one step appends to the outbox: nothing, or one transfer of the
\* handler that ran, issued under that handler's guards.
LEMMA StepIssues ==
    ASSUME TypeOK, [Next]_vars
    PROVE  (Quiet \/ \E e \in Transfer : Issued(e)) /\ (whitelistActive => whitelistActive')
  <1>1. CASE Tick
    BY <1>1 DEF Quiet, TypeOK, Tick, dexVars
  <1>2. ASSUME NEW from \in Address, NEW v \in Values, Message(from, v)
        PROVE  (Quiet \/ \E e \in Transfer : Issued(e)) /\ (whitelistActive => whitelistActive')
    <2> USE DEF roleVars, windowVars, dexVars, queueVars
    <2>0. KeepValue(v) => Quiet
      BY KeepValueFacts DEF TypeOK, Quiet
    <2>1. CASE Deposit(v)
      BY <2>0, <2>1 DEF Deposit
    <2>2. ASSUME NEW to \in Payees, NEW amount \in Amounts, WithdrawRequest(from, v, to, amount)
          PROVE  (Quiet \/ \E e \in Transfer : Issued(e)) /\ UNCHANGED whitelistActive
      <3>1. CASE MustWait(amount)
        BY <2>0, <2>2, <3>1 DEF WithdrawRequest
      <3>2. CASE ~MustWait(amount)
        <4>1. /\ SendExact("withdraw", to, amount, 0, v) /\ Covers(v, amount) /\ ~isPaused
              /\ to \in Address /\ amount \in Nat
          BY <2>2, <3>2, AddressAssumption, FundsAssumption DEF WithdrawRequest, NotPaused
        <4>2. PICK paid \in BOOLEAN :
                /\ outbox' = Append(outbox, [kind |-> "withdraw", to |-> to, amount |-> amount,
                                             nonce |-> 0, at |-> clock, paid |-> paid])
                /\ 2 * MaxFee <= Reserve => paid
                /\ balance' >= Floor
          BY <4>1, CoveredSend
        <4>3. Issued([kind |-> "withdraw", to |-> to, amount |-> amount,
                      nonce |-> 0, at |-> clock, paid |-> paid])
          BY <4>1, <4>2 DEF Issued, TypeOK
        <4> QED
          BY <2>2, <4>3 DEF WithdrawRequest, Issued
      <3> QED
        BY <3>1, <3>2
    <2>3. ASSUME NEW nonce \in DOMAIN pendingWithdrawals, ClaimWithdrawal(from, v, nonce)
          PROVE  (\E e \in Transfer : Issued(e)) /\ UNCHANGED whitelistActive
      <3> DEFINE pw == pendingWithdrawals[nonce]
      <3>1. nonce \in Nat /\ pw.to \in Address /\ pw.amount \in Nat /\ ~isPaused
        BY <2>3 DEF TypeOK, ClaimWithdrawal, NotPaused
      <3>4. SendExact("claim", pw.to, pw.amount, nonce, v)
        BY <2>3 DEF ClaimWithdrawal
      <3>5. balance \in Nat /\ clock \in Nat /\ outbox \in Seq(Transfer)
        BY DEF TypeOK
      <3> HIDE DEF pw
      <3>2. PICK paid \in BOOLEAN :
              outbox' = Append(outbox, [kind |-> "claim", to |-> pw.to, amount |-> pw.amount,
                                        nonce |-> nonce, at |-> clock, paid |-> paid])
        BY <3>1, <3>4, <3>5, SendExactFacts
      <3>3. Issued([kind |-> "claim", to |-> pw.to, amount |-> pw.amount,
                    nonce |-> nonce, at |-> clock, paid |-> paid])
        BY <3>1, <3>2 DEF Issued, TypeOK
      <3> QED
        BY <2>3, <3>3 DEF ClaimWithdrawal, Issued
    <2>4. ASSUME NEW new \in LimitChoices, UpdateLimits(from, v, new)
          PROVE  Quiet /\ UNCHANGED whitelistActive
      BY <2>0, <2>4 DEF UpdateLimits
    <2>5. ASSUME NEW dex \in Venues, NEW allowed \in BOOLEAN, SetAllowedDex(from, v, dex, allowed)
          PROVE  Quiet /\ (whitelistActive => whitelistActive')
      BY <2>0, <2>5 DEF SetAllowedDex, WhitelistAfter
    <2>6. ASSUME NEW new \in Agents, SetAgent(from, v, new)
          PROVE  Quiet /\ UNCHANGED whitelistActive
      BY <2>0, <2>6 DEF SetAgent
    <2>7. ASSUME NEW paused \in BOOLEAN, SetPaused(from, v, paused)
          PROVE  Quiet /\ UNCHANGED whitelistActive
      BY <2>0, <2>7 DEF SetPaused
    <2>8. ASSUME NEW new \in Safes, SetSafeAddress(from, v, new)
          PROVE  Quiet /\ UNCHANGED whitelistActive
      BY <2>0, <2>8 DEF SetSafeAddress
    <2>9. ASSUME EmergencyDrain(from, v)
          PROVE  (Quiet \/ \E e \in Transfer : Issued(e)) /\ UNCHANGED whitelistActive
      <3>1. CASE MyBalance(v) - Reserve > 0
        <4>1. /\ MyBalance(v) - Reserve \in Nat
              /\ SendWithRemaining("drain", safeAddress, MyBalance(v) - Reserve, v)
          BY <2>9, <3>1, FundsAssumption DEF TypeOK, MyBalance, EmergencyDrain
        <4>2. PICK paid \in BOOLEAN :
                outbox' = Append(outbox, [kind |-> "drain", to |-> safeAddress,
                                          amount |-> MyBalance(v) - Reserve,
                                          nonce |-> 0, at |-> clock, paid |-> paid])
          BY <4>1, SendWithRemainingFacts DEF TypeOK
        <4>3. Issued([kind |-> "drain", to |-> safeAddress, amount |-> MyBalance(v) - Reserve,
                      nonce |-> 0, at |-> clock, paid |-> paid])
          BY <4>1, <4>2 DEF Issued, TypeOK
        <4> QED
          BY <2>9, <4>3 DEF EmergencyDrain, Issued
      <3>2. CASE ~(MyBalance(v) - Reserve > 0)
        BY <2>0, <2>9, <3>2 DEF EmergencyDrain
      <3> QED
        BY <3>1, <3>2
    <2>10. ASSUME NEW to \in Venues, NEW amount \in Amounts, AgentExecute(from, v, to, amount)
           PROVE  (\E e \in Transfer : Issued(e)) /\ UNCHANGED whitelistActive
      <3>1. /\ SendExact("agent", to, amount, 0, v) /\ Covers(v, amount) /\ ~isPaused
            /\ whitelistActive => to \in allowedDexes
            /\ to \in Address /\ amount \in Nat
        BY <2>10, AddressAssumption, FundsAssumption DEF AgentExecute, TradeAllowed, NotPaused
      <3>2. PICK paid \in BOOLEAN :
              /\ outbox' = Append(outbox, [kind |-> "agent", to |-> to, amount |-> amount,
                                           nonce |-> 0, at |-> clock, paid |-> paid])
              /\ 2 * MaxFee <= Reserve => paid
              /\ balance' >= Floor
        BY <3>1, CoveredSend
      <3>3. Issued([kind |-> "agent", to |-> to, amount |-> amount,
                    nonce |-> 0, at |-> clock, paid |-> paid])
        BY <3>1, <3>2 DEF Issued, TypeOK
      <3> QED
        BY <2>10, <3>3 DEF AgentExecute, TradeAllowed, Issued
    <2> QED
      BY <1>2, <2>1, <2>2, <2>3, <2>4, <2>5, <2>6, <2>7, <2>8, <2>9, <2>10
         DEF Message, OwnerMessage, Deposit
  <1>3. CASE UNCHANGED vars
    BY <1>3 DEF TypeOK, Quiet, vars, dexVars
  <1> QED
    BY <1>1, <1>2, <1>3 DEF Next

\* Appending keeps the old records and puts the new one last.
LEMMA AppendFacts ==
    ASSUME outbox \in Seq(Transfer), NEW e \in Transfer, outbox' = Append(outbox, e)
    PROVE  /\ Len(outbox') = Len(outbox) + 1
           /\ DOMAIN outbox' = DOMAIN outbox \cup {Len(outbox) + 1}
           /\ DOMAIN outbox = 1..Len(outbox)
           /\ outbox'[Len(outbox) + 1] = e
           /\ \A i \in DOMAIN outbox : outbox'[i] = outbox[i] /\ i <= Len(outbox)
  <1>1. Len(outbox) \in Nat /\ DOMAIN outbox = 1..Len(outbox)
    OBVIOUS
  <1>2. Len(outbox') = Len(outbox) + 1 /\ DOMAIN outbox' = 1..Len(outbox) + 1
    OBVIOUS
  <1>3. outbox'[Len(outbox) + 1] = e
    OBVIOUS
  <1>4. \A i \in 1..Len(outbox) : outbox'[i] = outbox[i] /\ i <= Len(outbox)
    OBVIOUS
  <1>5. DOMAIN outbox' = DOMAIN outbox \cup {Len(outbox) + 1}
    BY <1>1, <1>2
  <1> QED
    BY <1>1, <1>2, <1>3, <1>4, <1>5

-----------------------------------------------------------------------------
(* The safety theorems.                                                    *)

\* A paused wallet pays nobody but the safe address, whoever sends what.
THEOREM PauseStopsOutflowHolds == Spec => PauseStopsOutflow
  <1>1. TypeOK /\ [Next]_vars =>
          [isPaused /\ Len(outbox') > Len(outbox) =>
             /\ outbox'[Len(outbox')].kind = "drain"
             /\ outbox'[Len(outbox')].to = safeAddress]_vars
    <2> SUFFICES ASSUME TypeOK, [Next]_vars, isPaused, Len(outbox') > Len(outbox)
                 PROVE  /\ outbox'[Len(outbox')].kind = "drain"
                        /\ outbox'[Len(outbox')].to = safeAddress
      OBVIOUS
    <2>1. PICK e \in Transfer : Issued(e)
      BY StepIssues DEF Quiet, TypeOK
    <2>2. outbox'[Len(outbox')] = e
      BY <2>1, AppendFacts DEF Issued, TypeOK
    <2> QED
      BY <2>1, <2>2 DEF Issued
  <1> QED
    BY <1>1, TypeCorrect, PTL DEF Spec, PauseStopsOutflow

\* The agent and the owner's immediate withdrawals cannot spend the reserve:
\* they leave at least the reserve less two fees.
THEOREM ReserveFloorHolds == Spec => ReserveFloor
  <1>1. TypeOK /\ [Next]_vars =>
          [/\ balance >= Floor
           /\ clock' = clock
           /\ \A i \in DOMAIN outbox' : i > Len(outbox) => outbox'[i].kind \in {"agent", "withdraw"}
           => balance' >= Floor]_vars
    <2> SUFFICES ASSUME TypeOK, [Next]_vars, balance >= Floor, clock' = clock,
                        \A i \in DOMAIN outbox' :
                          i > Len(outbox) => outbox'[i].kind \in {"agent", "withdraw"}
                 PROVE  balance' >= Floor
      OBVIOUS
    <2>1. CASE \E e \in Transfer : Issued(e)
      <3>1. PICK e \in Transfer : Issued(e)
        BY <2>1
      <3>2. e.kind \in {"agent", "withdraw"}
        BY <3>1, AppendFacts DEF Issued, TypeOK
      <3> QED
        BY <3>1, <3>2 DEF Issued
    <2>2. CASE Quiet
      <3>1. balance' >= balance
        BY <2>2 DEF Quiet
      <3>2. balance \in Nat /\ Floor \in Int
        BY FundsAssumption DEF TypeOK, Floor
      <3>3. balance' \in Nat
        BY NextTypeOK DEF TypeOK
      <3> QED
        BY <3>1, <3>2, <3>3
    <2> QED
      BY <2>1, <2>2, StepIssues
  <1> QED
    BY <1>1, TypeCorrect, PTL DEF Spec, ReserveFloor

\* A trade or an immediate withdrawal that was accepted is paid.
THEOREM AcceptedTransfersArePaidHolds == Spec => []AcceptedTransfersArePaid
  <1>1. Init => AcceptedTransfersArePaid
    BY DEF Init, AcceptedTransfersArePaid
  <1>2. TypeOK /\ AcceptedTransfersArePaid /\ [Next]_vars => AcceptedTransfersArePaid'
    <2> SUFFICES ASSUME TypeOK, AcceptedTransfersArePaid, [Next]_vars, 2 * MaxFee <= Reserve,
                        NEW i \in DOMAIN outbox', outbox'[i].kind \in {"agent", "withdraw"}
                 PROVE  outbox'[i].paid
      BY DEF AcceptedTransfersArePaid
    <2>1. CASE \E e \in Transfer : Issued(e)
      <3>1. PICK e \in Transfer : Issued(e)
        BY <2>1
      <3>2. \/ i \in DOMAIN outbox /\ outbox'[i] = outbox[i]
            \/ outbox'[i] = e
        BY <3>1, AppendFacts DEF Issued, TypeOK
      <3> QED
        BY <3>1, <3>2 DEF Issued, AcceptedTransfersArePaid
    <2>2. CASE Quiet
      BY <2>2 DEF Quiet, AcceptedTransfersArePaid
    <2> QED
      BY <2>1, <2>2, StepIssues
  <1> QED
    BY <1>1, <1>2, TypeCorrect, PTL DEF Spec

\* Once active the whitelist stays active, and the agent pays listed DEXes
\* only, also after the last one was delisted.
THEOREM WhitelistStaysClosedHolds == Spec => WhitelistStaysClosed
  <1>1. TypeOK /\ [Next]_vars =>
          [whitelistActive =>
             /\ whitelistActive'
             /\ \A i \in DOMAIN outbox' : i > Len(outbox) /\ outbox'[i].kind = "agent"
                                            => outbox'[i].to \in allowedDexes]_vars
    <2> SUFFICES ASSUME TypeOK, [Next]_vars, whitelistActive
                 PROVE  /\ whitelistActive'
                        /\ \A i \in DOMAIN outbox' : i > Len(outbox) /\ outbox'[i].kind = "agent"
                                                       => outbox'[i].to \in allowedDexes
      OBVIOUS
    <2>1. CASE \E e \in Transfer : Issued(e)
      <3>1. PICK e \in Transfer : Issued(e)
        BY <2>1
      <3>2. \A i \in DOMAIN outbox' : i > Len(outbox) => outbox'[i] = e
        BY <3>1, AppendFacts DEF Issued, TypeOK
      <3>3. e.kind = "agent" => e.to \in allowedDexes
        BY <3>1 DEF Issued
      <3> QED
        BY <3>2, <3>3, StepIssues
    <2>2. CASE Quiet
      <3>1. \A i \in DOMAIN outbox' : ~(i > Len(outbox))
        BY <2>2 DEF Quiet, TypeOK
      <3> QED
        BY <3>1, StepIssues
    <2> QED
      BY <2>1, <2>2, StepIssues
  <1> QED
    BY <1>1, TypeCorrect, PTL DEF Spec, WhitelistStaysClosed

-----------------------------------------------------------------------------
(* Totals of a sequence that only grows at its end.                        *)

\* f is the running sums of s, as the recursive definition has them, and
\* there is one such function.
SumsOf(f, s) == f = [i \in 0..Len(s) |-> IF i = 0 THEN 0 ELSE f[i - 1] + s[i]]
Summed(s)    == \E f : \A g : SumsOf(g, s) <=> g = f

\* The same, number by number.
LEMMA SumsAt ==
    ASSUME NEW s \in Seq(Int), NEW f, SumsOf(f, s)
    PROVE  /\ f[0] = 0
           /\ \A i \in 1..Len(s) : f[i] = f[i - 1] + s[i]
  <1> DEFINE At(i) == IF i = 0 THEN 0 ELSE f[i - 1] + s[i]
  <1>1. f = [i \in 0..Len(s) |-> At(i)]
    BY DEF SumsOf
  <1>2. Len(s) \in Nat
    OBVIOUS
  <1>3. \A i \in 0..Len(s) : f[i] = At(i)
    <2> HIDE DEF At
    <2> QED
      BY <1>1
  <1> QED
    BY <1>2, <1>3

\* The running sums of s are the ones its total is taken from.
LEMMA PartialOfSummed ==
    ASSUME NEW s \in Seq(Int), Summed(s)
    PROVE  \A g : SumsOf(g, s) <=> g = Partial(s)
  <1>1. PICK f : \A g : SumsOf(g, s) <=> g = f
    BY DEF Summed
  <1>2. SumsOf(Partial(s), s)
    <2>1. SumsOf(f, s)
      BY <1>1
    <2> QED
      BY <2>1 DEF SumsOf, Partial
  <1> QED
    BY <1>1, <1>2

\* Nothing adds up to 0.
LEMMA NothingSummed ==
    ASSUME NEW s \in Seq(Int), Len(s) = 0
    PROVE  Summed(s) /\ Total(s) = 0
  <1> DEFINE f == [i \in 0..0 |-> 0]
  <1>1. \A g : SumsOf(g, s) => g = f
    BY DEF SumsOf
  <1>2. SumsOf(f, s)
    BY DEF SumsOf
  <1>3. f[0] = 0
    OBVIOUS
  <1> HIDE DEF f
  <1>4. Summed(s)
    BY <1>1, <1>2 DEF Summed
  <1>5. Partial(s) = f
    BY <1>2, <1>4, PartialOfSummed
  <1> QED
    BY <1>3, <1>4, <1>5 DEF Total

\* One more number: the sums so far stay as they are.
LEMMA OneMoreSummed ==
    ASSUME NEW s \in Seq(Int), NEW t \in Seq(Int), NEW x \in Int, Summed(s),
           Len(t) = Len(s) + 1, t[Len(t)] = x, \A i \in 1..Len(s) : t[i] = s[i]
    PROVE  Summed(t) /\ Total(t) = Total(s) + x
  <1> DEFINE f == Partial(s)
             n == Len(s)
             h == [i \in 0..n + 1 |-> IF i = n + 1 THEN f[n] + x ELSE f[i]]
  <1>1. n \in Nat /\ Len(t) = n + 1
    OBVIOUS
  <1>0. SumsOf(f, s)
    BY PartialOfSummed
  <1>2. f = [i \in 0..n |-> IF i = 0 THEN 0 ELSE f[i - 1] + s[i]]
    BY <1>0 DEF SumsOf
  <1> HIDE DEF f
  <1>3. SumsOf(h, t)
    <2> DEFINE k == [i \in 0..Len(t) |-> IF i = 0 THEN 0 ELSE h[i - 1] + t[i]]
    <2>1. ASSUME NEW i \in 0..n + 1
          PROVE  h[i] = k[i]
      <3>1. CASE i = 0
        <4>1. h[0] = f[0] /\ f[0] = 0
          BY <1>1, <1>2
        <4> QED
          BY <1>1, <3>1, <4>1
      <3>2. CASE i \in 1..n
        <4>1. i - 1 \in 0..n /\ h[i - 1] = f[i - 1] /\ h[i] = f[i]
          BY <1>1, <3>2
        <4>2. f[i] = f[i - 1] + s[i]
          BY <1>0, <3>2, SumsAt
        <4> QED
          BY <1>1, <3>2, <4>1, <4>2
      <3>3. CASE i = n + 1
        <4>1. h[i] = f[n] + x /\ h[i - 1] = f[n]
          BY <1>1, <3>3
        <4> QED
          BY <1>1, <3>3, <4>1
      <3> QED
        BY <1>1, <3>1, <3>2, <3>3
    <2>2. DOMAIN h = 0..n + 1 /\ DOMAIN k = 0..n + 1
      BY <1>1
    <2>3. h = [i \in 0..n + 1 |-> h[i]] /\ k = [i \in 0..n + 1 |-> k[i]]
      BY <1>1
    <2>4. h = k
      <3> HIDE DEF h, k
      <3> QED
        BY <2>1, <2>3
    <2> QED
      BY <2>4 DEF SumsOf
  <1>4. ASSUME NEW g, SumsOf(g, t)
        PROVE  g = h
    <2>1. g = [i \in 0..n + 1 |-> IF i = 0 THEN 0 ELSE g[i - 1] + t[i]]
      BY <1>1, <1>4 DEF SumsOf
    <2>0. \A i \in 1..n + 1 : g[i] = g[i - 1] + t[i]
      <3>1. \A i \in 1..Len(t) : g[i] = g[i - 1] + t[i]
        BY <1>4, SumsAt
      <3> QED
        BY <1>1, <3>1
    <2> DEFINE k == [i \in 0..n |-> g[i]]
    <2>2. k = [i \in 0..n |-> IF i = 0 THEN 0 ELSE k[i - 1] + s[i]]
      <3>1. ASSUME NEW i \in 0..n
            PROVE  k[i] = IF i = 0 THEN 0 ELSE k[i - 1] + s[i]
        <4>1. CASE i = 0
          BY <1>1, <2>1, <4>1
        <4>2. CASE i \in 1..n
          <5>1. i - 1 \in 0..n /\ k[i - 1] = g[i - 1] /\ k[i] = g[i] /\ t[i] = s[i]
            BY <1>1, <4>2
          <5>2. g[i] = g[i - 1] + t[i]
            BY <1>1, <2>0, <4>2
          <5> QED
            BY <4>2, <5>1, <5>2
        <4> QED
          BY <1>1, <4>1, <4>2
      <3>2. k = [i \in 0..n |-> k[i]]
        OBVIOUS
      <3> HIDE DEF k
      <3> QED
        BY <3>1, <3>2
    <2>3. k = f
      <3> HIDE DEF k
      <3> QED
        BY <2>2, PartialOfSummed DEF SumsOf, f
    <2>4. \A i \in 0..n : g[i] = f[i]
      BY <2>3
    <2>5. g[n + 1] = g[n] + x
      BY <1>1, <2>1
    <2>6. \A i \in 0..n + 1 : g[i] = h[i]
      BY <1>1, <2>4, <2>5
    <2>7. g = [i \in 0..n + 1 |-> g[i]] /\ h = [i \in 0..n + 1 |-> h[i]]
      BY <2>1
    <2> HIDE DEF h
    <2> QED
      BY <2>6, <2>7
  <1>5. h[n + 1] = f[n] + x
    BY <1>1
  <1> HIDE DEF h
  <1>6. Summed(t)
    BY <1>3, <1>4 DEF Summed
  <1>7. Partial(t) = h
    BY <1>3, <1>6, PartialOfSummed
  <1> QED
    BY <1>1, <1>5, <1>6, <1>7 DEF Total, f

-----------------------------------------------------------------------------
(* The spending window.                                                    *)

\* A trade is charged to the window of its instant, within the daily limit.
Charged(e) ==
    /\ outbox' = Append(outbox, e)
    /\ e.kind = "agent" /\ e.at = clock
    /\ FreshSpent + e.amount <= limits.daily
    /\ dailySpent' = FreshSpent + e.amount
    /\ dayStart' = FreshStart
    /\ clock' = clock /\ limits' = limits

\* Every other step leaves the window alone.
NotCharged ==
    /\ UNCHANGED <<dailySpent, dayStart>>
    /\ clock' >= clock
    /\ \/ outbox' = outbox
       \/ \E e \in Transfer : outbox' = Append(outbox, e) /\ e.kind # "agent"

\* Only AgentExecute charges the window.
LEMMA WindowStep ==
    ASSUME TypeOK, [Next]_vars
    PROVE  NotCharged \/ \E e \in Transfer : Charged(e)
  <1>0. clock \in Nat /\ balance \in Nat /\ outbox \in Seq(Transfer)
    BY DEF TypeOK
  <1>1. CASE Tick
    BY <1>0, <1>1 DEF NotCharged, Tick, windowVars
  <1>2. ASSUME NEW from \in Address, NEW v \in Values, Message(from, v)
        PROVE  NotCharged \/ \E e \in Transfer : Charged(e)
    <2>0. KeepValue(v) => outbox' = outbox
      BY DEF KeepValue
    <2>1. ASSUME UNCHANGED <<dailySpent, dayStart, clock>>, KeepValue(v)
          PROVE  NotCharged
      BY <1>0, <2>0, <2>1 DEF NotCharged
    <2>2. ASSUME NEW to \in Address, NEW amount \in Nat, NEW nonce \in Nat,
                 NEW kind \in {"withdraw", "claim"},
                 UNCHANGED <<dailySpent, dayStart, clock>>, SendExact(kind, to, amount, nonce, v)
          PROVE  NotCharged
      <3>1. PICK paid \in BOOLEAN :
              outbox' = Append(outbox, [kind |-> kind, to |-> to, amount |-> amount,
                                        nonce |-> nonce, at |-> clock, paid |-> paid])
        <4>1. kind \in {"agent", "withdraw", "claim", "drain"} /\ balance \in Nat
          BY <1>0
        <4>2. SendExact(kind, to, amount, nonce, v)
          BY <2>2
        <4>3. /\ balance' \in Nat
              /\ \E paid \in BOOLEAN :
                   outbox' = Append(outbox, [kind |-> kind, to |-> to, amount |-> amount,
                                             nonce |-> nonce, at |-> clock, paid |-> paid])
              /\ outbox' \in Seq(Transfer)
          <5> HIDE DEF Transfer
          <5> QED
            BY <1>0, <4>1, <4>2, SendExactFacts
        <4> QED
          BY <4>3
      <3> DEFINE e == [kind |-> kind, to |-> to, amount |-> amount,
                       nonce |-> nonce, at |-> clock, paid |-> paid]
      <3>2. e \in Transfer /\ e.kind # "agent"
        BY <1>0
      <3>3. outbox' = Append(outbox, e)
        BY <3>1
      <3> HIDE DEF e
      <3> QED
        BY <1>0, <2>2, <3>2, <3>3 DEF NotCharged
    <2>3. ASSUME NEW to \in Payees, NEW amount \in Amounts, WithdrawRequest(from, v, to, amount)
          PROVE  NotCharged
      <3>1. /\ UNCHANGED <<dailySpent, dayStart, clock>> /\ to \in Address /\ amount \in Nat
            /\ KeepValue(v) \/ SendExact("withdraw", to, amount, 0, v)
        BY <2>3, AddressAssumption, FundsAssumption DEF WithdrawRequest, windowVars
      <3> QED
        BY <2>1, <2>2, <3>1
    <2>4. ASSUME NEW nonce \in DOMAIN pendingWithdrawals, ClaimWithdrawal(from, v, nonce)
          PROVE  NotCharged
      <3> DEFINE pw == pendingWithdrawals[nonce]
      <3>1. nonce \in Nat /\ pw.to \in Address /\ pw.amount \in Nat
        BY DEF TypeOK
      <3>2. /\ UNCHANGED <<dailySpent, dayStart, clock>>
            /\ SendExact("claim", pw.to, pw.amount, nonce, v)
        BY <2>4 DEF ClaimWithdrawal, windowVars
      <3> HIDE DEF pw
      <3> QED
        BY <2>2, <3>1, <3>2
    <2>5. ASSUME EmergencyDrain(from, v)
          PROVE  NotCharged
      <3>1. UNCHANGED <<dailySpent, dayStart, clock>>
        BY <2>5 DEF EmergencyDrain, windowVars
      <3>2. CASE MyBalance(v) - Reserve > 0
        <4>1. /\ MyBalance(v) - Reserve \in Nat /\ safeAddress \in Address
              /\ SendWithRemaining("drain", safeAddress, MyBalance(v) - Reserve, v)
          BY <2>5, <3>2, FundsAssumption DEF TypeOK, MyBalance, EmergencyDrain
        <4>2. PICK paid \in BOOLEAN :
                outbox' = Append(outbox, [kind |-> "drain", to |-> safeAddress,
                                          amount |-> MyBalance(v) - Reserve,
                                          nonce |-> 0, at |-> clock, paid |-> paid])
          BY <1>0, <4>1, SendWithRemainingFacts
        <4> QED
          BY <1>0, <3>1, <4>1, <4>2 DEF NotCharged
      <3>3. CASE ~(MyBalance(v) - Reserve > 0)
        BY <2>1, <2>5, <3>1, <3>3 DEF EmergencyDrain
      <3> QED
        BY <3>2, <3>3
    <2>6. ASSUME NEW to \in Venues, NEW amount \in Amounts, AgentExecute(from, v, to, amount)
          PROVE  \E e \in Transfer : Charged(e)
      <3>1. /\ SendExact("agent", to, amount, 0, v)
            /\ FreshSpent + amount <= limits.daily
            /\ dailySpent' = FreshSpent + amount
            /\ dayStart' = FreshStart
            /\ clock' = clock /\ limits' = limits
            /\ to \in Address /\ amount \in Nat
        BY <2>6, AddressAssumption, FundsAssumption DEF AgentExecute, TradeAllowed
      <3>2. PICK paid \in BOOLEAN :
              outbox' = Append(outbox, [kind |-> "agent", to |-> to, amount |-> amount,
                                        nonce |-> 0, at |-> clock, paid |-> paid])
        BY <1>0, <3>1, SendPlainFacts
      <3> DEFINE e == [kind |-> "agent", to |-> to, amount |-> amount,
                       nonce |-> 0, at |-> clock, paid |-> paid]
      <3>3. e \in Transfer /\ e.kind = "agent" /\ e.at = clock /\ e.amount = amount
        BY <1>0, <3>1
      <3>4. outbox' = Append(outbox, e)
        BY <3>2
      <3> HIDE DEF e
      <3>5. Charged(e)
        BY <3>1, <3>3, <3>4 DEF Charged
      <3> QED
        BY <3>3, <3>5
    <2>7. Deposit(v) => NotCharged
      BY <2>1 DEF Deposit, windowVars
    <2>8. \A new \in LimitChoices : UpdateLimits(from, v, new) => NotCharged
      BY <2>1 DEF UpdateLimits, windowVars
    <2>9. \A dex \in Venues, allowed \in BOOLEAN : SetAllowedDex(from, v, dex, allowed) => NotCharged
      BY <2>1 DEF SetAllowedDex, windowVars
    <2>10. \A new \in Agents : SetAgent(from, v, new) => NotCharged
      BY <2>1 DEF SetAgent, windowVars
    <2>11. \A paused \in BOOLEAN : SetPaused(from, v, paused) => NotCharged
      BY <2>1 DEF SetPaused, windowVars
    <2>12. \A new \in Safes : SetSafeAddress(from, v, new) => NotCharged
      BY <2>1 DEF SetSafeAddress, windowVars
    <2> QED
      BY <1>2, <2>3, <2>4, <2>5, <2>6, <2>7, <2>8, <2>9, <2>10, <2>11, <2>12
         DEF Message, OwnerMessage
  <1>3. CASE UNCHANGED vars
    BY <1>0, <1>3 DEF vars, windowVars, NotCharged
  <1> QED
    BY <1>1, <1>2, <1>3 DEF Next

\* What each transfer adds to the spending of the day that starts at t.
Charges(t) == [i \in DOMAIN outbox |->
                 IF outbox[i].kind = "agent" /\ outbox[i].at >= t /\ outbox[i].at < t + Day
                 THEN outbox[i].amount ELSE 0]

\* What one more transfer e makes of it.
Charge(e, t) == IF e.kind = "agent" /\ e.at >= t /\ e.at < t + Day THEN e.amount ELSE 0

\* A step that sends e adds its charge to every day's spending.
LEMMA ChargesAfter ==
    ASSUME TypeOK, NEW e \in Transfer, outbox' = Append(outbox, e), NEW t \in Nat,
           Summed(Charges(t))
    PROVE  /\ Charge(e, t) \in Nat
           /\ Summed(Charges(t)')
           /\ Total(Charges(t)') = Total(Charges(t)) + Charge(e, t)
  <1>1. outbox \in Seq(Transfer) /\ Day \in Nat
    BY TimeAssumption DEF TypeOK
  <1> DEFINE n == Len(outbox)
             Mine(i) == IF outbox[i].kind = "agent" /\ outbox[i].at >= t /\ outbox[i].at < t + Day
                        THEN outbox[i].amount ELSE 0
  <1>2. n \in Nat /\ DOMAIN outbox = 1..n /\ \A i \in 1..n : outbox[i] \in Transfer
    <2>1. n \in Nat /\ DOMAIN outbox = 1..n
      BY <1>1
    <2>2. \A i \in 1..Len(outbox) : outbox[i] \in Transfer
      <3> HIDE DEF Transfer
      <3> QED
        BY <1>1
    <2> QED
      BY <2>1, <2>2
  <1>3. /\ DOMAIN outbox' = 1..n + 1 /\ outbox'[n + 1] = e
        /\ \A i \in 1..n : outbox'[i] = outbox[i]
    BY <1>1
  <1>4. Charge(e, t) \in Nat
    BY DEF Charge
  <1> HIDE DEF n
  <1>5. Charges(t) = [i \in 1..n |-> Mine(i)] /\ \A i \in 1..n : Mine(i) \in Int
    BY <1>2 DEF Charges
  <1> DEFINE Then(i) == IF i = n + 1 THEN Charge(e, t) ELSE Mine(i)
  <1>6. Charges(t)' = [i \in 1..n + 1 |-> Then(i)]
    BY <1>2, <1>3 DEF Charges, Charge
  <1> HIDE DEF Mine
  <1>7. Charges(t) \in Seq(Int) /\ Len(Charges(t)) = n
    BY <1>2, <1>5
  <1>8. /\ Charges(t)' \in Seq(Int) /\ Len(Charges(t)') = n + 1
        /\ Charges(t)'[n + 1] = Charge(e, t)
        /\ \A i \in 1..n : Charges(t)'[i] = Charges(t)[i]
    BY <1>2, <1>4, <1>5, <1>6
  <1> QED
    BY <1>4, <1>7, <1>8, OneMoreSummed

\* What a day that starts at t may have spent by now.  A day before the window
\* has a whole limit for it, one that reaches into the window shares what the
\* window has spent, one that has ended has had its second limit, and none of
\* the trades so far is as late as the window's end.
Budget(t, k, l) ==
    IF t >= dayStart + Day THEN 0
    ELSE (IF t < dayStart THEN k.daily ELSE 0)
         + (IF t + Day > dayStart THEN dailySpent ELSE l.daily)

WithinBudget(t) ==
    /\ Summed(Charges(t))
    /\ Total(Charges(t)) \in Nat
    /\ \E k, l \in LimitChoices : Total(Charges(t)) <= Budget(t, k, l)

WindowInv ==
    /\ TypeOK
    /\ dayStart <= clock
    /\ \E l \in LimitChoices : dailySpent <= l.daily
    /\ \A t \in Nat : WithinBudget(t)

\* At first nothing is spent.
LEMMA InitWindowInv == Init => WindowInv
  <1> SUFFICES ASSUME Init PROVE WindowInv
    OBVIOUS
  <1>1. TypeOK /\ dayStart <= clock /\ limits \in LimitChoices /\ dailySpent <= limits.daily
    BY InitTypeOK, LimitsAssumption DEF Init, TypeOK
  <1>2. ASSUME NEW t \in Nat
        PROVE  WithinBudget(t)
    <2>1. Charges(t) \in Seq(Int) /\ Len(Charges(t)) = 0
      BY DEF Init, Charges
    <2>2. Summed(Charges(t)) /\ Total(Charges(t)) = 0
      BY <2>1, NothingSummed
    <2>3. 0 <= Budget(t, limits, limits)
      <3>1. limits.daily \in Nat /\ dailySpent = 0
        BY LimitsAssumption DEF Init
      <3> QED
        BY <3>1 DEF Budget
    <2> QED
      BY <1>1, <2>2, <2>3 DEF WithinBudget
  <1> QED
    BY <1>1, <1>2 DEF WindowInv

\* A charged trade stays within the budget of every day it falls in.
LEMMA ChargedKeepsWindowInv ==
    ASSUME WindowInv, TypeOK', NEW e \in Transfer, Charged(e)
    PROVE  WindowInv'
  <1>0. PICK s : s = dailySpent
    OBVIOUS
  <1>1. /\ clock \in Nat /\ dayStart \in Nat /\ s \in Nat /\ Day \in Nat \ {0}
        /\ e.amount \in Nat /\ dayStart <= clock /\ limits \in LimitChoices
        /\ outbox' = Append(outbox, e) /\ e.kind = "agent" /\ e.at = clock /\ clock' = clock
        /\ TypeOK
    BY <1>0, TimeAssumption DEF WindowInv, TypeOK, Charged
  <1>2. \A l \in LimitChoices : l.daily \in Nat
    BY LimitsAssumption
  <1>3. PICK m \in LimitChoices : s <= m.daily
    BY <1>0 DEF WindowInv
  <1>4. dayStart' <= clock' /\ \E l \in LimitChoices : dailySpent' <= l.daily
    BY <1>1 DEF Charged, FreshStart
  <1>5. \/ /\ clock < dayStart + Day
           /\ dailySpent' = s + e.amount /\ dayStart' = dayStart
        \/ /\ clock >= dayStart + Day
           /\ dailySpent' = e.amount /\ dayStart' = clock
    BY <1>0, <1>1 DEF Charged, FreshStart, FreshSpent, WindowExpired
  <1>6. ASSUME NEW t \in Nat
        PROVE  WithinBudget(t)'
    <2>1. WithinBudget(t)
      BY DEF WindowInv
    <2>2. /\ Charge(e, t) \in Nat
          /\ Summed(Charges(t)')
          /\ Total(Charges(t)') = Total(Charges(t)) + Charge(e, t)
      BY <1>1, <2>1, ChargesAfter DEF WithinBudget
    <2>3. PICK k \in LimitChoices, l \in LimitChoices : Total(Charges(t)) <= Budget(t, k, l)
      BY <2>1 DEF WithinBudget
    <2>4. PICK x \in Nat : x = Total(Charges(t))
      BY <2>1 DEF WithinBudget
    <2>5. x <= IF t >= dayStart + Day THEN 0
               ELSE (IF t < dayStart THEN k.daily ELSE 0) + (IF t + Day > dayStart THEN s ELSE l.daily)
      BY <1>0, <2>3, <2>4 DEF Budget
    <2>6. Charge(e, t) = IF clock >= t /\ clock < t + Day THEN e.amount ELSE 0
      BY <1>1 DEF Charge
    <2>7. k.daily \in Nat /\ l.daily \in Nat /\ m.daily \in Nat
      BY <1>2
    <2>8. \E p, q \in LimitChoices : x + Charge(e, t) <= Budget(t, p, q)'
      <3>1. CASE clock < dayStart + Day
        <4>1. dailySpent' = s + e.amount /\ dayStart' = dayStart
          BY <1>1, <1>5, <3>1
        <4>2. x + Charge(e, t) <= Budget(t, k, l)'
          BY <1>1, <2>5, <2>6, <2>7, <3>1, <4>1 DEF Budget
        <4> QED
          BY <4>2
      <3>2. CASE clock >= dayStart + Day
        <4>1. dailySpent' = e.amount /\ dayStart' = clock
          BY <1>1, <1>5, <3>2
        <4>2. CASE t < dayStart
          <5>1. x + Charge(e, t) <= Budget(t, k, l)' \/ x + Charge(e, t) <= Budget(t, k, m)'
            BY <1>1, <1>3, <2>5, <2>6, <2>7, <3>2, <4>1, <4>2 DEF Budget
          <5> QED
            BY <5>1
        <4>3. CASE t >= dayStart
          <5>1. x + Charge(e, t) <= Budget(t, m, m)'
            BY <1>1, <1>3, <2>5, <2>6, <2>7, <3>2, <4>1, <4>3 DEF Budget
          <5> QED
            BY <5>1
        <4> QED
          BY <1>1, <4>2, <4>3
      <3> QED
        BY <1>1, <3>1, <3>2
    <2>9. Total(Charges(t)') \in Nat /\ Total(Charges(t)') = x + Charge(e, t)
      BY <2>2, <2>4
    <2> QED
      BY <2>2, <2>8, <2>9 DEF WithinBudget
  <1> QED
    BY <1>4, <1>6 DEF WindowInv

\* A transfer that is no trade, or none, leaves every day's spending as it is.
LEMMA NotChargedKeepsWindowInv ==
    ASSUME WindowInv, TypeOK', NotCharged
    PROVE  WindowInv'
  <1>1. /\ dailySpent' = dailySpent /\ dayStart' = dayStart
        /\ clock' >= clock /\ dayStart <= clock /\ TypeOK
    BY DEF WindowInv, NotCharged
  <1>2. dayStart' <= clock' /\ \E l \in LimitChoices : dailySpent' <= l.daily
    BY <1>1 DEF WindowInv, TypeOK
  <1>3. ASSUME NEW t \in Nat
        PROVE  WithinBudget(t)'
    <2>1. WithinBudget(t)
      BY DEF WindowInv
    <2>2. Summed(Charges(t)') /\ Total(Charges(t)') = Total(Charges(t))
      <3>1. CASE outbox' = outbox
        <4>1. Charges(t)' = Charges(t)
          BY <3>1 DEF Charges
        <4> QED
          BY <2>1, <4>1 DEF WithinBudget
      <3>2. ASSUME NEW e \in Transfer, outbox' = Append(outbox, e), e.kind # "agent"
            PROVE  Summed(Charges(t)') /\ Total(Charges(t)') = Total(Charges(t))
        <4>1. Charge(e, t) = 0
          BY <3>2 DEF Charge
        <4>2. Summed(Charges(t)') /\ Total(Charges(t)') = Total(Charges(t)) + 0
          BY <1>1, <2>1, <3>2, <4>1, ChargesAfter DEF WithinBudget
        <4> QED
          BY <2>1, <4>2 DEF WithinBudget
      <3> QED
        BY <3>1, <3>2 DEF NotCharged
    <2>3. \A k, l : Budget(t, k, l)' = Budget(t, k, l)
      BY <1>1 DEF Budget
    <2> QED
      BY <2>1, <2>2, <2>3 DEF WithinBudget
  <1> QED
    BY <1>2, <1>3 DEF WindowInv

\* A leaked agent key can extract no more in any 24 hours than two daily
\* limits, whenever the day starts and however the owner changes the limits
\* (AgentExecute, refreshDailyWindow, UpdateLimits).
THEOREM TwoWindowsBoundHolds == Spec => []TwoWindowsBound
  <1>1. WindowInv /\ [Next]_vars => WindowInv'
    <2> SUFFICES ASSUME WindowInv, [Next]_vars
                 PROVE  WindowInv'
      OBVIOUS
    <2>1. TypeOK /\ TypeOK'
      BY NextTypeOK DEF WindowInv
    <2> QED
      BY <2>1, WindowStep, ChargedKeepsWindowInv, NotChargedKeepsWindowInv
  <1>2. WindowInv => TwoWindowsBound
    <2> SUFFICES ASSUME WindowInv, NEW t \in 0..clock
                 PROVE  \E k, l \in LimitChoices : AgentSpend(t, t + Day) <= k.daily + l.daily
      BY DEF TwoWindowsBound
    <2>1. clock \in Nat /\ dayStart \in Nat /\ dailySpent \in Nat /\ Day \in Nat
      BY TimeAssumption DEF WindowInv, TypeOK
    <2>2. WithinBudget(t)
      BY <2>1 DEF WindowInv
    <2>3. PICK k \in LimitChoices, l \in LimitChoices : Total(Charges(t)) <= Budget(t, k, l)
      BY <2>2 DEF WithinBudget
    <2>4. PICK m \in LimitChoices : dailySpent <= m.daily
      BY DEF WindowInv
    <2>5. k.daily \in Nat /\ l.daily \in Nat /\ m.daily \in Nat /\ Total(Charges(t)) \in Nat
      BY <2>2, LimitsAssumption DEF WithinBudget
    <2>6. Budget(t, k, l) <= k.daily + l.daily \/ Budget(t, k, l) <= k.daily + m.daily
      BY <2>1, <2>4, <2>5 DEF Budget
    <2>7. Budget(t, k, l) \in Nat
      BY <2>1, <2>5 DEF Budget
    <2>8. AgentSpend(t, t + Day) = Total(Charges(t))
      BY DEF AgentSpend, Charges
    <2>9. Total(Charges(t)) <= k.daily + l.daily \/ Total(Charges(t)) <= k.daily + m.daily
      BY <2>3, <2>5, <2>6, <2>7
    <2> QED
      BY <2>8, <2>9
  <1> QED
    BY <1>1, <1>2, InitWindowInv, PTL DEF Spec

-----------------------------------------------------------------------------
(* Time-locked withdrawals: what a step does to the queue and the claims.  *)

Waits ==
    /\ Tick
    /\ UNCHANGED <<queueVars, outbox>>

Queues(to, amount) ==
    /\ MustWait(amount)
    /\ QueueWithdrawal(to, amount)
    /\ UNCHANGED <<clock, outbox>>

ClaimRecord(nonce, paid) ==
    [kind |-> "claim", to |-> pendingWithdrawals[nonce].to,
     amount |-> pendingWithdrawals[nonce].amount,
     nonce |-> nonce, at |-> clock, paid |-> paid]

Settles(nonce, paid) ==
    /\ clock >= pendingWithdrawals[nonce].unlocksAt
    /\ Settle(nonce)
    /\ UNCHANGED <<clock, withdrawalNonce>>
    /\ outbox' = Append(outbox, ClaimRecord(nonce, paid))

OtherTransfer(e) ==
    /\ e.kind # "claim"
    /\ UNCHANGED <<clock, queueVars>>
    /\ outbox' = Append(outbox, e)

\* Every step of the wallet is one of five things to the queue.
LEMMA QueueStep ==
    ASSUME TypeOK, [Next]_vars
    PROVE  \/ Waits
           \/ \E to \in Payees, amount \in Amounts : Queues(to, amount)
           \/ \E nonce \in DOMAIN pendingWithdrawals, paid \in BOOLEAN : Settles(nonce, paid)
           \/ \E e \in Transfer : OtherTransfer(e)
           \/ UNCHANGED <<clock, queueVars, outbox>>
  <1> DEFINE Goal == \/ Waits
                     \/ \E to \in Payees, amount \in Amounts : Queues(to, amount)
                     \/ \E nonce \in DOMAIN pendingWithdrawals, paid \in BOOLEAN : Settles(nonce, paid)
                     \/ \E e \in Transfer : OtherTransfer(e)
                     \/ UNCHANGED <<clock, queueVars, outbox>>
  <1> SUFFICES Goal
    OBVIOUS
  <1>0. balance \in Nat /\ clock \in Nat /\ outbox \in Seq(Transfer)
    BY DEF TypeOK
  <1>1. CASE Tick
    BY <1>1 DEF Tick, Waits
  <1>2. ASSUME NEW from \in Address, NEW v \in Values, Message(from, v)
        PROVE  Goal
    <2>0. KeepValue(v) /\ UNCHANGED <<clock, queueVars>> => UNCHANGED <<clock, queueVars, outbox>>
      BY DEF KeepValue
    <2>1. CASE Deposit(v)
      BY <2>0, <2>1 DEF Deposit
    <2>2. ASSUME NEW to \in Payees, NEW amount \in Amounts, WithdrawRequest(from, v, to, amount)
          PROVE  Goal
      <3>1. CASE MustWait(amount)
        <4>1. Queues(to, amount)
          BY <2>2, <3>1 DEF WithdrawRequest, Queues, KeepValue
        <4> QED
          BY <4>1
      <3>2. CASE ~MustWait(amount)
        <4>0. UNCHANGED <<clock, queueVars>>
          BY <2>2, <3>2 DEF WithdrawRequest
        <4>1. /\ SendExact("withdraw", to, amount, 0, v)
              /\ to \in Address /\ amount \in Nat
          BY <2>2, <3>2, AddressAssumption, FundsAssumption DEF WithdrawRequest
        <4>2. PICK paid \in BOOLEAN :
                outbox' = Append(outbox, [kind |-> "withdraw", to |-> to, amount |-> amount,
                                          nonce |-> 0, at |-> clock, paid |-> paid])
          BY <1>0, <4>1, SendPlainFacts
        <4>3. [kind |-> "withdraw", to |-> to, amount |-> amount,
               nonce |-> 0, at |-> clock, paid |-> paid] \in Transfer
          BY <1>0, <4>1
        <4> QED
          BY <4>0, <4>2, <4>3 DEF OtherTransfer
      <3> QED
        BY <3>1, <3>2
    <2>3. ASSUME NEW nonce \in DOMAIN pendingWithdrawals, ClaimWithdrawal(from, v, nonce)
          PROVE  Goal
      <3> DEFINE pw == pendingWithdrawals[nonce]
      <3>1. nonce \in Nat /\ pw.to \in Address /\ pw.amount \in Nat
        BY DEF TypeOK
      <3>2. clock >= pw.unlocksAt /\ Settle(nonce) /\ UNCHANGED <<clock, withdrawalNonce>>
        BY <2>3 DEF ClaimWithdrawal
      <3>4. SendExact("claim", pw.to, pw.amount, nonce, v)
        BY <2>3 DEF ClaimWithdrawal
      <3>3. \E paid \in BOOLEAN : outbox' = Append(outbox, ClaimRecord(nonce, paid))
        <4>1. \A paid : ClaimRecord(nonce, paid) =
                          [kind |-> "claim", to |-> pw.to, amount |-> pw.amount,
                           nonce |-> nonce, at |-> clock, paid |-> paid]
          BY DEF ClaimRecord
        <4> HIDE DEF pw
        <4>2. PICK paid \in BOOLEAN :
                outbox' = Append(outbox, [kind |-> "claim", to |-> pw.to, amount |-> pw.amount,
                                          nonce |-> nonce, at |-> clock, paid |-> paid])
          BY <1>0, <3>1, <3>4, SendExactFacts
        <4> QED
          BY <4>1, <4>2
      <3> QED
        BY <3>2, <3>3 DEF Settles
    <2>4. ASSUME NEW new \in LimitChoices, UpdateLimits(from, v, new)
          PROVE  Goal
      BY <2>0, <2>4 DEF UpdateLimits
    <2>5. ASSUME NEW dex \in Venues, NEW allowed \in BOOLEAN, SetAllowedDex(from, v, dex, allowed)
          PROVE  Goal
      BY <2>0, <2>5 DEF SetAllowedDex
    <2>6. ASSUME NEW new \in Agents, SetAgent(from, v, new)
          PROVE  Goal
      BY <2>0, <2>6 DEF SetAgent
    <2>7. ASSUME NEW paused \in BOOLEAN, SetPaused(from, v, paused)
          PROVE  Goal
      BY <2>0, <2>7 DEF SetPaused
    <2>8. ASSUME NEW new \in Safes, SetSafeAddress(from, v, new)
          PROVE  Goal
      BY <2>0, <2>8 DEF SetSafeAddress
    <2>9. ASSUME EmergencyDrain(from, v)
          PROVE  Goal
      <3>0. UNCHANGED <<clock, queueVars>>
        BY <2>9 DEF EmergencyDrain
      <3>1. CASE MyBalance(v) - Reserve > 0
        <4>1. /\ MyBalance(v) - Reserve \in Nat /\ safeAddress \in Address
              /\ SendWithRemaining("drain", safeAddress, MyBalance(v) - Reserve, v)
          BY <2>9, <3>1, FundsAssumption DEF TypeOK, MyBalance, EmergencyDrain
        <4>2. PICK paid \in BOOLEAN :
                outbox' = Append(outbox, [kind |-> "drain", to |-> safeAddress,
                                          amount |-> MyBalance(v) - Reserve,
                                          nonce |-> 0, at |-> clock, paid |-> paid])
          BY <1>0, <4>1, SendWithRemainingFacts
        <4>3. [kind |-> "drain", to |-> safeAddress, amount |-> MyBalance(v) - Reserve,
               nonce |-> 0, at |-> clock, paid |-> paid] \in Transfer
          BY <1>0, <4>1
        <4> QED
          BY <3>0, <4>2, <4>3 DEF OtherTransfer
      <3>2. CASE ~(MyBalance(v) - Reserve > 0)
        BY <2>0, <2>9, <3>0, <3>2 DEF EmergencyDrain
      <3> QED
        BY <3>1, <3>2
    <2>10. ASSUME NEW to \in Venues, NEW amount \in Amounts, AgentExecute(from, v, to, amount)
           PROVE  Goal
      <3>0. UNCHANGED <<clock, queueVars>>
        BY <2>10 DEF AgentExecute, TradeAllowed
      <3>1. /\ SendExact("agent", to, amount, 0, v)
            /\ to \in Address /\ amount \in Nat
        BY <2>10, AddressAssumption, FundsAssumption DEF AgentExecute, TradeAllowed
      <3>2. PICK paid \in BOOLEAN :
              outbox' = Append(outbox, [kind |-> "agent", to |-> to, amount |-> amount,
                                        nonce |-> 0, at |-> clock, paid |-> paid])
        BY <1>0, <3>1, SendPlainFacts
      <3>3. [kind |-> "agent", to |-> to, amount |-> amount,
             nonce |-> 0, at |-> clock, paid |-> paid] \in Transfer
        BY <1>0, <3>1
      <3> QED
        BY <3>0, <3>2, <3>3 DEF OtherTransfer
    <2> HIDE DEF Goal
    <2> QED
      BY <1>2, <2>1, <2>2, <2>3, <2>4, <2>5, <2>6, <2>7, <2>8, <2>9, <2>10
         DEF Message, OwnerMessage
  <1>3. CASE UNCHANGED vars
    BY <1>3 DEF vars
  <1> QED
    BY <1>1, <1>2, <1>3 DEF Next

\* A claim adds itself to the claims; another transfer leaves them alone.
LEMMA ClaimsAfterAppend ==
    ASSUME outbox \in Seq(Transfer), NEW e \in Transfer, outbox' = Append(outbox, e)
    PROVE  /\ Claims' = IF e.kind = "claim" THEN Claims \cup {Len(outbox) + 1} ELSE Claims
           /\ Len(outbox) + 1 \notin Claims
           /\ outbox'[Len(outbox) + 1] = e
           /\ \A i \in Claims : outbox'[i] = outbox[i]
  BY AppendFacts DEF Claims

\* Init satisfies the queue invariant: nothing is queued and nothing claimed.
LEMMA InitQueueInv == Init => QueueInv
  <1> SUFFICES ASSUME Init PROVE QueueInv
    OBVIOUS
  <1>1. DOMAIN pendingWithdrawals = {} /\ Claims = {}
    BY DEF Init, Claims
  <1> QED
    BY <1>1, BoundsAssumption DEF Init, QueueInv

\* Every step keeps the queue invariant.
LEMMA NextQueueInv ==
    ASSUME TypeOK, QueueInv, [Next]_vars
    PROVE  QueueInv'
  <1>0. /\ clock \in Nat /\ outbox \in Seq(Transfer) /\ withdrawalNonce \in Nat
        /\ DOMAIN pendingWithdrawals \subseteq 1..withdrawalNonce
    BY DEF TypeOK
  <1>1. CASE Waits
    <2>1. clock' <= MaxClock
      BY <1>0, <1>1, BoundsAssumption DEF Waits, Tick
    <2> QED
      BY <1>1, <2>1 DEF Waits, QueueInv, queueVars, Claims
  <1>2. ASSUME NEW to \in Payees, NEW amount \in Amounts, Queues(to, amount)
        PROVE  QueueInv'
    <2> DEFINE order == [to |-> to, amount |-> amount, unlocksAt |-> clock + limits.timeLock]
    <2>1. order \in Orders
      <3>1. limits.timeLock \in 0..MaxTimeLock /\ clock \in 0..MaxClock
        BY <1>0, LimitsAssumption DEF TypeOK, QueueInv
      <3> QED
        BY <3>1, BoundsAssumption, LimitsAssumption DEF Orders
    <2>2. amount \in Nat /\ to \in Address
      BY FundsAssumption, AddressAssumption
    <2>3. /\ withdrawalNonce' = withdrawalNonce + 1 /\ withdrawalNonce' <= MaxNonce
          /\ DOMAIN pendingWithdrawals' = DOMAIN pendingWithdrawals \cup {withdrawalNonce + 1}
          /\ pendingWithdrawals'[withdrawalNonce + 1] = order
          /\ \A n \in DOMAIN pendingWithdrawals : pendingWithdrawals'[n] = pendingWithdrawals[n]
      BY <1>2, <2>2, QueueWithdrawalFacts DEF Queues
    <2>4. \A n \in DOMAIN pendingWithdrawals' : pendingWithdrawals'[n] \in Orders
      BY <2>1, <2>3 DEF QueueInv
    <2>5. UNCHANGED <<clock, outbox, Claims>>
      BY <1>2 DEF Queues, Claims
    <2>6. \A i \in Claims : outbox[i].nonce \in 1..withdrawalNonce' \ DOMAIN pendingWithdrawals'
      BY <1>0, <2>3 DEF QueueInv
    <2> QED
      BY <2>3, <2>4, <2>5, <2>6 DEF QueueInv
  <1>3. ASSUME NEW nonce \in DOMAIN pendingWithdrawals, NEW paid \in BOOLEAN, Settles(nonce, paid)
        PROVE  QueueInv'
    <2> DEFINE e == ClaimRecord(nonce, paid)
    <2>1. e \in Transfer /\ e.kind = "claim" /\ e.nonce = nonce
      BY DEF TypeOK, ClaimRecord
    <2>2. outbox' = Append(outbox, e) /\ UNCHANGED <<clock, withdrawalNonce>>
      BY <1>3 DEF Settles
    <2> HIDE DEF e
    <2>3. /\ Claims' = Claims \cup {Len(outbox) + 1}
          /\ outbox'[Len(outbox) + 1] = e
          /\ \A i \in Claims : outbox'[i] = outbox[i]
      BY <1>0, <2>1, <2>2, ClaimsAfterAppend
    <2>4. /\ DOMAIN pendingWithdrawals' = DOMAIN pendingWithdrawals \ {nonce}
          /\ \A n \in DOMAIN pendingWithdrawals' : pendingWithdrawals'[n] = pendingWithdrawals[n]
      BY <1>3 DEF Settles, Settle
    <2>5. \A n \in DOMAIN pendingWithdrawals' : pendingWithdrawals'[n] \in Orders
      BY <2>4 DEF QueueInv
    <2>6. \A i \in Claims' : outbox'[i].nonce \in 1..withdrawalNonce' \ DOMAIN pendingWithdrawals'
      BY <1>0, <2>1, <2>2, <2>3, <2>4 DEF QueueInv
    <2>7. \A i \in Claims : outbox[i].nonce # nonce
      BY DEF QueueInv
    <2>8. \A i, j \in Claims' : outbox'[i].nonce = outbox'[j].nonce => i = j
      BY <2>1, <2>3, <2>7 DEF QueueInv
    <2> QED
      BY <2>2, <2>5, <2>6, <2>8 DEF QueueInv
  <1>4. ASSUME NEW e \in Transfer, OtherTransfer(e)
        PROVE  QueueInv'
    <2>1. outbox' = Append(outbox, e) /\ e.kind # "claim"
      BY <1>4 DEF OtherTransfer
    <2>2. Claims' = Claims /\ \A i \in Claims : outbox'[i] = outbox[i]
      BY <1>0, <2>1, ClaimsAfterAppend
    <2>3. UNCHANGED <<clock, pendingWithdrawals, withdrawalNonce>>
      BY <1>4 DEF OtherTransfer, queueVars
    <2> QED
      BY <2>2, <2>3 DEF QueueInv
  <1>5. CASE UNCHANGED <<clock, queueVars, outbox>>
    BY <1>5 DEF QueueInv, queueVars, Claims
  <1> QED
    BY <1>1, <1>2, <1>3, <1>4, <1>5, QueueStep

\* A nonce waits or was claimed, never both, and it is claimed once.
THEOREM QueueInvHolds == Spec => []QueueInv
  <1>1. TypeOK /\ QueueInv /\ [Next]_vars => QueueInv'
    BY NextQueueInv
  <1> QED
    BY <1>1, InitQueueInv, TypeCorrect, PTL DEF Spec

-----------------------------------------------------------------------------
(* The wallet implements the abstract time-locked queue.                   *)

\* Every step of the wallet is a step of the abstract queue or leaves it alone.
LEMMA StepRefinesQueue ==
    ASSUME TypeOK, QueueInv, [Next]_vars
    PROVE  [TimeLock!Next]_TimeLock!vars
  <1>0. /\ clock \in Nat /\ outbox \in Seq(Transfer) /\ withdrawalNonce \in Nat
        /\ DOMAIN pendingWithdrawals \subseteq 1..withdrawalNonce
    BY DEF TypeOK
  <1>1. CASE Waits
    <2>1. UNCHANGED <<QueuedOrders, IssuedPayments>>
      BY <1>1 DEF Waits, queueVars, QueuedOrders, IssuedPayments, Claims
    <2>2. clock' \in Nat /\ clock' > clock
      BY <1>0, <1>1 DEF Waits, Tick
    <2>3. TimeLock!Pass
      BY <2>1, <2>2 DEF TimeLock!Pass
    <2> QED
      BY <2>3 DEF TimeLock!Next
  <1>2. ASSUME NEW to \in Payees, NEW amount \in Amounts, Queues(to, amount)
        PROVE  TimeLock!Next
    <2> DEFINE order == [to |-> to, amount |-> amount, unlocksAt |-> clock + limits.timeLock]
               id    == withdrawalNonce + 1
    <2>0. order \in Orders /\ order.unlocksAt > clock
      <3>1. limits.timeLock \in 1..MaxTimeLock /\ clock \in 0..MaxClock
        BY <1>0, <1>2, LimitsAssumption DEF TypeOK, Queues, MustWait, QueueInv
      <3> QED
        BY <3>1, BoundsAssumption, LimitsAssumption DEF Orders
    <2>1. amount \in Nat /\ to \in Address
      BY FundsAssumption, AddressAssumption
    <2>2. /\ withdrawalNonce' = id /\ id <= MaxNonce
          /\ DOMAIN pendingWithdrawals' = DOMAIN pendingWithdrawals \cup {id}
          /\ pendingWithdrawals'[id] = order
          /\ \A n \in DOMAIN pendingWithdrawals :
               n # id /\ pendingWithdrawals'[n] = pendingWithdrawals[n]
          /\ UNCHANGED <<clock, outbox, Claims>>
      BY <1>2, <2>1, QueueWithdrawalFacts DEF Queues, Claims
    <2>3. id \in 1..MaxNonce
      BY <1>0, <2>2, BoundsAssumption
    <2> HIDE DEF order
    <2>4. QueuedOrders' = QueuedOrders \cup {<<id, order>>}
      BY <2>2 DEF QueuedOrders
    <2>5. UNCHANGED IssuedPayments
      BY <2>2 DEF IssuedPayments
    <2>6. id \notin {q[1] : q \in QueuedOrders} \cup {i[1] : i \in IssuedPayments}
      <3>1. \A q \in QueuedOrders : q[1] # id
        BY <2>2 DEF QueuedOrders
      <3>2. \A i \in IssuedPayments : i[1] # id
        BY <1>0 DEF IssuedPayments, QueueInv
      <3> QED
        BY <3>1, <3>2
    <2>7. TimeLock!Enqueue(id, order)
      BY <2>0, <2>2, <2>4, <2>5, <2>6 DEF TimeLock!Enqueue, TimeLock!Ids
    <2> HIDE DEF id
    <2> QED
      BY <2>0, <2>3, <2>7 DEF TimeLock!Next
  <1>3. ASSUME NEW nonce \in DOMAIN pendingWithdrawals, NEW paid \in BOOLEAN, Settles(nonce, paid)
        PROVE  TimeLock!Next
    <2> DEFINE e     == ClaimRecord(nonce, paid)
               order == pendingWithdrawals[nonce]
    <2>1. /\ e \in Transfer /\ e.kind = "claim" /\ e.nonce = nonce
          /\ e.to = order.to /\ e.amount = order.amount /\ e.at = clock
      BY DEF TypeOK, ClaimRecord
    <2>2. /\ outbox' = Append(outbox, e) /\ UNCHANGED clock
          /\ clock >= order.unlocksAt
      BY <1>3 DEF Settles
    <2> HIDE DEF e
    <2>3. /\ Claims' = Claims \cup {Len(outbox) + 1}
          /\ outbox'[Len(outbox) + 1] = e
          /\ \A i \in Claims : outbox'[i] = outbox[i]
      BY <1>0, <2>1, <2>2, ClaimsAfterAppend
    <2>4. IssuedPayments' = IssuedPayments \cup {<<nonce, order.to, order.amount, clock>>}
      BY <2>1, <2>3 DEF IssuedPayments
    <2>5. /\ DOMAIN pendingWithdrawals' = DOMAIN pendingWithdrawals \ {nonce}
          /\ \A n \in DOMAIN pendingWithdrawals' : pendingWithdrawals'[n] = pendingWithdrawals[n]
      BY <1>3 DEF Settles, Settle
    <2>6. QueuedOrders' = QueuedOrders \ {<<nonce, order>>}
      BY <2>5 DEF QueuedOrders
    <2>7. <<nonce, order>> \in QueuedOrders
      BY DEF QueuedOrders
    <2>8. nonce \in 1..MaxNonce /\ order \in Orders
      BY <1>0, BoundsAssumption DEF QueueInv
    <2> HIDE DEF order
    <2>9. TimeLock!Issue(nonce, order)
      BY <2>2, <2>4, <2>6, <2>7 DEF TimeLock!Issue
    <2> QED
      BY <2>8, <2>9 DEF TimeLock!Next
  <1>4. ASSUME NEW e \in Transfer, OtherTransfer(e)
        PROVE  UNCHANGED TimeLock!vars
    <2>1. outbox' = Append(outbox, e) /\ e.kind # "claim" /\ UNCHANGED <<clock, pendingWithdrawals>>
      BY <1>4 DEF OtherTransfer, queueVars
    <2>2. Claims' = Claims /\ \A i \in Claims : outbox'[i] = outbox[i]
      BY <1>0, <2>1, ClaimsAfterAppend
    <2>3. UNCHANGED <<QueuedOrders, IssuedPayments>>
      BY <2>1, <2>2 DEF QueuedOrders, IssuedPayments
    <2> QED
      BY <2>1, <2>3 DEF TimeLock!vars
  <1>5. CASE UNCHANGED <<clock, queueVars, outbox>>
    BY <1>5 DEF queueVars, TimeLock!vars, QueuedOrders, IssuedPayments, Claims
  <1> QED
    BY <1>1, <1>2, <1>3, <1>4, <1>5, QueueStep

\* Whatever happens to limits, roles and the pause switch, the wallet is a
\* time-locked queue: orders wait unchanged, are issued at most once and not
\* before their time, and no nonce is used twice.
THEOREM WalletImplementsTimeLock == Spec => TimeLockedQueue
  <1>1. Init => TimeLock!Init
    BY DEF Init, TimeLock!Init, QueuedOrders, IssuedPayments, Claims
  <1>2. TypeOK /\ QueueInv /\ [Next]_vars => [TimeLock!Next]_TimeLock!vars
    BY StepRefinesQueue
  <1> QED
    BY <1>1, <1>2, TypeCorrect, QueueInvHolds, PTL DEF Spec, TimeLockedQueue, TimeLock!Spec
=============================================================================
