------------------------------- MODULE WBAIT -------------------------------
(***************************************************************************)
(* contracts/src/WBAIT.sol: the wrapped token that BridgeLock mints and    *)
(* burns.  It is an OpenZeppelin ERC-20 (with Burnable and Permit) whose   *)
(* _update is blocked while the token is paused and whose mint belongs to  *)
(* one contract, fixed once by the owner.                                  *)
(*                                                                         *)
(* Every operator below is one external call.  A call that reverts changes *)
(* nothing, so a require is a conjunct of the guard and the action is      *)
(* simply not possible when it fails.  The OpenZeppelin parts (transfer,   *)
(* approve, allowances, _update's bookkeeping) are modelled from the       *)
(* ERC-20 contract that WBAIT.sol inherits.                                *)
(***************************************************************************)
EXTENDS Integers, FiniteSets, FiniteSetsExt

CONSTANTS
    Accounts,       \* addresses that hold wBAIT
    Bridge,         \* the address of the BridgeLock contract
    ZeroAddress,    \* address(0)
    Amounts,        \* the amounts calls are made with
    MAX_SUPPLY,     \* cap on totalSupply
    MAX_UINT        \* type(uint256).max, the "unlimited" allowance

ASSUME WBAITAssumption ==
    /\ IsFiniteSet(Accounts)
    /\ Bridge # ZeroAddress
    /\ ZeroAddress \notin Accounts
    /\ Amounts \subseteq 0..MAX_UINT
    /\ MAX_SUPPLY \in Nat
    /\ MAX_UINT \in Nat

VARIABLES
    balanceOf,      \* [Accounts -> Nat]
    totalSupply,
    allowance,      \* [Accounts -> Nat]: what Bridge may burn for the owner
    wbaitPaused,    \* Pausable flag of the token (BridgeLock has its own)
    bridgeLock      \* the only address allowed to mint, ZeroAddress until set

wbaitVars == <<balanceOf, totalSupply, allowance, wbaitPaused, bridgeLock>>

\* The constructor of the deployments: WBAIT(address(0), timelock).
WBAITInit ==
    /\ balanceOf = [a \in Accounts |-> 0]
    /\ totalSupply = 0
    /\ allowance = [a \in Accounts |-> 0]
    /\ wbaitPaused = FALSE
    /\ bridgeLock = ZeroAddress

-----------------------------------------------------------------------------
(* ERC-20 internals *)

\* ERC20._update under WBAIT's whenNotPaused: the zero address stands for
\* "created" on the left and "destroyed" on the right.
Update(from, to, value) ==
    /\ ~wbaitPaused
    /\ from \in Accounts => balanceOf[from] >= value
    /\ balanceOf' = [a \in Accounts |-> balanceOf[a]
                        - (IF a = from THEN value ELSE 0)
                        + (IF a = to THEN value ELSE 0)]
    /\ totalSupply' = totalSupply
                        + (IF from = ZeroAddress THEN value ELSE 0)
                        - (IF to = ZeroAddress THEN value ELSE 0)

\* ERC20._spendAllowance: an unlimited allowance is not consumed.
SpendAllowance(owner, value) ==
    /\ allowance[owner] >= value
    /\ allowance' = IF allowance[owner] = MAX_UINT THEN allowance
                    ELSE [allowance EXCEPT ![owner] = @ - value]

-----------------------------------------------------------------------------
(* Calls of the BridgeLock contract *)

Mint(caller, to, amount) ==
    /\ caller = bridgeLock
    /\ ~wbaitPaused
    /\ totalSupply + amount <= MAX_SUPPLY
    /\ Update(ZeroAddress, to, amount)
    /\ UNCHANGED <<allowance, wbaitPaused, bridgeLock>>

BurnFrom(owner, amount) ==
    /\ SpendAllowance(owner, amount)
    /\ Update(owner, ZeroAddress, amount)
    /\ UNCHANGED <<wbaitPaused, bridgeLock>>

-----------------------------------------------------------------------------
(* Calls of token holders.  transferFrom and burnFrom by another spender    *)
(* move what the owner's own transfer or burn could move.                   *)

Transfer(from, to, amount) ==
    /\ Update(from, to, amount)
    /\ UNCHANGED <<allowance, wbaitPaused, bridgeLock>>

\* approve, and permit, whose signature only says who the owner is.
Approve(owner, amount) ==
    /\ allowance' = [allowance EXCEPT ![owner] = amount]
    /\ UNCHANGED <<balanceOf, totalSupply, wbaitPaused, bridgeLock>>

\* ERC20Burnable.burn: no bridge is told about it.
Burn(owner, amount) ==
    /\ Update(owner, ZeroAddress, amount)
    /\ UNCHANGED <<allowance, wbaitPaused, bridgeLock>>

-----------------------------------------------------------------------------
(* Calls of the timelock and of the owner *)

PauseWBAIT ==
    /\ ~wbaitPaused
    /\ wbaitPaused' = TRUE
    /\ UNCHANGED <<balanceOf, totalSupply, allowance, bridgeLock>>

UnpauseWBAIT ==
    /\ wbaitPaused
    /\ wbaitPaused' = FALSE
    /\ UNCHANGED <<balanceOf, totalSupply, allowance, bridgeLock>>

\* _bridgeLockInitialized is bridgeLock # ZeroAddress: the constructor and
\* this function are its only writers.
InitializeBridgeLock(addr) ==
    /\ bridgeLock = ZeroAddress
    /\ addr # ZeroAddress
    /\ bridgeLock' = addr
    /\ UNCHANGED <<balanceOf, totalSupply, allowance, wbaitPaused>>

\* Everything that can be done to the token without going through BridgeLock.
HolderNext ==
    \E owner \in Accounts, amount \in Amounts :
        \/ Burn(owner, amount)
        \/ Approve(owner, amount)
        \/ Approve(owner, MAX_UINT)
        \/ \E to \in Accounts : Transfer(owner, to, amount)

WBAITNext ==
    \/ HolderNext
    \/ PauseWBAIT
    \/ UnpauseWBAIT
    \/ InitializeBridgeLock(Bridge)

-----------------------------------------------------------------------------
(* Invariants *)

WBAITTypeOK ==
    /\ balanceOf \in [Accounts -> Nat]
    /\ totalSupply \in Int     \* that it is never negative is part of SupplyAccounted
    /\ allowance \in [Accounts -> Nat]
    /\ wbaitPaused \in BOOLEAN
    /\ bridgeLock \in {ZeroAddress, Bridge}

\* Every unit of supply is in some account and the cap is never passed:
\* mint's cap check against burns, transfers and self-transfers in any order.
SupplyAccounted ==
    /\ totalSupply = SumFunction(balanceOf)
    /\ totalSupply <= MAX_SUPPLY
=============================================================================
