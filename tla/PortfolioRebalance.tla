---------------------------- MODULE PortfolioRebalance ----------------------------
(***************************************************************************)
(* The rebalance proposal of the portfolio service, made again and again   *)
(* for an account whose owner may carry the proposed trades out.           *)
(*                                                                         *)
(* The service asks for the prices of what is held, then, symbol by        *)
(* symbol, for the price of each trade; a price here is in JPY, with the   *)
(* exchange rate that is asked for beside it.  A quantity traded is a      *)
(* number of the steps it is rounded to (0.0001); a quantity held may be   *)
(* any decimal, and is counted in parts, Grain of them to a step, which    *)
(* the prices are of.  A weight is a number of W-ths.  The tolerance       *)
(* (0.000001 JPY) is below the unit of value, so only a delta of zero lies *)
(* within it.  The precision of decimals is left out.                      *)
(***************************************************************************)
EXTENDS Integers, FiniteSets, Functions

CONSTANTS
    Asset,     \* symbols
    Quotes,    \* what a part of one may be worth
    W,         \* a weight of one
    Grain,     \* parts of a step
    MaxUnits,  \* bound: parts of an asset an account holds
    MaxCash    \* bound: its cash

\* rebalance refuses a price that is not positive.
ASSUME PortfolioAssumption ==
    /\ IsFiniteSet(Asset)
    /\ Quotes \cup {W, Grain, MaxUnits} \subseteq Nat \ {0}
    /\ MaxCash \in Nat

VARIABLES
    units,     \* parts of each asset the account holds
    cash,      \* its cash
    proposal   \* what became of the last one: its weights, the prices it valued
               \* the account at and those of its trades, and these; a sale is
               \* negative

portfolioVars == <<units, cash, proposal>>

NoTrades   == [a \in Asset |-> 0]
NoProposal == [status |-> "none", target |-> NoTrades, valued |-> NoTrades,
               price |-> NoTrades, trade |-> NoTrades]
Weights    == {w \in [Asset -> 0 .. W] : SumFunction(w) <= W}
Prices     == [Asset -> Quotes]

PortfolioTypeOK ==
    /\ units \in [Asset -> 0 .. MaxUnits]
    /\ cash \in Int
    /\ proposal \in [status : {"none", "proposed", "failed"}, target : [Asset -> 0 .. W],
                     valued : [Asset -> Quotes \cup {0}], price : [Asset -> Quotes \cup {0}],
                     trade : [Asset -> Int]]

PortfolioInit ==
    /\ units \in [Asset -> 0 .. MaxUnits]
    /\ cash \in 0 .. MaxCash
    /\ proposal = NoProposal

-----------------------------------------------------------------------------
\* n / d rounded to a whole number, and a half to the even one.
HalfEven(n, d) ==
    LET q == n \div d
        r == n % d
    IN IF 2 * r > d \/ (2 * r = d /\ q % 2 = 1) THEN q + 1 ELSE q

\* snapshot: the account in JPY, at the prices v.
TotalValue(v) == cash + SumFunction([a \in Asset |-> units[a] * v[a]])

\* What an asset lacks to its target value, in W-ths of a JPY.
Delta(v, w, a) == TotalValue(v) * w[a] - W * units[a] * v[a]

\* What a step costs, in W-ths of a JPY.
StepCost(p, a) == W * Grain * p[a]

\* Fault: quantities are rounded up.
TradeUp(v, p, w, a) == IF Delta(v, w, a) >= 0 THEN -((-Delta(v, w, a)) \div StepCost(p, a))
                                              ELSE  Delta(v, w, a) \div StepCost(p, a)

\* The trade that closes it at the prices p: a quantity, negative for a sale.
Trade(v, p, w, a) == IF Delta(v, w, a) >= 0 THEN  HalfEven(Delta(v, w, a), StepCost(p, a))
                                            ELSE -HalfEven(-Delta(v, w, a), StepCost(p, a))

\* rebalance: an asset whose delta is not within the tolerance gets a trade.  A
\* trade intent has a positive quantity, so that one whose quantity rounds to
\* zero fails, and with it the proposal.
Propose(w, v, p) ==
    /\ proposal.status # "proposed" /\ cash >= 0
    /\ proposal' = IF \E a \in Asset : Delta(v, w, a) # 0 /\ Trade(v, p, w, a) = 0
                   THEN [NoProposal EXCEPT !.status = "failed"]
                   ELSE [status |-> "proposed", target |-> w, valued |-> v, price |-> p,
                         trade |-> [a \in Asset |-> Trade(v, p, w, a)]]
    /\ UNCHANGED <<units, cash>>

\* The account after the trades.
UnitsAfter == [a \in Asset |-> units[a] + Grain * proposal.trade[a]]
CashAfter  == cash - SumFunction([a \in Asset |-> Grain * proposal.trade[a] * proposal.price[a]])

\* The owner carries the proposal out, if the account holds what it sells, ...
CarryOut ==
    /\ proposal.status = "proposed"
    /\ UnitsAfter \in [Asset -> 0 .. MaxUnits] /\ CashAfter <= MaxCash
    /\ units' = UnitsAfter
    /\ cash' = CashAfter
    /\ proposal' = NoProposal

\* ... or not, and changes the account.
ChangeAccount ==
    /\ \/ /\ \E a \in Asset, n \in 0 .. MaxUnits : units' = [units EXCEPT ![a] = n]
          /\ UNCHANGED cash
       \/ cash' \in {cash - 1, cash + 1} \cap (0 .. MaxCash) /\ UNCHANGED units
    /\ proposal' = NoProposal

PortfolioNext ==
    \/ \E w \in Weights, v, p \in Prices : Propose(w, v, p)
    \/ CarryOut
    \/ ChangeAccount

PortfolioSpec == PortfolioInit /\ [][PortfolioNext]_portfolioVars

-----------------------------------------------------------------------------
\* Whatever is rounded on the way to a proposal, and whatever prices do while it
\* is made: at the prices of the trades each of them closes the gap between an
\* asset and its target value but for half a step, a sale asks for no more than
\* what is held was worth but for half a step, and the cash pays for all of them
\* together but for half a step of each.
ProposalMeetsTargets ==
    proposal.status = "proposed" =>
        /\ 2 * CashAfter >= -SumFunction([a \in Asset |->
              IF proposal.trade[a] = 0 THEN 0 ELSE Grain * proposal.price[a]])
        /\ \A a \in Asset :
              LET gap   == Delta(proposal.valued, proposal.target, a)
                  step  == StepCost(proposal.price, a)
                  moved == proposal.trade[a] * step
              IN /\ 2 * (gap - moved) <= step /\ 2 * (moved - gap) <= step
                 /\ -2 * moved <= 2 * (W * units[a] * proposal.valued[a]) + step

\* Targets that weigh at most one always get an answer, also when the account
\* already meets them as closely as quantities allow.
ProposalAnswers == proposal.status # "failed"

=============================================================================
