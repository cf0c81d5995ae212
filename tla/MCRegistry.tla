----------------------------- MODULE MCRegistry -----------------------------
(***************************************************************************)
(* What the settlement rests on, part by part: the registry, its lifecycle *)
(* calls coming from any address that holds DISTRIBUTOR_ROLE, in any order *)
(* and with no distributor contract behind them; and the isolated vaults   *)
(* the distributor promises.  Neither knows of the other: a behaviour has  *)
(* the one `part` names.                                                   *)
(***************************************************************************)
EXTENDS CorporateActionRegistry, IsolatedVaults

CONSTANTS stock, usdg

VARIABLE part

Args(type, rate, block, payable, deadline, token) ==
  [asset |-> stock, actionType |-> type, ratePerShare |-> rate, recordBlock |-> block,
   payableAt |-> payable, claimDeadline |-> deadline, payoutToken |-> token]

\* Dividends with and without a deadline, split and stock-dividend signals,
\* and one announcement for each reason announceAction reverts.
MCAnnouncements ==
  {Args("CASH_DIVIDEND", 1, 0, 1, 0, usdg), Args("CASH_DIVIDEND", 1, 1, 1, 2, usdg),
   Args("STOCK_SPLIT", 0, 0, 0, 0, NoAddress),
   Args("CASH_DIVIDEND", 0, 0, 1, 0, usdg), Args("CASH_DIVIDEND", 1, 0, 1, 0, NoAddress),
   Args("CASH_DIVIDEND", 1, 0, 0, 0, usdg), Args("CASH_DIVIDEND", 1, 0, 1, 1, usdg),
   Args("STOCK_SPLIT", 1, 0, 0, 0, NoAddress), Args("STOCK_DIVIDEND", 0, 0, 0, 0, usdg)}

PartsInit == part \in {"registry", "vaults"} /\ RegistryInit /\ Init

PartsNext ==
  /\ UNCHANGED part
  /\ \/ part = "registry" /\ RegistryNext /\ UNCHANGED vaultVars
     \/ part = "vaults" /\ Next /\ UNCHANGED registryVars

PartsSpec == PartsInit /\ [][PartsNext]_<<part, registryVars, vaultVars>>
=============================================================================
