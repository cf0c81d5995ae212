--------------------------- MODULE MCDistributor ---------------------------
(***************************************************************************)
(* Instances of DividendDistributor small enough for TLC.  Each .cfg picks *)
(* the definitions below that its question needs.                          *)
(***************************************************************************)
EXTENDS DividendDistributor

CONSTANTS stock, issuer, heir, alice, bob, usdg, rGood, rOver

Announcement(type, rate, block, deadline, token) ==
  [asset |-> stock, actionType |-> type, ratePerShare |-> rate, recordBlock |-> block,
   payableAt |-> 1, claimDeadline |-> deadline, payoutToken |-> token]

LeafOf(i, ix, acct, amt) == [id |-> i, index |-> ix, account |-> acct, amount |-> amt]

Holding(supply) ==
  [t \in {usdg} |-> [a \in Addresses \cup {Sink} |-> IF a = issuer THEN supply ELSE 0]]

\* Pool: two actions share one token.  rGood is honest for action 1 and commits
\* one leaf of action 2; rOver promises more than any total covers and uses one
\* index twice.
PoolAnnouncements == {Announcement("CASH_DIVIDEND", 1, 0, 2, usdg)}
PoolLeaves ==
  [r \in {rGood, rOver} |->
     IF r = rGood
     THEN {LeafOf(1, 0, alice, 1), LeafOf(1, 1, bob, 1), LeafOf(2, 0, alice, 1)}
     ELSE {LeafOf(1, 0, alice, 2), LeafOf(1, 0, bob, 1), LeafOf(1, 1, bob, 1),
           LeafOf(2, 0, alice, 2), LeafOf(2, 1, bob, 1)}]
PoolBalance == Holding(4)
NoFee == [t \in {usdg} |-> 0]

\* Edge: one action at a time, every kind of argument (a deadline that does not
\* follow payableAt, a split that names a rate or a token), a token that takes
\* half of every transfer, a successor issuer, a leaf whose account is the
\* distributor itself, and a root built for some other action (rOver).
EdgeAnnouncements ==
  {Announcement("CASH_DIVIDEND", 1, 0, 0, usdg),
   Announcement("CASH_DIVIDEND", 1, 1, 2, usdg),
   Announcement("CASH_DIVIDEND", 1, 0, 1, usdg),
   Announcement("CASH_DIVIDEND", 0, 0, 0, usdg),
   Announcement("CASH_DIVIDEND", 1, 0, 0, NoAddress),
   Announcement("STOCK_SPLIT", 0, 0, 0, NoAddress),
   Announcement("STOCK_DIVIDEND", 1, 0, 0, NoAddress)}
EdgeLeaves ==
  [r \in {rGood, rOver} |->
     IF r = rGood THEN {LeafOf(1, 0, alice, 1), LeafOf(1, 1, Distributor, 1)}
     ELSE {}]
EdgeBalance == Holding(4)
HalfFee == [t \in {usdg} |-> 5000]

=============================================================================
