--------------------------- MODULE MCActionSource ---------------------------
(***************************************************************************)
(* One issuer announces for one of two stocks, behind either source.       *)
(***************************************************************************)
EXTENDS ActionSource

CONSTANTS stock, other, usdg, eurg

Dividend(rate, token) ==
  [asset |-> stock, actionType |-> "CASH_DIVIDEND", ratePerShare |-> rate,
   recordBlock |-> 0, payableAt |-> 1, claimDeadline |-> 0, payoutToken |-> token]

\* The dividend in the vendor's feed, which names a ticker and no payout token;
\* the same at a rate beyond the tolerance, and in another payout token.
Known == Dividend(2, usdg)
MCVendorRecords == {[ticker |-> "STK", actionType |-> "CASH_DIVIDEND", ratePerShare |-> 2]}
MCAnnouncements == {Known, Dividend(4, usdg)}
MCAnnouncementsLoose == {Known, Dividend(2, eurg)}

\* Arguments the vendor's record confirms (a unit off the rate), and refutes.
Sent(fields) == [fields |-> fields, ticker |-> "STK"]
MCPayloads == {Sent(Dividend(3, usdg)), Sent(Dividend(4, usdg))}
MCPayloadsLoose == {Sent(Known)}

\* The right hash, under its own asset and under another one.
MCAttestKeys == {<<stock, Known>>, <<other, Known>>}

\* Bounds: nobody is made issuer of the other stock, which is here only to be
\* attested for by mistake, and nobody pauses the registry (a pause forbids
\* announcements and adds no step; MCRegistry interleaves it).
Bounded == assetIssuer[other] = NoAddress /\ ~registryPaused

MCSpec == Init /\ [][Next /\ Bounded']_vars
=============================================================================
