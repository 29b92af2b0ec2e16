--------------------------- MODULE MCIngestEngine ---------------------------
(***************************************************************************)
(* A small instance of IngestEngine.  Two plugins of one market bring the   *)
(* same data (a deal, bound for a table without a conflict target).  One of *)
(* them also brings data that does not validate, data for a table that      *)
(* takes it only once, a record that names another market, and one record   *)
(* more than a task may have.                                              *)
(***************************************************************************)
EXTENDS IngestEngine, TLC

CONSTANTS rera, portal, deal, blank, tender, north, south

MCTasks       == {rera, portal}
MCPosition    == (rera :> 0) @@ (portal :> 1)
MCMarkets     == {north, south}
MCMarketOf    == [t \in MCTasks |-> north]
MCHashes      == {deal, blank, tender}
MCValid       == {deal, tender}
MCPlainInsert == {deal, tender}
MCUnique      == {tender}

Rec(h, m) == [hash |-> h, market |-> m]

MCFeeds ==
  (rera   :> {<<Rec(deal, north)>>}) @@
  (portal :> {<<Rec(deal, NoMarket), Rec(blank, north), Rec(tender, north), Rec(blank, south),
                Rec(deal, north)>>})
=============================================================================
