------------------------------ MODULE MCAdminReset -----------------------------
(* Instances of AdminReset for TLC: at most one row of a table, or two.       *)
EXTENDS AdminReset

MCOf ==
  [feed |-> "news_sources", market |-> "markets",
   article |-> "news_articles", signal |-> "news_signals", snapshot |-> "price_snapshots",
   live |-> "paper_trades", replayed |-> "paper_trades", hypothesis |-> "bias_hypotheses",
   lag |-> "lag_measurements", crossing |-> "lag_threshold_crossings",
   case |-> "backtest_cases"]

MCRows == DOMAIN MCOf

MCRefs ==
  [feed |-> {}, market |-> {}, article |-> {"feed"},
   signal |-> {"market", "article"}, snapshot |-> {"market"},
   live |-> {"market", "signal", "hypothesis"},
   replayed |-> {"market", "signal", "case"}, hypothesis |-> {},
   lag |-> {"signal", "market"}, crossing |-> {"lag"},
   case |-> {"article", "market", "signal"}]

Insert(r) == [op |-> "insert", row |-> r]
Update(r) == [op |-> "update", row |-> r]

MCProgram ==
  [process_candidates |-> <<Insert("signal"), Insert("live")>>,
   lag_backfill |-> <<Insert("lag"), Insert("crossing")>>,
   sync_markets |-> <<Insert("snapshot")>>,
   settle_trades |-> <<Update("live")>>]

MCJobs == DOMAIN MCProgram
================================================================================
