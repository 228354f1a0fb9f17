--------------------------- MODULE MCCrawlDiscovery ---------------------------
(* Small instances of CrawlDiscovery for TLC. *)
EXTENDS CrawlDiscovery, TLC

Symmetry == Permutations(Hosts) \cup Permutations(Workers)
==============================================================================
