------------------------------ MODULE MCServices ------------------------------
(* A small instance of Services for TLC.                                   *)
EXTENDS Services

(* An RSS document, one whose only item has no title, an Atom document whose *)
(* item has no alternate link, and a web page.                               *)
MCDocuments ==
  {[format |-> "rss", items |-> <<[title |-> TRUE, links |-> <<"">>]>>],
   [format |-> "rss", items |-> <<[title |-> FALSE, links |-> <<"">>]>>],
   [format |-> "feed", items |-> <<[title |-> TRUE, links |-> <<"self">>]>>],
   [format |-> "other", items |-> << >>]}
=============================================================================
