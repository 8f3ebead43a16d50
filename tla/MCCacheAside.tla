---------------------------- MODULE MCCacheAside ----------------------------
(* A small deployment: an item, a card that shows it, a list of pages. *)
EXTENDS CacheAside, TLC

CONSTANTS first, second   \* two pages of the list

MCSignature == [item |-> <<"verbose", "item_id">>, card |-> <<"n">>,
                pages |-> <<"page", "item_id">>]
MCNamed == [item |-> None, card |-> None, pages |-> "item_id"]
MCMentioned == [item |-> {"verbose"}, card |-> {}, pages |-> {"page"}]
MCRowArg == [item |-> "item_id", card |-> "n", pages |-> "item_id"]

Item(n) == [route |-> "item", args |-> [item_id |-> n, verbose |-> 0]]
Card(n) == [route |-> "card", args |-> [n |-> n]]
Pages(p, n) == [route |-> "pages", args |-> [item_id |-> n, page |-> p]]

MCCall == {Item(1), Card(1), Pages(first, 1), Pages(second, 1)}
MCWrites == {Item(1)}
MCExtra == <<[route |-> "card", arg |-> "item_id"], [route |-> "pages", arg |-> "n"]>>
MCPatterns == <<"pages">>
MCFalsy == {<<"card", 1>>}
MCSymmetry == Permutations(Request) \cup Permutations({first, second})
=============================================================================
