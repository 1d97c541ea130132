----------------------------- MODULE MCSpotBids -----------------------------
(* SpotBids on two regions, three zones and two instance types.                *)
EXTENDS SpotBids

(* Zone a1 and a2 are in region east, b1 is in region west; EC2 refuses large  *)
(* instances in a2.                                                            *)
MCRegionOf == [z \in {"a1", "a2", "b1"} |-> IF z = "b1" THEN "west" ELSE "east"]
MCBrokenCombos == {<<"a2", "large">>}

MCCapacity == [t \in {"small", "large"} |-> IF t = "small" THEN 1 ELSE 3]
MCUtility  == [t \in {"small", "large"} |-> IF t = "small" THEN 1 ELSE 2]

(* No zone configured, or only a1; a minimum price that no price, some prices  *)
(* and every price is below.                                                   *)
LOCAL UsualRules ==
    [regions : {{"east"}, {"east", "west"}}, zones : {{}, {"a1"}},
     types : {{"small"}, {"small", "large"}},
     capacity : {MCCapacity}, utility : {MCUtility},
     minPrice : {0, 4}, maxPrice : {4, 6}]

(* A sign the wrong way round, and a utility left at nought.                   *)
MCNegativeRules ==
    [regions : {{"east", "west"}}, zones : {{}},
     types : {{"large"}, {"small", "large"}},
     capacity : {[MCCapacity EXCEPT !["large"] = -1]}, utility : {MCUtility},
     minPrice : {0, 4}, maxPrice : {4}]

LOCAL OddUtilities ==
    [regions : {{"east", "west"}}, zones : {{}}, types : {{"small", "large"}},
     capacity : {MCCapacity},
     utility : {[MCUtility EXCEPT !["large"] = u] : u \in {-2, 0}},
     minPrice : {0, 4}, maxPrice : {4}]

MCRules == UsualRules \cup MCNegativeRules \cup OddUtilities

(* Prices by zone, the same for both types or dearer for large ones: cheap,    *)
(* above the maximum price, twice them above the sane bid, and none.           *)
MCPricings ==
    {[o \in Option |-> IF o.zone = "a1" THEN a ELSE IF o.type = "small" THEN b ELSE c] :
        a \in {0, 3, 7}, b \in {0, 2}, c \in {0, 5, 6}}
=============================================================================
