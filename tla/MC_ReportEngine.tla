-------------------------- MODULE MC_ReportEngine --------------------------
(* The report of every cell of one or two rounds of the kinds below, of    *)
(* three of those that build on each other and four of those that build    *)
(* the longest: in one robot, in two robots of a chunk or in two chunks,   *)
(* under five manifests.                                                   *)
EXTENDS ReportEngine, TLC

Pay(n) == <<"pay", n>>
Plain == [cost |-> 1, bet |-> 1, fresh |-> TRUE, st |-> 1, win |-> 0, amount |-> 0,
          pays |-> << >>, mark |-> "", cc |-> None, index |-> None, ratio |-> None]
Bonus == [Plain EXCEPT !.cost = 0, !.bet = None, !.fresh = FALSE, !.st = 2]

Lost == Plain                                                        \* a losing paid spin
Won == [Plain EXCEPT !.win = 2, !.pays = Pay(1) :> 2]                \* a winning one
Selects == [Plain EXCEPT !.pays = (Pay(1) :> 0) @@ (Pay(6) :> 0), !.mark = "Trigger"]
Wheel == [Plain EXCEPT !.win = 2, !.pays = (Pay(1) :> 2) @@ (Pay(6) :> 0)]
Peak == [Plain EXCEPT !.cc = 12]                                     \* the collect cycle's end
Restart == [Plain EXCEPT !.cc = 1]                                   \* and its beginning
Echo == [Plain EXCEPT !.fresh = FALSE, !.win = 1]                    \* a respin that echoes its cost
Offer == [Bonus EXCEPT !.win = 4, !.index = 1, !.ratio = 2]          \* an offer, or a win not itemised
Settled == [Bonus EXCEPT !.win = None, !.amount = 4, !.st = 3]       \* a settlement
Itemised == [Bonus EXCEPT !.win = 2, !.pays = Pay(2) :> 2, !.index = 1]
InPart == [Bonus EXCEPT !.win = 4, !.pays = Pay(2) :> 2, !.index = 2, !.ratio = 3] \* itemised in part
Potential == [Bonus EXCEPT !.win = 2, !.pays = (Pay(2) :> 2) @@ (Pay(3) :> 2)]
Unwon == [Bonus EXCEPT !.win = 0, !.pays = Pay(3) :> 2]              \* pays without a win
NullCost == [Bonus EXCEPT !.cost = None, !.bet = 1, !.win = 1]       \* a null cost, a bet
Uncosted == [Bonus EXCEPT !.fresh = TRUE, !.win = 1]                 \* a spin without a cost
Nudged == [Bonus EXCEPT !.win = 1, !.mark = "nudge"]                 \* a wild nudge

Kinds == {Lost, Won, Selects, Wheel, Peak, Restart, Echo, Offer, Settled, Itemised, InPart,
          Potential, Unwon, NullCost, Uncosted, Nudged}
Building == Kinds \ {Unwon, Uncosted, Nudged}
Longest == {Selects, Peak, Restart, Echo, Offer}

Lists == UNION {[1..n -> Kinds] : n \in 1..2} \cup [1..3 -> Building] \cup [1..4 -> Longest]
First(s) == SubSeq(s, 1, Len(s) \div 2)
Second(s) == SubSeq(s, Len(s) \div 2 + 1, Len(s))
MCCells ==
    {<< <<s>> >> : s \in Lists} \cup
    {<< <<First(s), Second(s)>> >> : s \in {s \in Lists : Len(s) > 1}} \cup
    {<< <<First(s)>>, <<Second(s)>> >> : s \in {s \in Lists : Len(s) > 1}}
MCChunks == UNION {{c[f] : f \in DOMAIN c} : c \in MCCells}

Settle(phantom, label) == [type |-> "settlement", settle |-> {3}, phantom |-> phantom, label |-> label]
ByAnchor(a, b) == [field |-> FALSE, opened |-> [a |-> a, b |-> b]]
ByOffer == [field |-> TRUE, map |-> ("" :> "a") @@ ("Trigger" :> "b")]
ByMark == [field |-> TRUE, map |-> ("" :> "a") @@ ("nudge" :> "b")]

Machine == [rules |-> << >>, paths |-> << >>, anchors |-> {}, real |-> TRUE, patterned |-> FALSE,
            roles |-> << >>, scatter |-> {}]

MCManifests ==
    {Machine,
     [Machine EXCEPT !.rules = <<Settle({2}, FALSE)>>, !.real = FALSE, !.scatter = {Pay(1)}],
     [Machine EXCEPT !.rules = <<Settle({}, TRUE), [type |-> "anchor"], [type |-> "residual", sts |-> {1, 2}]>>,
                     !.paths = (2 :> ByAnchor(Pay(1), <<"peak", 12>>)), !.patterned = TRUE,
                     !.roles = 2 :> "hold_respin"],
     [Machine EXCEPT !.rules = <<[type |-> "synthesize", sts |-> {2}, always |-> FALSE], [type |-> "anchor"]>>,
                     !.paths = (2 :> ByMark) @@ (3 :> ByMark), !.anchors = {<<"bcm", 0>>},
                     !.roles = (2 :> "freespin") @@ (3 :> "respin")],
     [Machine EXCEPT !.paths = (1 :> ByOffer) @@ (2 :> ByAnchor(Pay(1), Pay(6))), !.anchors = {Pay(1)}, !.patterned = TRUE,
                     !.roles = 2 :> "freespin", !.scatter = {Pay(6)}]}
MCRules == {m.rules : m \in MCManifests}
=============================================================================
