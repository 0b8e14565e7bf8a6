--------------------------- MODULE ReportFeatures ---------------------------
(***************************************************************************)
(* The feature plug-ins of the report (analyzer/features): each extracts   *)
(* its part of a chunk's record, adds it to what it has (reduce) and, when *)
(* all chunks are read, emits its section (payouts_by_spin_type,           *)
(* spin_type_outcomes, spin_type_rtp_buckets, freespin_dynamics).  Others  *)
(* extract nothing and build their section of the engine's own totals,     *)
(* left for them in the summary (multiplier_profile, bonus_chain_dynamics, *)
(* collect_mechanic, bankruptcy_simulation): here operators of these.      *)
(*                                                                         *)
(* A share of a SpinType's win is a fraction; it is counted in parts of    *)
(* 1/Unit, Unit a common multiple of the wins the shares are taken of.     *)
(***************************************************************************)
EXTENDS RoundTallies

CONSTANTS Unit,
          Tiers,         (* the bankrolls of the ruin replay, in bets       *)
          SessionSpins   (* and the rounds a session of it lasts            *)

VARIABLE features  (* what the plug-ins have added up                      *)

featureVars == <<roundVars, features>>
-----------------------------------------------------------------------------
NoFeatures ==
    [pathRounds |-> << >>, pathWin |-> << >>, pathSessions |-> << >>, pathNext |-> << >>,
     dimRounds |-> << >>, dimWins |-> << >>, dimHits |-> << >>, dimWin |-> << >>,
     pidHits |-> << >>, pidWin |-> << >>, paidBands |-> << >>, bands |-> << >>, next |-> << >>,
     arc |-> << >>, arcWins |-> << >>, ladder |-> << >>, tiers |-> << >>, alarms |-> {}]

(* A SpinType is split by its paths when the chunk shows two real ones.    *)
SplitTypes ==
    {st \in DOMAIN manifest.paths :
        Cardinality({key \in DOMAIN PathTable : key[1] = st /\ Real(key[2])}) >= 2}
SplitKeys == {key \in DOMAIN PathTable : key[1] \in SplitTypes}

(* payouts_by_spin_type: the hits and the win of a pay id in a split       *)
(* SpinType go to the labels by their share of the win the extractor saw.  *)
TypeSeen(st) == SumOver({key \in DOMAIN PathTable : key[1] = st}, LAMBDA key : PathTable[key].win)

ShareOf(key, n) ==
    IF TypeSeen(key[1]) = 0 THEN 0 ELSE (n * PathTable[key].win * Unit) \div TypeSeen(key[1])

DimShares(f) ==
    LET rows == {k[1] : k \in DOMAIN f} \X SplitKeys
    IN  [row \in {row \in rows : <<row[1], row[2][1]>> \in DOMAIN f} |->
            ShareOf(row[2], f[<<row[1], row[2][1]>>])]

Columns(S, field) == [key \in S |-> PathTable[key][field]]

(* freespin_progression's rows of the real labels; the others are only     *)
(* named as alarms.                                                        *)
RealAt(at) == Real(at[1][2])
OnlyReal(f) == [at \in {at \in DOMAIN f : RealAt(at)} |-> f[at]]
NewAlarms == {key \in DOMAIN PathTable : key[1] \in FreeTypes /\ ~Real(key[2])}

LadderRow(f, at) == IF at \in DOMAIN f THEN f[at] ELSE [rounds |-> 0, sum |-> 0]
LadderSum(f, g) == [at \in DOMAIN f \cup DOMAIN g |-> PlusRow(LadderRow(f, at), LadderRow(g, at))]

(* Each plug-in's extract and reduce, on a chunk's record.                 *)
PayoutsReduced ==
    [pidHits |-> AddAll(features.pidHits, ids.byType), pidWin |-> AddAll(features.pidWin, ids.winByType),
     dimHits |-> AddAll(features.dimHits, DimShares(ids.byType)),
     dimWin |-> AddAll(features.dimWin, DimShares(ids.winByType))]

OutcomesReduced ==
    [dimRounds |-> AddAll(features.dimRounds, Columns(SplitKeys, "rounds")),
     dimWins |-> AddAll(features.dimWins, Columns(SplitKeys, "wins"))]

PaidBandsReduced == [paidBands |-> Pooled(features.paidBands, bands.paid)]

PathsReduced ==
    LET labels == DOMAIN PathTable
    IN  [pathRounds |-> AddAll(features.pathRounds, Columns(labels, "rounds")),
         pathWin |-> AddAll(features.pathWin, Columns(labels, "win")),
         pathSessions |-> AddAll(features.pathSessions, Columns(labels, "sessions")),
         pathNext |-> AddAll(features.pathNext, paths.next)]

ProgressionReduced ==
    [arc |-> Pooled(features.arc, OnlyReal(free.arc)), arcWins |-> AddAll(features.arcWins, OnlyReal(free.wins)),
     ladder |-> LadderSum(features.ladder, OnlyReal(Ladder)),
     tiers |-> AddAll(features.tiers, OnlyReal(SessionTiers)), alarms |-> features.alarms \cup NewAlarms]

FreeReduced ==
    PathsReduced @@ ProgressionReduced @@
    [next |-> AddAll(features.next, types.next), bands |-> Pooled(features.bands, bands.rounds)]

Reduced == PayoutsReduced @@ OutcomesReduced @@ PaidBandsReduced @@ FreeReduced
-----------------------------------------------------------------------------
At(f, x) == IF x \in DOMAIN f THEN f[x] ELSE 0
SumOf(f) == SumOver(DOMAIN f, LAMBDA x : f[x])

(* payouts_by_spin_type: a pay id is listed in the SpinTypes it was hit in *)
(* and, where a SpinType is split, under the labels with a share.          *)
PayoutRows ==
    [k \in {k \in DOMAIN features.pidHits : features.pidHits[k] > 0} |->
        [hits |-> features.pidHits[k], win |-> At(features.pidWin, k)]]

Nearest(n) ==
    LET whole == n \div Unit
        rest == 2 * (n % Unit)
    IN  IF rest > Unit \/ (rest = Unit /\ whole % 2 = 1) THEN whole + 1 ELSE whole

(* A share of the hits or of the win; a session's win needs no hit.        *)
DimKeys == DOMAIN features.dimHits \cup DOMAIN features.dimWin

DimTypes ==
    LET labels(st) == {row[2][2] : row \in {row \in DimKeys : row[2][1] = st}}
    IN  {st \in DOMAIN manifest.paths : Cardinality({l \in labels(st) : Real(l)}) >= 2}
DimRows ==
    LET hits(row) == Nearest(At(features.dimHits, row))
        win(row) == At(features.dimWin, row)
    IN  [row \in {row \in DimKeys : row[2][1] \in DimTypes /\ (hits(row) # 0 \/ win(row) # 0)} |->
            [hits |-> hits(row), win |-> win(row)]]

(* spin_type_outcomes: the rounds of the labels listed there, of the real  *)
(* ones: the others are looked up under the name they are displayed by.    *)
OutcomeRows ==
    LET listed == {row[2] : row \in DOMAIN DimRows}
        split(key) == Cardinality({k \in listed : k[1] = key[1] /\ Real(k[2])}) >= 2
    IN  [key \in {key \in listed : split(key)} |->
            IF Real(key[2]) THEN [rounds |-> At(features.dimRounds, key), wins |-> At(features.dimWins, key)]
            ELSE [rounds |-> 0, wins |-> 0]]

(* spin_type_rtp_buckets: the paid rounds of each SpinType by band; the    *)
(* zero band is no row, but counts in the denominator.                     *)
PaidBandRows ==
    LET sts == {x[1] : x \in DOMAIN features.paidBands}
        of(st) == {x \in DOMAIN features.paidBands : x[1] = st}
    IN  [st \in sts |->
            [all |-> SumOver(of(st), LAMBDA x : features.paidBands[x].rounds),
             rows |-> [b \in {x[2] : x \in of(st)} \ {0} |-> features.paidBands[<<st, b>>]]]]
-----------------------------------------------------------------------------
(* freespin_dynamics, for the first SpinType of the free spin family.      *)

OfRole(S) == {st \in DOMAIN manifest.roles : manifest.roles[st] \in S}
FreeType == IF OfRole({"freespin", "hold_respin"}) = {} THEN None ELSE Min(OfRole({"freespin", "hold_respin"}))

(* Mutant of Openers: a respin's way back counts as a new session.         *)
OpenersOfAll(st) == SumOver({n \in DOMAIN features.next : n[2] = st /\ n[1] # st}, LAMBDA n : features.next[n])

(* A session of free spins opens at a step into them from outside: from    *)
(* neither themselves nor a respin within them.                            *)
Openers(st) ==
    SumOver({n \in DOMAIN features.next : n[2] = st /\ n[1] \notin {st} \cup OfRole({"respin"})},
            LAMBDA n : features.next[n])

PathRows ==
    [key \in DOMAIN features.pathRounds |->
        [rounds |-> features.pathRounds[key], win |-> features.pathWin[key],
         sessions |-> features.pathSessions[key]]]

(* Each label's rows and, of the real ones together, the sums by index.    *)
ArcRows ==
    [at \in DOMAIN features.arc |->
        [rounds |-> features.arc[at].rounds, win |-> features.arc[at].win, wins |-> At(features.arcWins, at)]]
OfIndex(f, st, i) == {at \in DOMAIN f : at[1][1] = st /\ at[2] = i}
Indices(f, st) == {at[2] : at \in {at \in DOMAIN f : at[1][1] = st}}

FreeSection ==
    LET st == FreeType
        mine == {x \in DOMAIN features.bands : x[1] = st}
        out == {n \in DOMAIN features.next : n[1] = st}
    IN  IF st = None THEN None
        ELSE [type |-> st, openers |-> Openers(st),
              again |-> At(features.next, <<st, st>>), exits |-> SumOver(out, LAMBDA n : features.next[n]),
              rounds |-> SumOver(mine, LAMBDA x : features.bands[x].rounds),
              zeros |-> Row(features.bands, <<st, 0>>).rounds,
              paths |-> PathRows, arcs |-> ArcRows,
              arc |-> [i \in Indices(features.arc, st) |->
                          SumOver(OfIndex(features.arc, st, i), LAMBDA at : features.arc[at].rounds)],
              ladder |-> [i \in Indices(features.ladder, st) |->
                  [rounds |-> SumOver(OfIndex(features.ladder, st, i), LAMBDA at : features.ladder[at].rounds),
                   sum |-> SumOver(OfIndex(features.ladder, st, i), LAMBDA at : features.ladder[at].sum)]],
              tiers |-> features.tiers, alarms |-> {key \in features.alarms : key[1] = st}]
-----------------------------------------------------------------------------
(* The sections built of the engine's totals t.                            *)

(* multiplier_profile: the bands of the sessions, or of the rounds where   *)
(* there is no session.                                                    *)
MultiplierRows(t) ==
    LET of(b) == {x \in DOMAIN t.bands : x[2] = b}
        byBand == [b \in {x[2] : x \in DOMAIN t.bands} |->
            [rounds |-> SumOver(of(b), LAMBDA x : t.bands[x].rounds),
             bet |-> SumOver(of(b), LAMBDA x : t.bands[x].bet), win |-> SumOver(of(b), LAMBDA x : t.bands[x].win)]]
        f == IF t.sessions > 0 THEN t.sessionBands ELSE byBand
    IN  [all |-> IF t.sessions > 0 THEN t.sessions ELSE t.rounds,
         rows |-> [b \in DOMAIN f \ {0} |-> f[b]]]

(* bonus_chain_dynamics: the chains by feature and, on the rows of the pay *)
(* ids that trigger free spins, the feature they are taken to trigger: the *)
(* one with most chains, of equals the first by name.                      *)
ChainsOf(t, f) == SumOver({c \in DOMAIN t.chains : c[1] = f}, LAMBDA c : t.chains[c])
ChainFeatures(t) == {c[1] : c \in DOMAIN t.chains}
Before(f, g) == f = "NewFreespin" /\ g = "NormalCollectionSpin"

TriggerTarget(t) ==
    LET most == {f \in ChainFeatures(t) : \A g \in ChainFeatures(t) : ChainsOf(t, g) <= ChainsOf(t, f)}
    IN  IF ChainFeatures(t) = {} THEN [feature |-> None, confidence |-> "unknown"]
        ELSE [feature |-> CHOOSE f \in most : ~\E g \in most : Before(g, f),
              confidence |-> IF Cardinality(ChainFeatures(t)) = 1 THEN "unique" ELSE "data_inferred"]

ChainSection(t) ==
    [count |-> SumOf(t.chains), rounds |-> SumOf(t.chainRounds),
     features |-> [f \in ChainFeatures(t) |-> [chains |-> ChainsOf(t, f), rounds |-> At(t.chainRounds, f)]],
     target |-> IF manifest.scatter = {} THEN None ELSE TriggerTarget(t)]

(* collect_mechanic: the cycle is the median of the peaks; a robot whose   *)
(* last count is below it has a cycle pending; without a peak, a mechanic  *)
(* that was seen draws a warning that the sample is too short.             *)
MiddlePeak(t) ==
    LET below(p) == SumOver({q \in DOMAIN t.peaks : q <= p}, LAMBDA q : t.peaks[q])
    IN  IF DOMAIN t.peaks = {} THEN None
        ELSE Min({p \in DOMAIN t.peaks : below(p) > SumOf(t.peaks) \div 2})

CollectSection(t) ==
    LET cycle == MiddlePeak(t)
    IN  [seen |-> t.collectRobots > 0, total |-> t.collects, cycle |-> cycle, cycles |-> SumOf(t.peaks),
         clamped |-> t.collectRobots > 0 /\ t.waiting > 0, pending |-> t.pending,
         unfinished |-> IF cycle = None THEN 0
                        ELSE SumOver({c \in DOMAIN t.finals : c < cycle}, LAMBDA c : t.finals[c]),
         tooShort |-> t.collectRobots > 0 /\ DOMAIN t.peaks = {}]

(* The ruin replay: one stream of rounds through all robots and chunks, at *)
(* each tier a balance.  A round that cannot be paid ends the session (and *)
(* is the first of the next, unless a whole bankroll cannot pay it); one   *)
(* that lasts SessionSpins rounds is survived.                             *)
NewRuin(tier) == [balance |-> tier * Bet, spins |-> 0, bankrupt |-> << >>, survived |-> 0]
NoRuins == [tier \in Tiers |-> NewRuin(tier)]

Spent(tier, s, cost, win) ==
    LET broke == cost > 0 /\ s.balance < cost
        fresh == IF broke THEN [s EXCEPT !.balance = tier * Bet, !.spins = 0, !.bankrupt = Count(@, s.spins)] ELSE s
        played == [fresh EXCEPT !.balance = @ - cost + win, !.spins = @ + 1]
    IN  CASE broke /\ tier * Bet < cost -> [fresh EXCEPT !.bankrupt = Count(@, 0)]
          [] ~(broke /\ tier * Bet < cost) /\ played.spins >= SessionSpins ->
               [played EXCEPT !.survived = @ + 1, !.balance = tier * Bet, !.spins = 0]
          [] OTHER -> played

(* A robot's rounds, then a chunk's robots.                                *)
RobotRuin(tier, s, rs) ==
    LET after[i \in 0..Len(rs)] ==
            IF i = 0 THEN s ELSE Spent(tier, after[i - 1], Num(rs[i].cost), RoundWin(rs[i]))
    IN  after[Len(rs)]
ChunkRuin(tier, s) ==
    LET after[k \in 0..Len(chunk)] == IF k = 0 THEN s ELSE RobotRuin(tier, after[k - 1], chunk[k])
    IN  after[Len(chunk)]

(* Mutant of Ruined: each chunk starts with a full bankroll.               *)
RuinedAfresh(ruins) ==
    [tier \in Tiers |-> ChunkRuin(tier, [ruins[tier] EXCEPT !.balance = tier * Bet])]

Ruined(ruins) == [tier \in Tiers |-> ChunkRuin(tier, ruins[tier])]

RuinRows(ruins) ==
    [tier \in Tiers |->
        [sessions |-> SumOf(ruins[tier].bankrupt) + ruins[tier].survived,
         bankrupt |-> SumOf(ruins[tier].bankrupt), survived |-> ruins[tier].survived,
         fastest |-> IF DOMAIN ruins[tier].bankrupt = {} THEN None ELSE Min(DOMAIN ruins[tier].bankrupt)]]
=============================================================================
